------------------------------ MODULE BeltDaemon ------------------------------
(***************************************************************************)
(* The daemon of belt: one asynchronous loop that owns the in-memory queue *)
(* and, at every tick, collects items from the data sources, advances them *)
(* (Pending -> Ready -> Running) while slots are free, runs the handlers   *)
(* of all Running items in parallel tasks, applies the results in the      *)
(* order the tasks end, asks the evaluator about the Completed items, and  *)
(* goes back to its select loop (belt-daemon: daemon.rs, advancer.rs,      *)
(* hitl_service.rs, evaluator.rs).                                         *)
(*                                                                         *)
(* An action is a stretch of the loop between two points where something   *)
(* else can happen: a task ends, another process changes a database row,   *)
(* the process is killed.                                                  *)
(***************************************************************************)
EXTENDS SequencesExt, QueuePhases, EscalationPolicy, ConcurrencyTracker

CONSTANTS
    Sources,          \* source_ids, e.g. the issues of a repository
    States,           \* the states of the workflow (analyze, implement, ...)
    Work,             \* work_ids: make_work_id pairs a source with a state
    Configured,       \* the states that have a StateConfig
    OnDoneStates,     \* the configured states whose on_done is not empty
    Gated,            \* the work whose source_id is the id of a spec
    Deps,             \* what commands may declare: <<work, the work it awaits>>
    Outcomes,         \* how the handler of a configured state may end
    MaxEvalFailures,  \* evaluations that may fail before a human is asked
    HistoryCap,       \* bound: failure counts saturate here
    MaxRestarts       \* bound: how often the process is killed

StateOf(w) == w[2]

DepTargets == {dep[2] : dep \in Deps}

TaskOutcome == {"completed", "failed", "nonzero", "worktree_error", "panicked"}

ASSUME ConstantsAssumption ==
    /\ IsFiniteSet(Work)
    /\ Work \subseteq Sources \X States
    /\ OnDoneStates \subseteq Configured
    /\ Configured \subseteq States
    /\ Gated \subseteq Work
    /\ Deps \subseteq Work \X Work
    /\ Outcomes \subseteq TaskOutcome
    /\ MaxEvalFailures \in Nat \ {0}
    /\ HistoryCap \in Nat
    /\ MaxRestarts \in Nat

(* Past the cap a saturated count still resolves to the action of the last  *)
(* rule: no rule needs a count the sum of two capped counters cannot reach. *)
ASSUME CapAssumption == \A k \in DOMAIN Policy : k <= HistoryCap + 1

VARIABLES
    \* the loop
    at,            \* where the loop is
    cursor,        \* the queue index the Ready pass looks at
    batch,         \* the snapshot of Completed work_ids under evaluation
    gate,          \* work -> what the second pass read at its gate (for properties)
    \* the daemon's memory, lost when the process ends
    queue,         \* VecDeque<QueueItem>
    task,          \* work_id -> what its spawned task is doing, or its result
    tracker,       \* ConcurrencyTracker
    evalFailures,  \* Evaluator::eval_failure_counts
    failedEntries, \* failed entries of `history`, by state
    failedEvents,  \* failed entries of `history_events`, by work
    doneEntries,   \* work with a "done" entry in `history`
    \* outside the process
    deps,          \* rows of queue_dependencies
    rows,          \* what the database says of the phase of a dependency
    restarts       \* how often the process was killed

loopVars == <<at, cursor, batch, gate>>
historyVars == <<failedEntries, failedEvents, doneEntries>>
outsideVars == <<deps, rows, restarts>>
vars == <<loopVars, queue, task, tracker, evalFailures, historyVars, outsideVars>>

Location == {"select", "collect", "pending", "ready", "spawn", "join",
             "evaluate", "judge", "on_done", "drain", "stopped"}

HitlReason == {"none", "spec_conflict", "retry_max_exceeded", "evaluate_failure"}

QueueItem == [work_id : Work, phase : QueuePhase, hitl_reason : HitlReason]

TaskState == {"idle", "working", "skipped"} \cup TaskOutcome

(* A row of queue_items as the dependency gate reads it: absent (or not    *)
(* readable), in a phase other than Done, or Done.                         *)
RowState == {"none", "open", "done"}

(* No gate read: not yet in this pass, or the database did not answer. *)
Unread == [awaits |-> {}, held |-> {}]

GateRead == [awaits : SUBSET DepTargets, held : SUBSET DepTargets]

NewItem(w) == [work_id |-> w, phase |-> "Pending", hitl_reason |-> "none"]

WorkIn(q, phases) == {w \in Work : \E i \in DOMAIN q :
                                      q[i].work_id = w /\ q[i].phase \in phases}

InQueue(w) == w \in WorkIn(queue, QueuePhase)

(* Work that holds a slot: Running in the queue, or in a spawned task. *)
Executing == WorkIn(queue, {"Running"}) \cup {w \in Work : task[w] # "idle"}

Bump(n) == IF n < HistoryCap THEN n + 1 ELSE n

Init ==
    /\ at = "select"
    /\ cursor = 1
    /\ batch = {}
    /\ gate = [w \in Work |-> Unread]
    /\ queue = << >>
    /\ task = [w \in Work |-> "idle"]
    /\ tracker = NewTracker
    /\ evalFailures = [w \in Work |-> 0]
    /\ failedEntries = [s \in States |-> 0]
    /\ failedEvents = [w \in Work |-> 0]
    /\ doneEntries = {}
    /\ deps \in SUBSET Deps
    /\ rows \in [DepTargets -> RowState]
    /\ restarts = 0

-----------------------------------------------------------------------------
(* The select loop.                                                        *)

(* The interval elapses, or a SIGUSR1 or an IPC message asks for a tick. *)
Tick ==
    /\ at = "select"
    /\ at' = "collect"
    /\ UNCHANGED <<cursor, batch, gate, queue, task, tracker, evalFailures,
                   historyVars, outsideVars>>

(* SIGINT: ctrl_c is only awaited in the select loop. *)
Interrupt ==
    /\ at = "select"
    /\ at' = "drain"
    /\ UNCHANGED <<cursor, batch, gate, queue, task, tracker, evalFailures,
                   historyVars, outsideVars>>

(* drain_with_timeout returns at once when no item of the queue is Running. *)
Drain ==
    /\ at = "drain"
    /\ WorkIn(queue, {"Running"}) = {}
    /\ at' = "stopped"
    /\ UNCHANGED <<cursor, batch, gate, queue, task, tracker, evalFailures,
                   historyVars, outsideVars>>

Stopped == at = "stopped" /\ UNCHANGED vars

-----------------------------------------------------------------------------
(* Phase 1: collect.                                                       *)

(* Variant for a negative control: ids already in the queue are not skipped. *)
CollectAgain(w) ==
    /\ at = "collect"
    /\ queue' = Append(queue, NewItem(w))
    /\ UNCHANGED <<loopVars, task, tracker, evalFailures, historyVars, outsideVars>>

(* A source returns an item the queue does not hold. *)
CollectItem(w) ==
    /\ at = "collect"
    /\ ~InQueue(w)
    /\ queue' = Append(queue, NewItem(w))
    /\ UNCHANGED <<loopVars, task, tracker, evalFailures, historyVars, outsideVars>>

CollectDone ==
    /\ at = "collect"
    /\ at' = "pending"
    /\ UNCHANGED <<cursor, batch, gate, queue, task, tracker, evalFailures,
                   historyVars, outsideVars>>

(* A source fails: `?` ends the tick, what was collected before is kept. *)
CollectError ==
    /\ at = "collect"
    /\ at' = "select"
    /\ UNCHANGED <<cursor, batch, gate, queue, task, tracker, evalFailures,
                   historyVars, outsideVars>>

-----------------------------------------------------------------------------
(* Phase 2: advance.                                                       *)

(* A Pending item after the gates that read its spec: the dependency gate  *)
(* blocks it, or it is Ready, and then Hitl if the spec conflicts with     *)
(* another active one.                                                     *)
Admitted(item, verdict) ==
    CASE verdict = "blocked"  -> item
      [] verdict = "clear"    -> [item EXCEPT !.phase = Transit(@, "Ready")]
      [] verdict = "conflict" ->
           [item EXCEPT !.phase = Transit(Transit(@, "Ready"), "Hitl"),
                        !.hitl_reason = "spec_conflict"]

(* The first pass over the queue.  The specs are changed by other          *)
(* processes, so a gated item may meet any verdict; without a spec under   *)
(* its source_id an item meets open gates.                                 *)
AdvancePending ==
    /\ at = "pending"
    /\ \E verdict \in [Gated -> {"clear", "blocked", "conflict"}] :
         queue' = [i \in DOMAIN queue |->
                     IF queue[i].phase # "Pending" THEN queue[i]
                     ELSE Admitted(queue[i],
                            IF queue[i].work_id \in Gated
                            THEN verdict[queue[i].work_id] ELSE "clear")]
    /\ at' = "ready"
    /\ cursor' = 1
    /\ UNCHANGED <<batch, gate, task, tracker, evalFailures, historyVars, outsideVars>>

(* list_queue_dependencies: what w waits for by the rows of this moment. *)
DependenciesOf(w) == {dep \in DepTargets : <<w, dep>> \in deps}

(* Variant: the gate trusts the database alone. *)
HeldByRows(w) == {dep \in DependenciesOf(w) : rows[dep] = "open"}

(* check_queue_dependency_gate: a dependency in the queue holds w unless it *)
(* is Done; one that is not there holds it if its row is in another phase   *)
(* than Done, but not if the row is missing (or cannot be read).            *)
HeldBy(w) ==
    {dep \in DependenciesOf(w) :
       IF InQueue(dep) THEN dep \notin WorkIn(queue, {"Done"}) ELSE rows[dep] = "open"}

GateOf(w) == [awaits |-> DependenciesOf(w), held |-> HeldBy(w)]

(* The second pass, one index at a time: each looks at the database again.  *)
(* An item starts when nothing holds it, and also when the database does    *)
(* not answer which rows it has, whatever these are.                        *)
StartItem ==
    /\ at = "ready"
    /\ cursor \in DOMAIN queue
    /\ queue[cursor].phase = "Ready"
    /\ CanSpawnInWorkspace(tracker)
    /\ LET w == queue[cursor].work_id IN
         \/ HeldBy(w) = {} /\ gate' = [gate EXCEPT ![w] = GateOf(w)]
         \/ gate' = [gate EXCEPT ![w] = Unread]
    /\ queue' = [queue EXCEPT ![cursor].phase = Transit(@, "Running")]
    /\ tracker' = Track(tracker)
    /\ cursor' = cursor + 1
    /\ UNCHANGED <<at, batch, task, evalFailures, historyVars, outsideVars>>

(* The index of an item that is not Ready. *)
PassItem ==
    /\ at = "ready"
    /\ cursor \in DOMAIN queue
    /\ queue[cursor].phase # "Ready"
    /\ cursor' = cursor + 1
    /\ UNCHANGED <<at, batch, gate, queue, task, tracker, evalFailures,
                   historyVars, outsideVars>>

(* `continue` behind a closed dependency gate. *)
HoldItem ==
    /\ at = "ready"
    /\ cursor \in DOMAIN queue
    /\ queue[cursor].phase = "Ready"
    /\ CanSpawnInWorkspace(tracker)
    /\ LET w == queue[cursor].work_id IN
         HeldBy(w) # {} /\ gate' = [gate EXCEPT ![w] = GateOf(w)]
    /\ cursor' = cursor + 1
    /\ UNCHANGED <<at, batch, queue, task, tracker, evalFailures,
                   historyVars, outsideVars>>

(* Variant: a closed dependency gate ends the pass like a missing slot does. *)
EndAdvanceAtClosedGate ==
    /\ at = "ready"
    /\ cursor \in DOMAIN queue =>
         /\ queue[cursor].phase = "Ready"
         /\ CanSpawnInWorkspace(tracker) => HeldBy(queue[cursor].work_id) # {}
    /\ at' = "spawn"
    /\ cursor' = 1
    /\ UNCHANGED <<batch, gate, queue, task, tracker, evalFailures, historyVars,
                   outsideVars>>

(* The pass ends after the last index, or breaks at a Ready item without a *)
(* slot left.                                                              *)
EndAdvance ==
    /\ at = "ready"
    /\ cursor \in DOMAIN queue =>
         queue[cursor].phase = "Ready" /\ ~CanSpawnInWorkspace(tracker)
    /\ at' = "spawn"
    /\ cursor' = 1
    /\ UNCHANGED <<batch, gate, queue, task, tracker, evalFailures,
                   historyVars, outsideVars>>

-----------------------------------------------------------------------------
(* Phase 3: execute.                                                       *)

(* A Running item leaves the queue and its task is spawned; the tasks      *)
(* spawned before it are already at work.                                  *)
Spawn(i) ==
    /\ at = "spawn"
    /\ queue[i].phase = "Running"
    /\ \A j \in 1 .. i - 1 : queue[j].phase # "Running"
    /\ task' = [task EXCEPT ![queue[i].work_id] = "working"]
    /\ queue' = RemoveAt(queue, i)
    /\ UNCHANGED <<loopVars, tracker, evalFailures, historyVars, outsideVars>>

EndSpawn ==
    /\ at = "spawn"
    /\ WorkIn(queue, {"Running"}) = {}
    /\ at' = "join"
    /\ UNCHANGED <<cursor, batch, gate, queue, task, tracker, evalFailures,
                   historyVars, outsideVars>>

(* execute_item_parallel ends.  Without a StateConfig it is "skipped";      *)
(* otherwise "worktree_error", "failed" (the on_enter hook or actions, or   *)
(* the executor: the task has moved the item to Failed), "nonzero" (the     *)
(* handler's exit code: the item is left Running), "completed", or the      *)
(* task panics and the item is gone with it.                                *)
TaskEnds(w) ==
    /\ task[w] = "working"
    /\ \E outcome \in IF StateOf(w) \in Configured THEN Outcomes ELSE {"skipped"} :
         task' = [task EXCEPT ![w] = outcome]
    /\ UNCHANGED <<loopVars, queue, tracker, evalFailures, historyVars, outsideVars>>

(* The task of w is the next join_next returns. *)
Joined(w) ==
    /\ at = "join"
    /\ task' = [task EXCEPT ![w] = "idle"]

(* A panic is logged; an item without configuration is reported as skipped. *)
(* Neither puts the item back, neither releases its slot.                   *)
JoinLost(w) ==
    /\ task[w] \in {"panicked", "skipped"}
    /\ Joined(w)
    /\ UNCHANGED <<loopVars, queue, tracker, evalFailures, historyVars, outsideVars>>

(* Variant: the early return for a worktree error keeps the slot. *)
JoinWorktreeErrorKeepsSlot(w) ==
    /\ task[w] = "worktree_error"
    /\ Joined(w)
    /\ UNCHANGED <<loopVars, queue, tracker, evalFailures, historyVars, outsideVars>>

(* The slot is released, the item is not put back. *)
JoinWorktreeError(w) ==
    /\ task[w] = "worktree_error"
    /\ Joined(w)
    /\ tracker' = Release(tracker)
    /\ UNCHANGED <<loopVars, queue, evalFailures, historyVars, outsideVars>>

(* Variant: completion gives two slots back. *)
JoinCompletedTwice(w) ==
    /\ task[w] = "completed"
    /\ Joined(w)
    /\ tracker' = Release(Release(tracker))
    /\ queue' = Append(queue, [work_id |-> w,
                               phase |-> Transit("Running", "Completed"),
                               hitl_reason |-> "none"])
    /\ UNCHANGED <<loopVars, evalFailures, historyVars, outsideVars>>

(* The slot is released and the item put back, to be evaluated. *)
JoinCompleted(w) ==
    /\ task[w] = "completed"
    /\ Joined(w)
    /\ tracker' = Release(tracker)
    /\ queue' = Append(queue, [work_id |-> w,
                               phase |-> Transit("Running", "Completed"),
                               hitl_reason |-> "none"])
    /\ UNCHANGED <<loopVars, evalFailures, historyVars, outsideVars>>

(* count_failures: the failed entries of `history` with this state, whatever *)
(* their source, plus the failed entries of `history_events` of this work.   *)
CountFailures(w) == failedEntries[StateOf(w)] + failedEvents[w]

(* Variant: a retry goes to the front of the queue. *)
EscalatedToFront(w, action) ==
    CASE action \in {"retry", "retry_with_comment"} -> <<NewItem(w)>> \o queue
      [] action = "skip" -> queue
      [] OTHER ->
           Append(queue, [work_id |-> w, phase |-> "Hitl",
                          hitl_reason |-> "retry_max_exceeded"])

(* handle_escalation: a retry goes to the back of the queue, a skipped item *)
(* is not put back, and with "hitl" or "replan" it waits for a human.       *)
Escalated(w, action) ==
    CASE action \in {"retry", "retry_with_comment"} -> Append(queue, NewItem(w))
      [] action = "skip" -> queue
      [] OTHER ->
           Append(queue, [work_id |-> w, phase |-> "Hitl",
                          hitl_reason |-> "retry_max_exceeded"])

JoinFailed(w) ==
    /\ task[w] \in {"failed", "nonzero"}
    /\ Joined(w)
    /\ queue' = Escalated(w, Resolve(CountFailures(w) + 1))
    /\ failedEntries' = [failedEntries EXCEPT ![StateOf(w)] = Bump(@)]
    /\ failedEvents' = [failedEvents EXCEPT ![w] = Bump(@)]
    /\ tracker' = Release(tracker)
    /\ UNCHANGED <<loopVars, evalFailures, doneEntries, outsideVars>>

(* Variant: the loop goes on when the first result is in. *)
EndJoinEarly ==
    /\ at = "join"
    /\ \A w \in Work : task[w] \in {"idle", "working"}
    /\ at' = "evaluate"
    /\ gate' = [w \in Work |-> Unread]
    /\ UNCHANGED <<cursor, batch, queue, task, tracker, evalFailures,
                   historyVars, outsideVars>>

(* join_next has no task left to return. *)
EndJoin ==
    /\ at = "join"
    /\ \A w \in Work : task[w] = "idle"
    /\ at' = "evaluate"
    /\ gate' = [w \in Work |-> Unread]
    /\ UNCHANGED <<cursor, batch, queue, task, tracker, evalFailures,
                   historyVars, outsideVars>>

-----------------------------------------------------------------------------
(* Phase 4: evaluate.                                                      *)

(* Nothing is Completed, or no slot is left for the evaluator's call. *)
DeferEvaluate ==
    /\ at = "evaluate"
    /\ WorkIn(queue, {"Completed"}) = {} \/ ~CanSpawn(tracker)
    /\ at' = "select"
    /\ UNCHANGED <<cursor, batch, gate, queue, task, tracker, evalFailures,
                   historyVars, outsideVars>>

(* Variant: the snapshot takes everything that has left execution. *)
StartEvaluateOfAll ==
    /\ at = "evaluate"
    /\ WorkIn(queue, {"Completed"}) # {}
    /\ CanSpawn(tracker)
    /\ batch' = WorkIn(queue, {"Completed", "Hitl"})
    /\ tracker' = TrackEvaluate(tracker)
    /\ at' = "judge"
    /\ UNCHANGED <<cursor, gate, queue, task, evalFailures, historyVars, outsideVars>>

(* The evaluator's call takes a slot; the Completed items are remembered. *)
StartEvaluate ==
    /\ at = "evaluate"
    /\ WorkIn(queue, {"Completed"}) # {}
    /\ CanSpawn(tracker)
    /\ batch' = WorkIn(queue, {"Completed"})
    /\ tracker' = TrackEvaluate(tracker)
    /\ at' = "judge"
    /\ UNCHANGED <<cursor, gate, queue, task, evalFailures, historyVars, outsideVars>>

(* The evaluator succeeds: the whole snapshot goes on to on_done. *)
JudgeOk ==
    /\ at = "judge"
    /\ evalFailures' = [w \in Work |-> IF w \in batch THEN 0 ELSE evalFailures[w]]
    /\ at' = "on_done"
    /\ UNCHANGED <<cursor, batch, gate, queue, task, tracker, historyVars, outsideVars>>

(* record_eval_failure; only the comparison with the threshold is ever made, *)
(* so the count stops there.                                                 *)
RecordEvalFailure(w) ==
    IF evalFailures[w] < MaxEvalFailures THEN evalFailures[w] + 1 ELSE MaxEvalFailures

(* Variant: one failure too late. *)
ExceedsThreshold(count) == count > MaxEvalFailures

ReachesThreshold(count) == count >= MaxEvalFailures

(* Variant: the early return for a failing evaluator keeps its slot. *)
JudgeFailedKeepsSlot ==
    /\ at = "judge"
    /\ evalFailures' =
         [w \in Work |-> IF w \in batch THEN RecordEvalFailure(w) ELSE evalFailures[w]]
    /\ queue' =
         [i \in DOMAIN queue |->
            IF queue[i].work_id \in batch /\ ReachesThreshold(evalFailures'[queue[i].work_id])
            THEN [queue[i] EXCEPT !.phase = Transit(@, "Hitl"),
                                  !.hitl_reason = "evaluate_failure"]
            ELSE queue[i]]
    /\ batch' = {}
    /\ at' = "select"
    /\ UNCHANGED <<cursor, gate, task, tracker, historyVars, outsideVars>>

(* The evaluator exits non-zero or cannot be run: each item of the snapshot *)
(* has failed once more, and is handed to a human at the threshold.         *)
JudgeFailed ==
    /\ at = "judge"
    /\ evalFailures' =
         [w \in Work |-> IF w \in batch THEN RecordEvalFailure(w) ELSE evalFailures[w]]
    /\ queue' =
         [i \in DOMAIN queue |->
            IF queue[i].work_id \in batch /\ ReachesThreshold(evalFailures'[queue[i].work_id])
            THEN [queue[i] EXCEPT !.phase = Transit(@, "Hitl"),
                                  !.hitl_reason = "evaluate_failure"]
            ELSE queue[i]]
    /\ batch' = {}
    /\ tracker' = ReleaseEvaluate(tracker)
    /\ at' = "select"
    /\ UNCHANGED <<cursor, gate, task, historyVars, outsideVars>>

(* on_done of the first item of the snapshot.  The item is taken out of the *)
(* queue and not put back, whatever the result: "done", "failed" (the       *)
(* script's exit code), or an error of the worktree or the executor.        *)
OnDone(i) ==
    /\ at = "on_done"
    /\ queue[i].work_id \in batch
    /\ \A j \in 1 .. i - 1 : queue[j].work_id \notin batch
    /\ LET w == queue[i].work_id IN
         /\ \E result \in IF StateOf(w) \in OnDoneStates
                          THEN {"done", "failed", "error"} ELSE {"done"} :
              /\ doneEntries' = doneEntries \cup (IF result = "done" THEN {w} ELSE {})
              /\ failedEntries' = [failedEntries EXCEPT ![StateOf(w)] =
                                     IF result = "failed" THEN Bump(@) ELSE @]
         /\ batch' = batch \ {w}
    /\ queue' = RemoveAt(queue, i)
    /\ UNCHANGED <<at, cursor, gate, task, tracker, evalFailures, failedEvents, outsideVars>>

EndEvaluate ==
    /\ at = "on_done"
    /\ batch = {}
    /\ tracker' = ReleaseEvaluate(tracker)
    /\ at' = "select"
    /\ UNCHANGED <<cursor, batch, gate, queue, task, evalFailures, historyVars, outsideVars>>

-----------------------------------------------------------------------------
(* Outside the process.                                                    *)

(* `queue dependency add | remove`, at any time. *)
DependencyAdded(dep) ==
    /\ dep \notin deps
    /\ deps' = deps \cup {dep}
    /\ UNCHANGED <<loopVars, queue, task, tracker, evalFailures, historyVars, rows, restarts>>

DependencyRemoved(dep) ==
    /\ dep \in deps
    /\ deps' = deps \ {dep}
    /\ UNCHANGED <<loopVars, queue, task, tracker, evalFailures, historyVars, rows, restarts>>

(* A command or a cron job changes the row of the item another waits for. *)
RowChanges(dep) ==
    /\ \E row \in RowState \ {rows[dep]} : rows' = [rows EXCEPT ![dep] = row]
    /\ UNCHANGED <<loopVars, queue, task, tracker, evalFailures, historyVars,
                   deps, restarts>>

(* What other processes do to the database. *)
DatabaseChanges ==
    \/ \E dep \in Deps : DependencyAdded(dep) \/ DependencyRemoved(dep)
    \/ \E dep \in DepTargets : RowChanges(dep)

(* The process is killed (belt stop sends SIGTERM, which nothing handles)  *)
(* and started again: everything it held in memory is gone.                *)
Restart ==
    /\ restarts < MaxRestarts
    /\ restarts' = restarts + 1
    /\ at' = "select"
    /\ cursor' = 1
    /\ batch' = {}
    /\ gate' = [w \in Work |-> Unread]
    /\ queue' = << >>
    /\ task' = [w \in Work |-> "idle"]
    /\ tracker' = NewTracker
    /\ evalFailures' = [w \in Work |-> 0]
    /\ failedEntries' = [s \in States |-> 0]
    /\ failedEvents' = [w \in Work |-> 0]
    /\ doneEntries' = {}
    /\ UNCHANGED <<deps, rows>>

-----------------------------------------------------------------------------
Join(w) == JoinLost(w) \/ JoinWorktreeError(w) \/ JoinCompleted(w) \/ JoinFailed(w)

(* What the loop does on its own, without waiting for a task. *)
LoopStep ==
    \/ Tick \/ Drain
    \/ (\E w \in Work : CollectItem(w)) \/ CollectDone \/ CollectError
    \/ AdvancePending \/ StartItem \/ PassItem \/ HoldItem \/ EndAdvance
    \/ (\E i \in DOMAIN queue : Spawn(i)) \/ EndSpawn
    \/ (\E w \in Work : Join(w)) \/ EndJoin
    \/ DeferEvaluate \/ StartEvaluate \/ JudgeOk \/ JudgeFailed
    \/ (\E i \in DOMAIN queue : OnDone(i)) \/ EndEvaluate

Next ==
    \/ LoopStep
    \/ \E w \in Work : TaskEnds(w)
    \/ DatabaseChanges
    \/ Interrupt \/ Stopped \/ Restart

Spec == Init /\ [][Next]_vars

(* The runtime keeps polling the loop and the tasks; handlers, scripts and *)
(* the evaluator are assumed to return (handlers have no timeout), and a   *)
(* source not to fail at every single tick.                                *)
Fairness ==
    /\ WF_vars(LoopStep)
    /\ \A w \in Work : WF_vars(TaskEnds(w))
    /\ SF_vars(CollectDone)

FairSpec == Spec /\ Fairness

-----------------------------------------------------------------------------
(* Properties.                                                             *)

TypeOK ==
    /\ at \in Location
    /\ cursor \in Nat \ {0}
    /\ batch \subseteq Work
    /\ gate \in [Work -> GateRead]
    /\ queue \in Seq(QueueItem)
    /\ task \in [Work -> TaskState]
    /\ tracker \in Tracker
    /\ evalFailures \in [Work -> 0 .. MaxEvalFailures]
    /\ failedEntries \in [States -> 0 .. HistoryCap]
    /\ failedEvents \in [Work -> 0 .. HistoryCap]
    /\ doneEntries \subseteq Work
    /\ deps \subseteq Deps
    /\ rows \in [DepTargets -> RowState]
    /\ restarts \in 0 .. MaxRestarts

(* A work_id is in one place only: one item of the queue or one task.       *)
(* Collection skips known ids, execution takes items out of the queue, and  *)
(* retries and results put back one item for each taken.                    *)
UniqueWork ==
    /\ \A i, j \in DOMAIN queue : queue[i].work_id = queue[j].work_id => i = j
    /\ \A i \in DOMAIN queue : task[queue[i].work_id] = "idle"

(* However tasks end and whatever happens to their items, no more work      *)
(* holds a slot than the workspace allows, and together with an evaluation  *)
(* no more than the daemon allows.                                          *)
ConcurrencyBounded ==
    /\ Cardinality(Executing) <= WsLimit
    /\ Cardinality(Executing) + tracker.evaluates <= MaxTotal

(* Items are Running only from the second advance pass until they are       *)
(* spawned, and tasks exist only until the last of them is joined.  So the  *)
(* select loop, and an interrupt there, never sees work in execution, and   *)
(* draining has nothing to wait for or to roll back.                        *)
ExecutionWithinTick ==
    /\ at \notin {"ready", "spawn"} => WorkIn(queue, {"Running"}) = {}
    /\ at \notin {"spawn", "join"} => \A w \in Work : task[w] = "idle"

(* Why the bound holds: no execution is without a slot, the two counters    *)
(* agree about the evaluations, and neither passes its limit.  Lost tasks   *)
(* make the tracker count more than there is, never less.                   *)
SlotsCovered ==
    /\ Cardinality(Executing) <= tracker.workspace
    /\ tracker.total = tracker.workspace + tracker.evaluates
    /\ tracker.evaluates = IF at \in {"judge", "on_done"} THEN 1 ELSE 0
    /\ tracker.workspace <= WsLimit
    /\ tracker.total <= MaxTotal

(* The inductive invariant behind the bound. *)
SlotInv == TypeOK /\ UniqueWork /\ ExecutionWithinTick /\ SlotsCovered

(* The tracker counts exactly the work that is executing: every way a task  *)
(* can end gives its slot back once, and none is given back twice.          *)
SlotsMatchExecuting ==
    /\ tracker.workspace = Cardinality(Executing)
    /\ tracker.total = tracker.workspace + tracker.evaluates

(* Slots taken for work that no longer executes. *)
LostSlots == tracker.workspace - Cardinality(Executing)

(* Capacity goes in one way only: while a process lives, a slot is lost when *)
(* a panicked or unconfigured task is joined, one each time, and no step     *)
(* gives it back.  Every other step, of however many tasks, takes and gives  *)
(* slots together with the work that holds them.                            *)
SlotsAccounted ==
    [][restarts' = restarts =>
         LostSlots' = LostSlots +
           IF \E w \in Work : task[w] \in {"panicked", "skipped"} /\ task'[w] = "idle"
           THEN 1 ELSE 0]_vars

(* A Completed item has failed fewer evaluations than the threshold, and an *)
(* item handed to a human for its evaluations has failed exactly that many. *)
EvaluationThreshold ==
    \A i \in DOMAIN queue :
        /\ queue[i].phase = "Completed" =>
             evalFailures[queue[i].work_id] < MaxEvalFailures
        /\ queue[i].hitl_reason = "evaluate_failure" =>
             /\ queue[i].phase = "Hitl"
             /\ evalFailures[queue[i].work_id] = MaxEvalFailures

(* The inductive invariant behind it: the snapshot holds Completed work     *)
(* only, and is empty outside an evaluation; work at the threshold is with  *)
(* a human, so it cannot come back from a task.                             *)
EvaluationInv ==
    /\ EvaluationThreshold
    /\ batch \subseteq WorkIn(queue, {"Completed"})
    /\ at \notin {"judge", "on_done"} => batch = {}
    /\ \A w \in Work :
         evalFailures[w] = MaxEvalFailures => w \in WorkIn(queue, {"Hitl"})

(* Work never executes side by side with work its gate found it waiting     *)
(* for, in whichever order the two arrived, however often they are retried  *)
(* and whatever commands do to the rows meanwhile.  A gate that could not   *)
(* read the rows found nothing.                                             *)
DependencyExcluded ==
    \A w \in Executing : gate[w].awaits \cap Executing = {}

(* The inductive invariant behind it: while the second pass runs, work that *)
(* was started saw its dependencies done or gone, and none can come back    *)
(* before the pass is over.                                                 *)
DependencyInv ==
    /\ DependencyExcluded
    /\ at = "ready" =>
         \A w \in WorkIn(queue, {"Running"}) :
             gate[w].awaits \cap WorkIn(queue, QueuePhase \ {"Done"}) = {}

(* Work whose failures reached the count from which every rule asks a human *)
(* is not waiting for another attempt, also after it was collected again.   *)
HitlLevels == {k \in DOMAIN Policy :
                 \A j \in DOMAIN Policy : j >= k => Policy[j] = "hitl"}

RetriesEnd ==
    \A w \in Work : \A k \in HitlLevels :
        failedEvents[w] >= k => w \notin WorkIn(queue, {"Pending", "Ready", "Running"})

(* Nor is a human asked before a rule says so, by the count the code goes   *)
(* by, which adds the failures of the state to those of the work.           *)
HandedOverWhenCounted ==
    \A i \in DOMAIN queue :
        queue[i].hitl_reason = "retry_max_exceeded" =>
            \E k \in DOMAIN Policy :
                /\ Policy[k] \in {"hitl", "replan"}
                /\ k <= CountFailures(queue[i].work_id)

(* The loop never takes an item away from a human: only a restart of the    *)
(* process forgets it.                                                      *)
HumanKeepsItem ==
    [][\A w \in WorkIn(queue, {"Hitl"}) :
         w \in WorkIn(queue', {"Hitl"}) \/ restarts' # restarts]_vars

(* When the second advance pass ends with a slot free, an item is left      *)
(* Ready only if the pass came to it and a dependency held it then.         *)
WorkConserving ==
    [][at = "ready" /\ at' = "spawn" /\ CanSpawnInWorkspace(tracker) =>
         \A w \in WorkIn(queue, {"Ready"}) : gate[w].held # {}]_vars

(* Nothing overtakes an item in the queue: as long as its work is queued no *)
(* step moves it back, whoever is retried, collected or judged meanwhile.   *)
NotOvertaken ==
    [][\A i \in DOMAIN queue :
         queue[i].work_id \in WorkIn(queue', QueuePhase) =>
             \E j \in DOMAIN queue' : j <= i /\ queue'[j].work_id = queue[i].work_id]_vars

(* Work that waits gets to execute unless a spec or a dependency holds it   *)
(* back: retries of others go behind it, so it is not overtaken for ever.   *)
WaitingStarts ==
    \A w \in Work \ (Gated \cup {dep[1] : dep \in Deps}) :
        w \in WorkIn(queue, {"Pending", "Ready"}) ~>
            w \notin WorkIn(queue, {"Pending", "Ready"}) \/ at = "stopped"

(* Completed work is judged: it is closed or handed to a human, also when   *)
(* the evaluator fails every time.                                          *)
CompletedIsJudged ==
    \A w \in Work :
        w \in WorkIn(queue, {"Completed"}) ~>
            w \notin WorkIn(queue, {"Completed"}) \/ at = "stopped"

-----------------------------------------------------------------------------
(* What the documentation says of the daemon and the code does not do.     *)

(* archive/v5/concerns/queue-state-machine.md: the second failure is retried *)
(* with a comment and the third goes to a human.  Work handed over for its   *)
(* failures has failed as often as some rule for "hitl" asks.                *)
HandedOverAtItsLevel ==
    \A i \in DOMAIN queue :
        queue[i].hitl_reason = "retry_max_exceeded" =>
            \E k \in DOMAIN Policy :
                Policy[k] = "hitl" /\ failedEvents[queue[i].work_id] >= k

(* Same document: a dependency that is not Done blocks Ready -> Running.    *)
(* Work does not start when its gate reads a dependency which the daemon    *)
(* itself saw fail, and which neither the daemon nor the database has seen  *)
(* done since.                                                              *)
FailedDependencyBlocks ==
    [][\A w \in WorkIn(queue', {"Running"}) \ WorkIn(queue, {"Running"}) :
         \A dep \in gate'[w].awaits :
             \/ failedEvents[dep] = 0
             \/ dep \in doneEntries
             \/ rows[dep] = "done"]_vars

-----------------------------------------------------------------------------
(* The detailed daemon implements the lifecycle of each piece of work. *)
StatusOf(w) ==
    CASE w \in Executing                             -> "executing"
      [] w \in WorkIn(queue, {"Pending", "Ready"})    -> "waiting"
      [] w \in WorkIn(queue, {"Completed"})           -> "completed"
      [] w \in WorkIn(queue, {"Hitl"})                -> "human"
      [] OTHER                                        -> "absent"

Lifecycle ==
    INSTANCE WorkLifecycle WITH
        Limit <- IF WsLimit < MaxTotal THEN WsLimit ELSE MaxTotal,
        status <- [w \in Work |-> StatusOf(w)]

ImplementsLifecycle == Lifecycle!Spec
=============================================================================
