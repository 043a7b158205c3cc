------------------------- MODULE BeltDaemonItemProofs -------------------------
(***************************************************************************)
(* Proofs about what becomes of the items of the daemon: dependent work    *)
(* never executes side by side, evaluations escalate at their threshold,   *)
(* the loop leaves a human's items alone, retries end, no item is          *)
(* overtaken, and a human is asked only when a rule says so.               *)
(***************************************************************************)
EXTENDS BeltDaemonProofs, WellFoundedInduction

-----------------------------------------------------------------------------
(* More about the work in a queue.                                         *)

LEMMA RemoveKeeps ==
    ASSUME NEW q \in Seq(QueueItem), NEW i \in DOMAIN q, NEW k \in DOMAIN q \ {i}
    PROVE  \E j \in DOMAIN RemoveAt(q, i) : RemoveAt(q, i)[j] = q[k]
<1>1. DOMAIN q = 1 .. Len(q) /\ Len(q) \in Nat
  BY LenProperties
<1>2. DOMAIN RemoveAt(q, i) = 1 .. Len(q) - 1
  BY <1>1, RemoveAtProperties, LenProperties
<1> DEFINE j == IF k < i THEN k ELSE k - 1
<1>3. j \in 1 .. Len(q) - 1
  BY <1>1
<1>4. (IF j < i THEN q[j] ELSE q[j + 1]) = q[k]
  BY <1>1
<1>5. RemoveAt(q, i)[j] = q[k]
  BY <1>1, <1>3, <1>4, RemoveAtProperties
<1>6. QED
  BY <1>2, <1>3, <1>5

LEMMA WorkInRemoveKeeps ==
    ASSUME NEW q \in Seq(QueueItem), NEW i \in DOMAIN q, NEW phases
    PROVE  WorkIn(q, phases) \ {q[i].work_id} \subseteq WorkIn(RemoveAt(q, i), phases)
<1> SUFFICES ASSUME NEW w \in WorkIn(q, phases), w # q[i].work_id
             PROVE  w \in WorkIn(RemoveAt(q, i), phases)
  OBVIOUS
<1>1. PICK k \in DOMAIN q : q[k].work_id = w /\ q[k].phase \in phases
  BY DEF WorkIn
<1>2. PICK j \in DOMAIN RemoveAt(q, i) : RemoveAt(q, i)[j] = q[k]
  BY <1>1, RemoveKeeps
<1>3. w \in Work
  BY DEF WorkIn
<1>4. QED
  BY <1>1, <1>2, <1>3 DEF WorkIn

LEMMA WorkInAppendKeeps ==
    ASSUME NEW q \in Seq(QueueItem), NEW item \in QueueItem, NEW phases
    PROVE  WorkIn(q, phases) \subseteq WorkIn(Append(q, item), phases)
  BY AppendItem DEF WorkIn

(* An item of the queue is the only one of its work. *)
LEMMA OnePhase ==
    ASSUME TypeOK, UniqueWork, NEW i \in DOMAIN queue, NEW phases,
           queue[i].work_id \in WorkIn(queue, phases)
    PROVE  queue[i].phase \in phases
  BY DEF UniqueWork, WorkIn

(* What each item of the queue becomes in the first advance pass. *)
LEMMA AdvancedItems ==
    ASSUME TypeOK, AdvancePending
    PROVE  /\ DOMAIN queue' = DOMAIN queue
           /\ \A i \in DOMAIN queue :
                /\ queue'[i].work_id = queue[i].work_id
                /\ queue[i].phase # "Pending" => queue'[i] = queue[i]
                /\ queue[i].phase = "Pending" =>
                     /\ queue'[i].phase \in {"Pending", "Ready", "Hitl"}
                     /\ queue'[i].hitl_reason \in {queue[i].hitl_reason, "spec_conflict"}
<1>1. PICK verdict \in [Gated -> {"clear", "blocked", "conflict"}] :
        queue' = [i \in DOMAIN queue |->
                    IF queue[i].phase # "Pending" THEN queue[i]
                    ELSE Admitted(queue[i],
                           IF queue[i].work_id \in Gated
                           THEN verdict[queue[i].work_id] ELSE "clear")]
  BY DEF AdvancePending
<1>2. ASSUME NEW item \in QueueItem, item.phase = "Pending",
             NEW v \in {"clear", "blocked", "conflict"}
      PROVE  /\ Admitted(item, v).work_id = item.work_id
             /\ Admitted(item, v).phase \in {"Pending", "Ready", "Hitl"}
             /\ Admitted(item, v).hitl_reason \in {item.hitl_reason, "spec_conflict"}
  BY <1>2 DEF Admitted, Transit, ValidTransitions, QueueItem
<1>3. ASSUME NEW i \in DOMAIN queue
      PROVE  /\ queue'[i].work_id = queue[i].work_id
             /\ queue[i].phase # "Pending" => queue'[i] = queue[i]
             /\ queue[i].phase = "Pending" =>
                  /\ queue'[i].phase \in {"Pending", "Ready", "Hitl"}
                  /\ queue'[i].hitl_reason \in {queue[i].hitl_reason, "spec_conflict"}
  <2>1. queue[i] \in QueueItem
    BY ItemsOfQueue DEF TypeOK
  <2>2. (IF queue[i].work_id \in Gated THEN verdict[queue[i].work_id] ELSE "clear")
           \in {"clear", "blocked", "conflict"}
    OBVIOUS
  <2>3. QED
    BY <1>1, <1>2, <2>1, <2>2
<1>4. QED
  BY <1>1, <1>3

(* What StartItem does to the queue. *)
LEMMA StartedItems ==
    ASSUME TypeOK, StartItem
    PROVE  /\ cursor \in DOMAIN queue /\ queue[cursor].phase = "Ready"
           /\ DOMAIN queue' = DOMAIN queue
           /\ queue'[cursor] = [queue[cursor] EXCEPT !.phase = "Running"]
           /\ queue'[cursor].work_id = queue[cursor].work_id
           /\ queue'[cursor].phase = "Running"
           /\ queue'[cursor].hitl_reason = queue[cursor].hitl_reason
           /\ \A i \in DOMAIN queue \ {cursor} : queue'[i] = queue[i]
<1>1. cursor \in DOMAIN queue /\ queue[cursor].phase = "Ready" /\ queue[cursor] \in QueueItem
  BY ItemsOfQueue DEF StartItem, TypeOK
<1>2. Transit("Ready", "Running") = "Running"
  BY DEF Transit, ValidTransitions
<1>3. queue' = [queue EXCEPT ![cursor] = [queue[cursor] EXCEPT !.phase = "Running"]]
  BY <1>1, <1>2 DEF StartItem
<1>4. QED
  BY <1>1, <1>3 DEF QueueItem

-----------------------------------------------------------------------------
(* Dependent work never executes side by side.                             *)

LEMMA DependencyInit == Init => DependencyInv
  BY DEF Init, DependencyInv, DependencyExcluded, Executing, WorkIn

(* A step after which no more work executes, and which is not in the pass. *)
LEMMA DependencyKept ==
    ASSUME DependencyInv, Executing' \subseteq Executing, at' # "ready",
           \A w \in Executing' : gate'[w] = gate[w]
    PROVE  DependencyInv'
  BY DEF DependencyInv, DependencyExcluded

(* What an open gate has read: nothing that is queued and not Done. *)
LEMMA OpenGate ==
    ASSUME UniqueWork, NEW w, HeldBy(w) = {}
    PROVE  GateOf(w).awaits \cap WorkIn(queue, QueuePhase \ {"Done"}) = {}
<1> SUFFICES ASSUME NEW dep \in DependenciesOf(w), dep \in WorkIn(queue, QueuePhase \ {"Done"})
             PROVE  FALSE
  BY DEF GateOf
<1>1. IF InQueue(dep) THEN dep \in WorkIn(queue, {"Done"}) ELSE rows[dep] # "open"
  BY DEF HeldBy
<1>2. InQueue(dep)
  BY DEF InQueue, WorkIn
<1>. QED
  BY <1>1, <1>2 DEF WorkIn, UniqueWork

LEMMA DependencyStart ==
    ASSUME TypeOK, UniqueWork, ExecutionWithinTick, DependencyInv, StartItem
    PROVE  DependencyInv'
<1> DEFINE w == queue[cursor].work_id
           R == WorkIn(queue, {"Running"})
           Q == WorkIn(queue, QueuePhase \ {"Done"})
<1>1. /\ at = "ready" /\ at' = "ready" /\ task' = task
      /\ \A v \in Work : task[v] = "idle"
      /\ \/ HeldBy(w) = {} /\ gate' = [gate EXCEPT ![w] = GateOf(w)]
         \/ gate' = [gate EXCEPT ![w] = Unread]
  BY DEF StartItem, ExecutionWithinTick
<1>2. /\ w \in Work /\ cursor \in DOMAIN queue /\ queue[cursor].phase = "Ready"
      /\ \A i \in DOMAIN queue : queue[i].phase \in QueuePhase
  BY StartedItems, ItemsOfQueue DEF TypeOK
<1>3. w \in Q /\ w \notin R
  BY <1>2, OnePhase DEF WorkIn, QueuePhase
<1>4. WorkIn(queue', {"Running"}) = R \cup {w}
  BY <1>2, StartedItems DEF WorkIn
<1>5. WorkIn(queue', QueuePhase \ {"Done"}) = Q
  <2>1. \A i \in DOMAIN queue :
          /\ queue'[i].work_id = queue[i].work_id
          /\ queue'[i].phase \in QueuePhase \ {"Done"}
               <=> queue[i].phase \in QueuePhase \ {"Done"}
    BY <1>2, StartedItems DEF QueuePhase
  <2>2. DOMAIN queue' = DOMAIN queue
    BY StartedItems
  <2>3. QED
    BY <2>1, <2>2 DEF WorkIn
<1>6. Executing' = WorkIn(queue', {"Running"})
  BY <1>1 DEF Executing
<1>7. R \subseteq Q /\ R \subseteq Work
  BY DEF WorkIn, QueuePhase
<1>8. gate'[w].awaits \cap Q = {}
  <2>1. gate \in [Work -> GateRead]
    BY DEF TypeOK
  <2>2. CASE gate' = [gate EXCEPT ![w] = Unread]
    <3>1. gate'[w] = Unread
      BY <1>2, <2>1, <2>2
    <3>. QED
      BY <3>1 DEF Unread
  <2>3. CASE HeldBy(w) = {} /\ gate' = [gate EXCEPT ![w] = GateOf(w)]
    <3>1. gate'[w] = GateOf(w)
      BY <1>2, <2>1, <2>3
    <3>. QED
      BY <2>3, <3>1, OpenGate
  <2>. QED
    BY <1>1, <2>2, <2>3
<1>9. \A v \in R : gate'[v] = gate[v]
  BY <1>1, <1>3, <1>7 DEF TypeOK
<1>10. \A v \in R \cup {w} : gate'[v].awaits \cap Q = {}
  BY <1>1, <1>8, <1>9 DEF DependencyInv
<1>11. R \cup {w} \subseteq Q
  BY <1>3, <1>7
<1>12. DependencyExcluded'
  BY <1>4, <1>6, <1>10, <1>11 DEF DependencyExcluded
<1>13. QED
  BY <1>4, <1>5, <1>10, <1>12 DEF DependencyInv

(* An item that is held does not run, so what its gate read binds nobody. *)
LEMMA DependencyHold ==
    ASSUME TypeOK, UniqueWork, ExecutionWithinTick, DependencyInv, HoldItem
    PROVE  DependencyInv'
<1> DEFINE w == queue[cursor].work_id
           R == WorkIn(queue, {"Running"})
<1>1. /\ at = "ready" /\ at' = "ready" /\ task' = task /\ queue' = queue
      /\ \A v \in Work : task[v] = "idle"
      /\ gate' = [gate EXCEPT ![w] = GateOf(w)]
      /\ cursor \in DOMAIN queue /\ queue[cursor].phase = "Ready"
  BY DEF HoldItem, ExecutionWithinTick
<1>2. w \notin R
  BY <1>1, OnePhase DEF WorkIn
<1>3. R \subseteq Work /\ Executing' = R /\ Executing = R /\ WorkIn(queue', {"Running"}) = R
  BY <1>1 DEF Executing, WorkIn
<1>4. \A v \in R : gate'[v] = gate[v]
  BY <1>1, <1>2, <1>3 DEF TypeOK
<1>5. WorkIn(queue', QueuePhase \ {"Done"}) = WorkIn(queue, QueuePhase \ {"Done"})
  BY <1>1 DEF WorkIn
<1>. QED
  BY <1>1, <1>3, <1>4, <1>5 DEF DependencyInv, DependencyExcluded

LEMMA DependencyStep == SlotInv /\ DependencyInv /\ [Next]_vars => DependencyInv'
<1> SUFFICES ASSUME SlotInv, DependencyInv, [Next]_vars PROVE DependencyInv'
  OBVIOUS
<1> USE DEF loopVars, historyVars, outsideVars
<1>a. /\ TypeOK /\ UniqueWork /\ ExecutionWithinTick
      /\ queue \in Seq(QueueItem)
      /\ task \in [Work -> TaskState]
      /\ \A i \in DOMAIN queue : queue[i].work_id \in Work
  BY ItemsOfQueue DEF SlotInv, TypeOK
<1>1. CASE Tick \/ Drain \/ CollectDone \/ CollectError \/ EndAdvance \/ EndSpawn
  BY <1>1, DependencyKept
  DEF Tick, Drain, CollectDone, CollectError, EndAdvance, EndSpawn, Executing, WorkIn
<1>j. CASE EndJoin
  <2>1. Executing' = {} /\ at' # "ready"
    BY <1>a, <1>j DEF EndJoin, ExecutionWithinTick, Executing, WorkIn
  <2>2. QED
    BY <2>1, DependencyKept
<1>2. CASE DeferEvaluate \/ Interrupt \/ StartEvaluate \/ JudgeOk \/ EndEvaluate
  BY <1>2, DependencyKept
  DEF DeferEvaluate, Interrupt, StartEvaluate, JudgeOk, EndEvaluate, Executing, WorkIn
<1>3. CASE PassItem \/ Stopped \/ UNCHANGED vars
  BY <1>3
  DEF PassItem, Stopped, vars, DependencyInv, DependencyExcluded, Executing, WorkIn
<1>h. CASE HoldItem
  BY <1>a, <1>h, DependencyHold
<1>4. ASSUME NEW w \in Work, CollectItem(w) PROVE DependencyInv'
  <2>1. NewItem(w) \in QueueItem /\ NewItem(w).phase # "Running"
    BY NewItemType DEF NewItem
  <2>2. WorkIn(queue', {"Running"}) = WorkIn(queue, {"Running"})
    BY <1>a, <1>4, <2>1, RunningInAppend DEF CollectItem
  <2>3. QED
    BY <1>4, <2>2, DependencyKept DEF CollectItem, Executing
<1>5. CASE AdvancePending
  <2>1. WorkIn(queue, {"Running"}) = {} /\ at' = "ready" /\ task' = task
        /\ \A v \in Work : task[v] = "idle"
    BY <1>a, <1>5 DEF AdvancePending, ExecutionWithinTick
  <2>2. WorkIn(queue', {"Running"}) = {}
    BY <1>a, <1>5, <2>1, AdvancePendingItems, MappedWorkIn
  <2>3. QED
    BY <2>1, <2>2 DEF DependencyInv, DependencyExcluded, Executing
<1>6. CASE StartItem
  BY <1>a, <1>6, DependencyStart
<1>7. ASSUME NEW i \in DOMAIN queue, Spawn(i) PROVE DependencyInv'
  <2>1. WorkIn(queue', {"Running"}) \subseteq WorkIn(queue, {"Running"})
    BY <1>a, <1>7, WorkInRemove DEF Spawn
  <2>2. queue[i].work_id \in WorkIn(queue, {"Running"})
    BY <1>a, <1>7 DEF Spawn, WorkIn
  <2>3. QED
    BY <1>a, <1>7, <2>1, <2>2, DependencyKept DEF Spawn, Executing
<1>8. ASSUME NEW w \in Work, TaskEnds(w) PROVE DependencyInv'
  <2>1. /\ queue' = queue /\ at' = at /\ gate' = gate /\ task[w] # "idle"
        /\ \A v \in Work \ {w} : task'[v] = task[v]
    BY <1>8, <1>a DEF TaskEnds
  <2>2. Executing' \subseteq Executing
    BY <2>1 DEF Executing, WorkIn
  <2>3. at # "ready"
    BY <1>a, <2>1 DEF ExecutionWithinTick
  <2>4. QED
    BY <2>1, <2>2, <2>3, DependencyKept
<1>9. ASSUME NEW w \in Work, Join(w) PROVE DependencyInv'
  <2>1. at' = "join" /\ gate' = gate /\ task' = [task EXCEPT ![w] = "idle"]
    BY <1>9 DEF Join, JoinLost, JoinWorktreeError, JoinCompleted, JoinFailed, Joined
  <2>2. WorkIn(queue', {"Running"}) = WorkIn(queue, {"Running"})
    BY <1>a, <1>9, JoinRunning
  <2>3. QED
    BY <1>a, <2>1, <2>2, DependencyKept DEF Executing
<1>10. CASE JudgeFailed
  <2>1. WorkIn(queue', {"Running"}) \subseteq WorkIn(queue, {"Running"})
    BY <1>a, <1>10, JudgeFailedItems, MappedWorkIn
  <2>2. QED
    BY <1>10, <2>1, DependencyKept DEF JudgeFailed, Executing
<1>11. ASSUME NEW i \in DOMAIN queue, OnDone(i) PROVE DependencyInv'
  <2>1. WorkIn(queue', {"Running"}) \subseteq WorkIn(queue, {"Running"})
    BY <1>a, <1>11, WorkInRemove DEF OnDone
  <2>2. QED
    BY <1>11, <2>1, DependencyKept DEF OnDone, Executing
<1>12. CASE DatabaseChanges
  BY <1>12 DEF DatabaseChanges, DependencyAdded, DependencyRemoved,
         RowChanges, DependencyInv, DependencyExcluded, Executing, WorkIn
<1>13. CASE Restart
  <2>1. Executing' = {} /\ at' # "ready"
    BY <1>13 DEF Restart, Executing, WorkIn
  <2>2. QED
    BY <2>1, DependencyKept
<1>14. QED
  BY <1>1, <1>j, <1>2, <1>3, <1>h, <1>4, <1>5, <1>6, <1>7, <1>8, <1>9, <1>10, <1>11, <1>12,
     <1>13
  DEF Next, LoopStep

(* Whatever the dependencies, even in cycles, whatever other processes do  *)
(* to the rows and wherever the database does not answer: work never       *)
(* executes beside work that its gate found it waiting for.                *)
THEOREM DependentsStayExcluded == Spec => []DependencyExcluded
<1>1. Init => SlotInv /\ DependencyInv
  BY SlotInvInductive, DependencyInit
<1>2. SlotInv /\ DependencyInv /\ [Next]_vars => (SlotInv /\ DependencyInv)'
  BY SlotInvInductive, DependencyStep
<1>3. DependencyInv => DependencyExcluded
  BY DEF DependencyInv
<1>4. QED
  BY <1>1, <1>2, <1>3, PTL DEF Spec

-----------------------------------------------------------------------------
(* Evaluations escalate at their threshold, and a human keeps an item.     *)

(* EvaluationThreshold of one item and the failures of its work. *)
Settled(item, n) ==
    /\ item.phase = "Completed" => n < MaxEvalFailures
    /\ item.hitl_reason = "evaluate_failure" =>
         item.phase = "Hitl" /\ n = MaxEvalFailures

AllSettled(q, failures) == \A i \in DOMAIN q : Settled(q[i], failures[q[i].work_id])

LEMMA SettledParts ==
    /\ EvaluationThreshold <=> AllSettled(queue, evalFailures)
    /\ EvaluationThreshold' <=> AllSettled(queue', evalFailures')
  BY DEF EvaluationThreshold, AllSettled, Settled

LEMMA SettledAppend ==
    ASSUME NEW q \in Seq(QueueItem), NEW item \in QueueItem, NEW failures,
           AllSettled(q, failures), Settled(item, failures[item.work_id])
    PROVE  AllSettled(Append(q, item), failures)
  BY AppendItem DEF AllSettled

LEMMA SettledRemove ==
    ASSUME NEW q \in Seq(QueueItem), NEW i \in DOMAIN q, NEW failures,
           AllSettled(q, failures)
    PROVE  AllSettled(RemoveAt(q, i), failures)
  BY RemoveItem DEF AllSettled

LEMMA EvaluationInit == Init => EvaluationInv
  BY ConstantsAssumption DEF Init, EvaluationInv, EvaluationThreshold

(* A step outside an evaluation that counts no failure of one. *)
LEMMA OutsideEvaluation ==
    ASSUME EvaluationInv, at \notin {"judge", "on_done"},
           batch' = batch, evalFailures' = evalFailures,
           WorkIn(queue, {"Hitl"}) \subseteq WorkIn(queue', {"Hitl"}),
           AllSettled(queue', evalFailures)
    PROVE  EvaluationInv'
  BY SettledParts DEF EvaluationInv

(* What joining a task appends: never Completed work at the threshold. *)
LEMMA JoinSettled ==
    ASSUME TypeOK, UniqueWork, EvaluationInv, NEW w \in Work, Join(w)
    PROVE  \/ queue' = queue
           \/ \E item \in QueueItem : /\ queue' = Append(queue, item)
                                      /\ Settled(item, evalFailures[item.work_id])
<1>1. CASE JoinLost(w) \/ JoinWorktreeError(w)
  BY <1>1 DEF JoinLost, JoinWorktreeError
<1>2. CASE JoinCompleted(w)
  <2> DEFINE item == [work_id |-> w, phase |-> "Completed", hitl_reason |-> "none"]
  <2>1. item \in QueueItem
    BY DEF QueueItem, QueuePhase, HitlReason
  <2>2. queue' = Append(queue, item)
    BY <1>2 DEF JoinCompleted, Transit, ValidTransitions
  <2>3. w \notin WorkIn(queue, {"Hitl"})
    BY <1>2 DEF JoinCompleted, UniqueWork, WorkIn
  <2>4. evalFailures[w] \in 0 .. MaxEvalFailures /\ evalFailures[w] # MaxEvalFailures
    BY <2>3 DEF TypeOK, EvaluationInv
  <2>5. Settled(item, evalFailures[w])
    BY <2>4, ConstantsAssumption DEF Settled
  <2>6. QED
    BY <2>1, <2>2, <2>5
<1>3. CASE JoinFailed(w)
  <2> DEFINE human == [work_id |-> w, phase |-> "Hitl", hitl_reason |-> "retry_max_exceeded"]
  <2>1. NewItem(w) \in QueueItem /\ Settled(NewItem(w), evalFailures[NewItem(w).work_id])
    BY NewItemType DEF NewItem, Settled
  <2>2. human \in QueueItem /\ Settled(human, evalFailures[human.work_id])
    BY DEF QueueItem, QueuePhase, HitlReason, Settled
  <2>3. QED
    BY <1>3, <2>1, <2>2 DEF JoinFailed, Escalated
<1>4. QED
  BY <1>1, <1>2, <1>3 DEF Join

LEMMA JudgedCounts ==
    ASSUME TypeOK, JudgeFailed, NEW w \in Work
    PROVE  /\ evalFailures'[w] \in 0 .. MaxEvalFailures
           /\ w \notin batch => evalFailures'[w] = evalFailures[w]
<1>1. evalFailures[w] \in 0 .. MaxEvalFailures
  BY DEF TypeOK
<1>2. RecordEvalFailure(w) \in 0 .. MaxEvalFailures
  BY <1>1, ConstantsAssumption DEF RecordEvalFailure
<1>3. QED
  BY <1>1, <1>2 DEF JudgeFailed

(* JudgeFailed, item by item: those of the snapshot are Completed, and go  *)
(* to a human when their count reaches the threshold.                      *)
LEMMA JudgedItems ==
    ASSUME TypeOK, UniqueWork, EvaluationInv, JudgeFailed
    PROVE  /\ DOMAIN queue' = DOMAIN queue
           /\ \A i \in DOMAIN queue :
                /\ queue'[i].work_id = queue[i].work_id
                /\ queue[i].work_id \notin batch => queue'[i] = queue[i]
                /\ queue[i].work_id \in batch => queue[i].phase = "Completed"
                /\ queue[i].work_id \in batch /\ evalFailures'[queue[i].work_id] # MaxEvalFailures
                     => queue'[i] = queue[i]
                /\ queue[i].work_id \in batch /\ evalFailures'[queue[i].work_id] = MaxEvalFailures
                     => queue'[i].phase = "Hitl"
<1>1. ASSUME NEW i \in DOMAIN queue
      PROVE  /\ queue'[i].work_id = queue[i].work_id
             /\ queue[i].work_id \notin batch => queue'[i] = queue[i]
             /\ queue[i].work_id \in batch => queue[i].phase = "Completed"
             /\ queue[i].work_id \in batch /\ evalFailures'[queue[i].work_id] # MaxEvalFailures
                  => queue'[i] = queue[i]
             /\ queue[i].work_id \in batch /\ evalFailures'[queue[i].work_id] = MaxEvalFailures
                  => queue'[i].phase = "Hitl"
  <2> DEFINE w == queue[i].work_id
             judged == [queue[i] EXCEPT !.phase = Transit(@, "Hitl"),
                                        !.hitl_reason = "evaluate_failure"]
  <2>1. queue[i] \in QueueItem /\ w \in Work
    BY ItemsOfQueue DEF TypeOK
  <2>2. judged.work_id = w /\ judged.phase = Transit(queue[i].phase, "Hitl")
    BY <2>1 DEF QueueItem
  <2>3. w \in batch => queue[i].phase = "Completed"
    BY OnePhase DEF EvaluationInv
  <2>4. Transit("Completed", "Hitl") = "Hitl"
    BY DEF Transit, ValidTransitions
  <2>5. evalFailures'[w] \in 0 .. MaxEvalFailures
    BY <2>1, JudgedCounts
  <2>6. ReachesThreshold(evalFailures'[w]) <=> evalFailures'[w] = MaxEvalFailures
    BY <2>5, ConstantsAssumption DEF ReachesThreshold
  <2>7. queue'[i] = IF w \in batch /\ ReachesThreshold(evalFailures'[w])
                    THEN judged ELSE queue[i]
    BY DEF JudgeFailed
  <2>8. QED
    BY <2>2, <2>3, <2>4, <2>6, <2>7
<1>2. QED
  BY <1>1 DEF JudgeFailed

LEMMA EvaluationJudgeFailed ==
    ASSUME TypeOK, UniqueWork, EvaluationInv, JudgeFailed
    PROVE  EvaluationInv' /\ WorkIn(queue, {"Hitl"}) \subseteq WorkIn(queue', {"Hitl"})
<1>1. batch' = {} /\ batch \subseteq WorkIn(queue, {"Completed"})
  BY DEF JudgeFailed, EvaluationInv
<1>2. WorkIn(queue, {"Hitl"}) \subseteq WorkIn(queue', {"Hitl"})
  BY JudgedItems DEF WorkIn
<1>3. ASSUME NEW i \in DOMAIN queue
      PROVE  Settled(queue'[i], evalFailures'[queue'[i].work_id])
  <2> DEFINE w == queue[i].work_id
  <2>1. w \in Work /\ queue'[i].work_id = w
    BY ItemsOfQueue, JudgedItems DEF TypeOK
  <2>2. Settled(queue[i], evalFailures[w])
    BY SettledParts DEF EvaluationInv, AllSettled
  <2>3. CASE w \notin batch
    <3>1. queue'[i] = queue[i]
      BY <2>3, JudgedItems
    <3>2. evalFailures'[w] = evalFailures[w]
      BY <2>1, <2>3, JudgedCounts
    <3>3. QED
      BY <2>2, <3>1, <3>2
  <2>4. CASE w \in batch /\ evalFailures'[w] = MaxEvalFailures
    BY <2>1, <2>4, JudgedItems DEF Settled
  <2>5. CASE w \in batch /\ evalFailures'[w] # MaxEvalFailures
    <3>0. evalFailures'[w] \in 0 .. MaxEvalFailures
      BY <2>1, JudgedCounts
    <3>1. queue'[i] = queue[i] /\ queue[i].phase = "Completed"
      BY <2>5, JudgedItems
    <3>2. queue[i].hitl_reason # "evaluate_failure"
      BY <2>2, <3>1 DEF Settled
    <3>3. QED
      BY <2>1, <2>5, <3>0, <3>1, <3>2, ConstantsAssumption DEF Settled
  <2>6. QED
    BY <2>3, <2>4, <2>5
<1>4. ASSUME NEW w \in Work, evalFailures'[w] = MaxEvalFailures
      PROVE  w \in WorkIn(queue', {"Hitl"})
  <2>1. CASE w \notin batch
    <3>1. evalFailures[w] = MaxEvalFailures
      BY <1>4, <2>1, JudgedCounts
    <3>2. QED
      BY <1>2, <3>1 DEF EvaluationInv
  <2>2. CASE w \in batch
    BY <1>1, <1>4, <2>2, JudgedItems DEF WorkIn
  <2>3. QED
    BY <2>1, <2>2
<1>5. EvaluationThreshold'
  BY <1>3, JudgedItems, SettledParts DEF AllSettled
<1>6. QED
  BY <1>1, <1>2, <1>4, <1>5 DEF EvaluationInv

LEMMA EvaluationAdvance ==
    ASSUME TypeOK, EvaluationInv, AdvancePending
    PROVE  EvaluationInv' /\ WorkIn(queue, {"Hitl"}) \subseteq WorkIn(queue', {"Hitl"})
<1>1. /\ at = "pending" /\ batch' = batch /\ evalFailures' = evalFailures
  BY DEF AdvancePending
<1>2. WorkIn(queue, {"Hitl"}) \subseteq WorkIn(queue', {"Hitl"})
  BY AdvancedItems DEF WorkIn
<1>3. ASSUME NEW i \in DOMAIN queue
      PROVE  Settled(queue'[i], evalFailures[queue'[i].work_id])
  <2>1. Settled(queue[i], evalFailures[queue[i].work_id])
    BY SettledParts DEF EvaluationInv, AllSettled
  <2>2. CASE queue[i].phase # "Pending"
    BY <2>1, <2>2, AdvancedItems
  <2>3. CASE queue[i].phase = "Pending"
    <3>1. queue[i].hitl_reason # "evaluate_failure"
      BY <2>1, <2>3 DEF Settled
    <3>2. queue'[i].phase # "Completed" /\ queue'[i].hitl_reason # "evaluate_failure"
      BY <2>3, <3>1, AdvancedItems
    <3>3. QED
      BY <3>2 DEF Settled
  <2>4. QED
    BY <2>2, <2>3
<1>4. AllSettled(queue', evalFailures)
  BY <1>3, AdvancedItems DEF AllSettled
<1>5. QED
  BY <1>1, <1>2, <1>4, OutsideEvaluation

LEMMA EvaluationStart ==
    ASSUME TypeOK, EvaluationInv, StartItem
    PROVE  EvaluationInv' /\ WorkIn(queue, {"Hitl"}) \subseteq WorkIn(queue', {"Hitl"})
<1>1. /\ at = "ready" /\ batch' = batch /\ evalFailures' = evalFailures
  BY DEF StartItem
<1>2. WorkIn(queue, {"Hitl"}) \subseteq WorkIn(queue', {"Hitl"})
  BY StartedItems DEF WorkIn
<1>3. \A i \in DOMAIN queue : Settled(queue[i], evalFailures[queue[i].work_id])
  BY SettledParts DEF EvaluationInv, AllSettled
<1>4. Settled(queue'[cursor], evalFailures[queue'[cursor].work_id])
  BY <1>3, StartedItems DEF Settled
<1>5. AllSettled(queue', evalFailures)
  BY <1>3, <1>4, StartedItems DEF AllSettled
<1>6. QED
  BY <1>1, <1>2, <1>5, OutsideEvaluation

LEMMA EvaluationOnDone ==
    ASSUME TypeOK, UniqueWork, EvaluationInv, NEW i \in DOMAIN queue, OnDone(i)
    PROVE  EvaluationInv' /\ WorkIn(queue, {"Hitl"}) \subseteq WorkIn(queue', {"Hitl"})
<1> DEFINE w == queue[i].work_id
<1>1. /\ at = "on_done" /\ at' = "on_done" /\ w \in batch /\ batch' = batch \ {w}
      /\ queue' = RemoveAt(queue, i) /\ evalFailures' = evalFailures
      /\ queue \in Seq(QueueItem)
  BY DEF OnDone, TypeOK
<1>2. w \notin WorkIn(queue, {"Hitl"})
  <2>1. queue[i].phase = "Completed"
    BY <1>1, OnePhase DEF EvaluationInv
  <2>2. QED
    BY <2>1, OnePhase
<1>3. WorkIn(queue, {"Hitl"}) \subseteq WorkIn(queue', {"Hitl"})
  BY <1>1, <1>2, WorkInRemoveKeeps
<1>4. batch' \subseteq WorkIn(queue', {"Completed"})
  BY <1>1, WorkInRemoveKeeps DEF EvaluationInv
<1>5. EvaluationThreshold'
  BY <1>1, SettledParts, SettledRemove DEF EvaluationInv
<1>6. QED
  BY <1>1, <1>3, <1>4, <1>5 DEF EvaluationInv

LEMMA EvaluationStep ==
    SlotInv /\ EvaluationInv /\ [Next]_vars =>
      /\ EvaluationInv'
      /\ WorkIn(queue, {"Hitl"}) \subseteq WorkIn(queue', {"Hitl"}) \/ restarts' # restarts
<1> DEFINE Kept == WorkIn(queue, {"Hitl"}) \subseteq WorkIn(queue', {"Hitl"})
           Goal == EvaluationInv' /\ (Kept \/ restarts' # restarts)
<1> SUFFICES ASSUME SlotInv, EvaluationInv, [Next]_vars PROVE Goal
  OBVIOUS
<1> USE DEF loopVars, historyVars, outsideVars
<1>a. /\ TypeOK /\ UniqueWork /\ ExecutionWithinTick
      /\ queue \in Seq(QueueItem)
      /\ AllSettled(queue, evalFailures)
      /\ \A i \in DOMAIN queue : queue[i].work_id \in Work
  BY ItemsOfQueue, SettledParts DEF SlotInv, TypeOK, EvaluationInv
<1>1. CASE Tick \/ Drain \/ CollectDone \/ CollectError \/ EndAdvance \/ EndSpawn \/ EndJoin
  BY <1>1
  DEF Tick, Drain, CollectDone, CollectError, EndAdvance, EndSpawn, EndJoin,
      EvaluationInv, EvaluationThreshold, WorkIn
<1>2. CASE DeferEvaluate \/ Interrupt \/ PassItem \/ HoldItem \/ Stopped \/ UNCHANGED vars
  BY <1>2
  DEF DeferEvaluate, Interrupt, PassItem, HoldItem, Stopped, vars,
      EvaluationInv, EvaluationThreshold, WorkIn
<1>3. CASE StartEvaluate \/ EndEvaluate
  BY <1>3 DEF StartEvaluate, EndEvaluate, EvaluationInv, EvaluationThreshold, WorkIn
<1>4. ASSUME NEW w \in Work, CollectItem(w) PROVE Goal
  <2>1. NewItem(w) \in QueueItem /\ Settled(NewItem(w), evalFailures[NewItem(w).work_id])
    BY NewItemType DEF NewItem, Settled
  <2>2. AllSettled(queue', evalFailures) /\ Kept
    BY <1>a, <1>4, <2>1, SettledAppend, WorkInAppendKeeps DEF CollectItem
  <2>3. QED
    BY <1>4, <2>2, OutsideEvaluation DEF CollectItem
<1>5. CASE AdvancePending
  BY <1>a, <1>5, EvaluationAdvance
<1>6. CASE StartItem
  BY <1>a, <1>6, EvaluationStart
<1>7. ASSUME NEW i \in DOMAIN queue, Spawn(i) PROVE Goal
  <2>1. queue[i].work_id \notin WorkIn(queue, {"Hitl"})
    BY <1>a, <1>7, OnePhase DEF Spawn
  <2>2. AllSettled(queue', evalFailures) /\ Kept
    BY <1>a, <1>7, <2>1, SettledRemove, WorkInRemoveKeeps DEF Spawn
  <2>3. QED
    BY <1>7, <2>2, OutsideEvaluation DEF Spawn
<1>8. CASE \/ \E w \in Work : TaskEnds(w)
           \/ DatabaseChanges
  BY <1>8 DEF TaskEnds, DatabaseChanges, DependencyAdded, DependencyRemoved,
         RowChanges, EvaluationInv, EvaluationThreshold, WorkIn
<1>9. ASSUME NEW w \in Work, Join(w) PROVE Goal
  <2>1. at = "join" /\ batch' = batch /\ evalFailures' = evalFailures
    BY <1>9 DEF Join, JoinLost, JoinWorktreeError, JoinCompleted, JoinFailed, Joined
  <2>2. AllSettled(queue', evalFailures) /\ Kept
    BY <1>a, <1>9, JoinSettled, SettledAppend, WorkInAppendKeeps
  <2>3. QED
    BY <2>1, <2>2, OutsideEvaluation
<1>10. CASE JudgeOk
  <2>1. /\ at' = "on_done" /\ batch' = batch /\ queue' = queue
        /\ \A w \in Work : evalFailures'[w] = IF w \in batch THEN 0 ELSE evalFailures[w]
    BY <1>10 DEF JudgeOk
  <2>2. ASSUME NEW i \in DOMAIN queue
        PROVE  Settled(queue[i], evalFailures'[queue[i].work_id])
    <3>1. CASE queue[i].work_id \notin batch
      BY <1>a, <2>1, <3>1 DEF AllSettled
    <3>2. CASE queue[i].work_id \in batch
      <4>1. queue[i].phase = "Completed"
        BY <1>a, <3>2, OnePhase DEF EvaluationInv
      <4>2. queue[i].hitl_reason # "evaluate_failure"
        BY <1>a, <4>1 DEF AllSettled, Settled
      <4>3. QED
        BY <1>a, <2>1, <3>2, <4>2, ConstantsAssumption DEF Settled
    <3>3. QED
      BY <3>1, <3>2
  <2>3. EvaluationThreshold'
    BY <2>1, <2>2, SettledParts DEF AllSettled
  <2>4. QED
    BY <2>1, <2>3, ConstantsAssumption DEF EvaluationInv, WorkIn
<1>11. CASE JudgeFailed
  BY <1>a, <1>11, EvaluationJudgeFailed
<1>12. ASSUME NEW i \in DOMAIN queue, OnDone(i) PROVE Goal
  BY <1>a, <1>12, EvaluationOnDone
<1>13. CASE Restart
  <2>1. restarts' # restarts
    BY <1>a, <1>13 DEF Restart, TypeOK
  <2>2. EvaluationInv'
    BY <1>13, ConstantsAssumption DEF Restart, EvaluationInv, EvaluationThreshold, WorkIn
  <2>3. QED
    BY <2>1, <2>2
<1>14. QED
  BY <1>1, <1>2, <1>3, <1>4, <1>5, <1>6, <1>7, <1>8, <1>9, <1>10, <1>11, <1>12, <1>13
  DEF Next, LoopStep

(* Whatever the evaluator answers and whatever tasks bring back meanwhile:  *)
(* Completed work is below the threshold, and work handed to a human for    *)
(* its evaluations stands exactly at it.                                    *)
THEOREM EvaluationsEscalate == Spec => []EvaluationThreshold
<1>1. Init => SlotInv /\ EvaluationInv
  BY SlotInvInductive, EvaluationInit
<1>2. SlotInv /\ EvaluationInv /\ [Next]_vars => (SlotInv /\ EvaluationInv)'
  BY SlotInvInductive, EvaluationStep
<1>3. EvaluationInv => EvaluationThreshold
  BY DEF EvaluationInv
<1>4. QED
  BY <1>1, <1>2, <1>3, PTL DEF Spec

(* No step of the loop, of a task or of another process takes an item from *)
(* the human it waits for: on_done and the evaluator act on the snapshot,   *)
(* and what is in the snapshot has not been handed over.                    *)
THEOREM HumansKeepItems == Spec => HumanKeepsItem
<1>1. Init => SlotInv /\ EvaluationInv
  BY SlotInvInductive, EvaluationInit
<1>2. SlotInv /\ EvaluationInv /\ [Next]_vars => (SlotInv /\ EvaluationInv)'
  BY SlotInvInductive, EvaluationStep
<1>3. SlotInv /\ EvaluationInv /\ [Next]_vars =>
        [\A w \in WorkIn(queue, {"Hitl"}) :
           w \in WorkIn(queue', {"Hitl"}) \/ restarts' # restarts]_vars
  BY EvaluationStep
<1>4. QED
  BY <1>1, <1>2, <1>3, PTL DEF Spec, HumanKeepsItem

-----------------------------------------------------------------------------
(* Retries end.                                                            *)

(* A count that reaches rules resolves to the last of them. *)
LEMMA LastReached ==
    ASSUME NEW n \in Nat, Reached(n) # {}
    PROVE  \E k \in Reached(n) : \A j \in Reached(n) : j <= k
<1> DEFINE Distance == {n - k : k \in Reached(n)}
<1>1. Reached(n) \subseteq 0..n
  BY PolicyAssumption DEF Reached
<1>2. Distance \subseteq Nat /\ Distance # {}
  BY <1>1
<1>3. PICK d \in Distance : \A e \in Distance : d <= e
  <2> DEFINE Less == OpToRel(<, Nat)
  <2>1. IsWellFoundedOn(Less, Nat)
    BY NatLessThanWellFounded
  <2>2. \A a, b \in Nat : a < b => <<a, b>> \in Less
    BY DEF OpToRel
  <2> HIDE DEF Less, Distance
  <2>3. PICK d \in Distance : \A e \in Distance : <<e, d>> \notin Less
    BY <1>2, <2>1, WFMin
  <2>4. ASSUME NEW e \in Distance PROVE d <= e
    <3>1. d \in Nat /\ e \in Nat /\ ~(e < d)
      BY <1>2, <2>2, <2>3
    <3>. QED
      BY <3>1
  <2>. QED
    BY <2>4
<1>4. PICK k \in Reached(n) : d = n - k
  OBVIOUS
<1>5. ASSUME NEW j \in Reached(n) PROVE j <= k
  <2>1. n - j \in Distance
    OBVIOUS
  <2>2. d <= n - j
    BY <1>3, <2>1
  <2>. QED
    BY <1>1, <1>4, <2>2
<1>. QED
  BY <1>5

LEMMA ResolveAtHitlLevel ==
    ASSUME NEW n \in Nat, NEW k \in HitlLevels, k <= n
    PROVE  Resolve(n) = "hitl"
<1>1. k \in Reached(n)
  BY DEF HitlLevels, Reached
<1>2. PICK last \in Reached(n) : \A j \in Reached(n) : j <= last
  BY <1>1, LastReached
<1>3. ASSUME NEW m \in Reached(n), \A j \in Reached(n) : j <= m
      PROVE  Policy[m] = "hitl"
  BY <1>1, <1>3 DEF HitlLevels, Reached
<1>. QED
  BY <1>1, <1>2, <1>3 DEF Resolve

(* The inductive invariant: work that has failed this often is with a human. *)
RetriesInv ==
    \A w \in Work : \A k \in HitlLevels :
        failedEvents[w] >= k => w \in WorkIn(queue, {"Hitl"})

LEMMA RetriesInit == 0 \notin HitlLevels /\ Init => RetriesInv
  BY PolicyAssumption DEF Init, RetriesInv, HitlLevels

LEMMA RetriesJoinFailed ==
    ASSUME TypeOK, RetriesInv, NEW w \in Work, JoinFailed(w),
           WorkIn(queue, {"Hitl"}) \subseteq WorkIn(queue', {"Hitl"})
    PROVE  RetriesInv'
<1> SUFFICES ASSUME NEW v \in Work, NEW k \in HitlLevels, failedEvents'[v] >= k
             PROVE  v \in WorkIn(queue', {"Hitl"})
  BY DEF RetriesInv
<1>1. CASE v # w
  BY <1>1 DEF JoinFailed, RetriesInv, TypeOK
<1>2. CASE v = w
  <2> DEFINE count == CountFailures(w) + 1
             item == [work_id |-> w, phase |-> "Hitl", hitl_reason |-> "retry_max_exceeded"]
  <2>1. /\ failedEvents[w] \in Nat /\ failedEntries[StateOf(w)] \in Nat
        /\ k \in Nat
    BY ConstantsAssumption, PolicyAssumption DEF TypeOK, StateOf, HitlLevels
  <2>2. failedEvents'[w] <= failedEvents[w] + 1
    BY <2>1, ConstantsAssumption DEF JoinFailed, TypeOK, Bump
  <2>3. failedEvents'[w] \in Nat
    BY <2>1, ConstantsAssumption DEF JoinFailed, TypeOK, Bump
  <2>4. count \in Nat /\ k <= count
    BY <1>2, <2>1, <2>2, <2>3 DEF CountFailures
  <2>5. Resolve(count) = "hitl"
    BY <2>4, ResolveAtHitlLevel
  <2>6. queue' = Append(queue, item)
    BY <2>5 DEF JoinFailed, Escalated
  <2>7. item \in QueueItem /\ queue \in Seq(QueueItem)
    BY DEF QueueItem, QueuePhase, HitlReason, TypeOK
  <2>. QED
    BY <1>2, <2>6, <2>7, AppendItem DEF WorkIn
<1>. QED
  BY <1>1, <1>2

LEMMA RetriesStep ==
    0 \notin HitlLevels /\ SlotInv /\ EvaluationInv /\ RetriesInv /\ [Next]_vars
      => RetriesInv'
<1> SUFFICES ASSUME 0 \notin HitlLevels, SlotInv, EvaluationInv, RetriesInv, [Next]_vars
             PROVE  RetriesInv'
  OBVIOUS
<1>1. CASE Restart
  BY <1>1, PolicyAssumption DEF Restart, RetriesInv, HitlLevels
<1>2. CASE ~Restart
  <2>1. restarts' = restarts
    BY <1>2
    DEF Next, LoopStep, loopVars, historyVars, outsideVars, vars,
        Tick, Drain, CollectItem, CollectDone, CollectError, AdvancePending, StartItem,
        PassItem, HoldItem, EndAdvance, Spawn, EndSpawn, Join, JoinLost, JoinWorktreeError,
        JoinCompleted, JoinFailed, Joined, EndJoin, DeferEvaluate, StartEvaluate, JudgeOk,
        JudgeFailed, OnDone, EndEvaluate, TaskEnds, DatabaseChanges, DependencyAdded, DependencyRemoved,
         RowChanges, Interrupt, Stopped
  <2>2. WorkIn(queue, {"Hitl"}) \subseteq WorkIn(queue', {"Hitl"})
    BY <2>1, EvaluationStep
  <2>3. CASE \E w \in Work : JoinFailed(w)
    BY <2>2, <2>3, RetriesJoinFailed DEF SlotInv
  <2>4. CASE failedEvents' = failedEvents
    BY <2>2, <2>4 DEF RetriesInv
  <2>5. failedEvents' = failedEvents \/ \E w \in Work : JoinFailed(w)
    BY <1>2
    DEF Next, LoopStep, loopVars, historyVars, outsideVars, vars,
        Tick, Drain, CollectItem, CollectDone, CollectError, AdvancePending, StartItem,
        PassItem, HoldItem, EndAdvance, Spawn, EndSpawn, Join, JoinLost, JoinWorktreeError,
        JoinCompleted, Joined, EndJoin, DeferEvaluate, StartEvaluate, JudgeOk,
        JudgeFailed, OnDone, EndEvaluate, TaskEnds, DatabaseChanges, DependencyAdded, DependencyRemoved,
         RowChanges, Interrupt, Stopped
  <2>. QED
    BY <2>3, <2>4, <2>5
<1>. QED
  BY <1>1, <1>2

LEMMA RetriesInvEnds == SlotInv /\ RetriesInv => RetriesEnd
<1> SUFFICES ASSUME SlotInv, RetriesInv, NEW w \in Work, w \in WorkIn(queue, {"Hitl"})
             PROVE  w \notin WorkIn(queue, {"Pending", "Ready", "Running"})
  BY DEF RetriesInv, RetriesEnd
<1>. QED
  BY DEF SlotInv, UniqueWork, WorkIn

(* Whatever the policy, as long as it lets work fail at all before a human  *)
(* is asked: work that failed as often as the level from which every rule   *)
(* asks a human does not wait for another attempt, also when a source       *)
(* returns it again.                                                        *)
THEOREM RetriesStop ==
    ASSUME 0 \notin HitlLevels PROVE Spec => []RetriesEnd
<1>1. Init => SlotInv /\ EvaluationInv /\ RetriesInv
  BY SlotInvInductive, EvaluationInit, RetriesInit
<1>2. SlotInv /\ EvaluationInv /\ RetriesInv /\ [Next]_vars
        => (SlotInv /\ EvaluationInv /\ RetriesInv)'
  BY SlotInvInductive, EvaluationStep, RetriesStep
<1>3. SlotInv /\ RetriesInv => RetriesEnd
  BY RetriesInvEnds
<1>4. QED
  BY <1>1, <1>2, <1>3, PTL DEF Spec

-----------------------------------------------------------------------------
(* No item is overtaken.                                                   *)

(* Each item of q whose work is in r is there no further back. *)
NoneMovesBack(q, r) ==
    \A i \in DOMAIN q :
        q[i].work_id \in WorkIn(r, QueuePhase) =>
            \E j \in DOMAIN r : j <= i /\ r[j].work_id = q[i].work_id

LEMMA SameOrder ==
    ASSUME NEW q \in Seq(QueueItem), NEW r, DOMAIN q \subseteq DOMAIN r,
           \A i \in DOMAIN q : r[i].work_id = q[i].work_id
    PROVE  NoneMovesBack(q, r)
<1>1. \A i \in DOMAIN q : i <= i
  BY LenProperties
<1>. QED
  BY <1>1 DEF NoneMovesBack

LEMMA AppendOrder ==
    ASSUME NEW q \in Seq(QueueItem), NEW item \in QueueItem
    PROVE  NoneMovesBack(q, Append(q, item))
<1>1. /\ DOMAIN q \subseteq DOMAIN Append(q, item)
      /\ \A i \in DOMAIN q : Append(q, item)[i].work_id = q[i].work_id
  BY AppendItem
<1> DEFINE r == Append(q, item)
<1> HIDE DEF r
<1>2. NoneMovesBack(q, r)
  BY <1>1, SameOrder DEF r
<1>. QED
  BY <1>2 DEF r

LEMMA RemoveOrder ==
    ASSUME NEW q \in Seq(QueueItem), NEW i \in DOMAIN q, Distinct(q)
    PROVE  NoneMovesBack(q, RemoveAt(q, i))
<1>1. DOMAIN q = 1 .. Len(q) /\ Len(q) \in Nat
  BY LenProperties
<1>2. DOMAIN RemoveAt(q, i) = 1 .. Len(q) - 1
  BY <1>1, RemoveAtProperties, LenProperties
<1> SUFFICES ASSUME NEW k \in DOMAIN q,
                    q[k].work_id \in WorkIn(RemoveAt(q, i), QueuePhase)
             PROVE  \E j \in DOMAIN RemoveAt(q, i) :
                      j <= k /\ RemoveAt(q, i)[j].work_id = q[k].work_id
  BY DEF NoneMovesBack
<1>3. q[i].work_id \notin WorkIn(RemoveAt(q, i), QueuePhase)
  BY DistinctRemove DEF WorkIn
<1>4. k # i
  BY <1>3
<1> DEFINE j == IF k < i THEN k ELSE k - 1
<1>5. j \in 1 .. Len(q) - 1 /\ j <= k
  BY <1>1, <1>4
<1>6. RemoveAt(q, i)[j] = q[k]
  <2>1. (IF j < i THEN q[j] ELSE q[j + 1]) = q[k]
    BY <1>1, <1>4
  <2>. QED
    BY <1>1, <1>5, <2>1, RemoveAtProperties
<1>. QED
  BY <1>2, <1>5, <1>6

LEMMA OrderStep ==
    SlotInv /\ EvaluationInv /\ [Next]_vars => NoneMovesBack(queue, queue')
<1> SUFFICES ASSUME SlotInv, EvaluationInv, [Next]_vars PROVE NoneMovesBack(queue, queue')
  OBVIOUS
<1>a. /\ TypeOK /\ UniqueWork /\ Distinct(queue)
      /\ queue \in Seq(QueueItem)
  BY UniqueParts DEF SlotInv, TypeOK
<1>1. CASE queue' = queue
  BY <1>a, <1>1, SameOrder
<1>2. ASSUME NEW w \in Work, CollectItem(w) PROVE NoneMovesBack(queue, queue')
  BY <1>a, <1>2, NewItemType, AppendOrder DEF CollectItem
<1>3. CASE AdvancePending
  BY <1>a, <1>3, AdvancedItems, SameOrder
<1>4. CASE StartItem
  <2>1. DOMAIN queue' = DOMAIN queue /\ \A i \in DOMAIN queue : queue'[i].work_id = queue[i].work_id
    BY <1>a, <1>4, StartedItems
  <2>. QED
    BY <1>a, <2>1, SameOrder
<1>5. ASSUME NEW i \in DOMAIN queue, Spawn(i) \/ OnDone(i) PROVE NoneMovesBack(queue, queue')
  BY <1>a, <1>5, RemoveOrder DEF Spawn, OnDone
<1>6. ASSUME NEW w \in Work, Join(w) PROVE NoneMovesBack(queue, queue')
  BY <1>a, <1>1, <1>6, JoinQueue, AppendOrder
<1>7. CASE JudgeFailed
  BY <1>a, <1>7, JudgeFailedItems, SameOrder
<1>8. CASE Restart
  BY <1>8 DEF Restart, NoneMovesBack, WorkIn
<1>9. \/ queue' = queue
      \/ \E w \in Work : CollectItem(w) \/ Join(w)
      \/ AdvancePending \/ StartItem \/ JudgeFailed \/ Restart
      \/ \E i \in DOMAIN queue : Spawn(i) \/ OnDone(i)
  BY DEF Next, LoopStep, vars, Tick, Drain, CollectDone, CollectError, PassItem, HoldItem, EndAdvance,
         EndSpawn, EndJoin, DeferEvaluate, StartEvaluate, JudgeOk, EndEvaluate, TaskEnds,
         DatabaseChanges, DependencyAdded, DependencyRemoved,
         RowChanges, Interrupt, Stopped
<1>. QED
  BY <1>1, <1>2, <1>3, <1>4, <1>5, <1>6, <1>7, <1>8, <1>9

(* Work keeps its place: what is collected, retried or put back goes behind *)
(* it, and what is taken out, from wherever in the queue, moves it up.      *)
THEOREM QueueKeepsItsOrder == Spec => NotOvertaken
<1>1. Init => SlotInv /\ EvaluationInv
  BY SlotInvInductive, EvaluationInit
<1>2. SlotInv /\ EvaluationInv /\ [Next]_vars => (SlotInv /\ EvaluationInv)'
  BY SlotInvInductive, EvaluationStep
<1>3. SlotInv /\ EvaluationInv /\ [Next]_vars =>
        [\A i \in DOMAIN queue :
           queue[i].work_id \in WorkIn(queue', QueuePhase) =>
             \E j \in DOMAIN queue' : j <= i /\ queue'[j].work_id = queue[i].work_id]_vars
  BY OrderStep DEF NoneMovesBack
<1>4. QED
  BY <1>1, <1>2, <1>3, PTL DEF Spec, NotOvertaken

-----------------------------------------------------------------------------
(* Humans are asked for failures only when a rule says so.                 *)

(* Some rule that asks a human is for this many failures or fewer. *)
AskedAt(count) == \E k \in DOMAIN Policy : Policy[k] \in {"hitl", "replan"} /\ k <= count

LEMMA ResolvesToAskedRule ==
    ASSUME NEW n \in Nat, Resolve(n) \notin {"retry", "retry_with_comment", "skip"}
    PROVE  AskedAt(n)
<1>1. Reached(n) # {}
  BY DEF Resolve
<1>2. PICK last \in Reached(n) : \A j \in Reached(n) : j <= last
  BY <1>1, LastReached
<1> DEFINE k == CHOOSE m \in Reached(n) : \A j \in Reached(n) : j <= m
<1>3. k \in Reached(n)
  BY <1>2
<1>4. Resolve(n) = Policy[k]
  BY <1>1 DEF Resolve
<1> HIDE DEF k
<1>5. k \in DOMAIN Policy /\ k <= n
  BY <1>3 DEF Reached
<1>6. Policy[k] \in EscalationAction
  BY <1>5, PolicyAssumption
<1>. QED
  BY <1>4, <1>5, <1>6 DEF AskedAt, EscalationAction

LEMMA AskedLater ==
    ASSUME NEW m \in Nat, NEW n \in Nat, m <= n, AskedAt(m) PROVE AskedAt(n)
  BY PolicyAssumption DEF AskedAt

(* The failures of work that the daemon goes by, from its two counters. *)
CountIn(entries, events, w) == entries[StateOf(w)] + events[w]

(* The invariant for one queue and the counters. *)
AllAsked(q, entries, events) ==
    \A i \in DOMAIN q :
        q[i].hitl_reason = "retry_max_exceeded" => AskedAt(CountIn(entries, events, q[i].work_id))

LEMMA AskedParts ==
    /\ HandedOverWhenCounted <=> AllAsked(queue, failedEntries, failedEvents)
    /\ HandedOverWhenCounted' <=> AllAsked(queue', failedEntries', failedEvents')
<1>1. HandedOverWhenCounted <=> AllAsked(queue, failedEntries, failedEvents)
  BY DEF HandedOverWhenCounted, AllAsked, AskedAt, CountFailures, CountIn
<1>2. HandedOverWhenCounted' <=> AllAsked(queue', failedEntries', failedEvents')
  BY DEF HandedOverWhenCounted, AllAsked, AskedAt, CountFailures, CountIn
<1>. QED
  BY <1>1, <1>2

LEMMA CountTypes ==
    ASSUME TypeOK, NEW w \in Work
    PROVE  /\ failedEntries[StateOf(w)] \in 0 .. HistoryCap
           /\ failedEvents[w] \in 0 .. HistoryCap
           /\ CountIn(failedEntries, failedEvents, w) \in Nat
<1>1. StateOf(w) \in States
  BY ConstantsAssumption DEF StateOf
<1>2. /\ failedEntries[StateOf(w)] \in 0 .. HistoryCap
      /\ failedEvents[w] \in 0 .. HistoryCap
  BY <1>1 DEF TypeOK
<1>. QED
  BY <1>2, ConstantsAssumption DEF CountIn

(* A step that takes no failure back. *)
CountsGrow ==
    \A w \in Work :
        CountIn(failedEntries, failedEvents, w) <= CountIn(failedEntries', failedEvents', w)

LEMMA CountsGrowStep == TypeOK /\ [Next]_vars => CountsGrow \/ Restart
<1> SUFFICES ASSUME TypeOK, [Next]_vars, ~Restart, NEW w \in Work
             PROVE  CountIn(failedEntries, failedEvents, w) <= CountIn(failedEntries', failedEvents', w)
  BY DEF CountsGrow
<1>1. StateOf(w) \in States
  BY ConstantsAssumption DEF StateOf
<1>2. \A n \in 0 .. HistoryCap : Bump(n) \in Nat /\ n <= Bump(n)
  BY ConstantsAssumption DEF Bump
<1>3. /\ failedEntries \in [States -> 0 .. HistoryCap]
      /\ failedEvents \in [Work -> 0 .. HistoryCap]
  BY DEF TypeOK
<1>4. CASE failedEntries' = failedEntries /\ failedEvents' = failedEvents
  BY <1>1, <1>3, <1>4, ConstantsAssumption DEF CountIn
<1>5. ASSUME NEW v \in Work, JoinFailed(v)
      PROVE  CountIn(failedEntries, failedEvents, w) <= CountIn(failedEntries', failedEvents', w)
  <2>1. failedEntries'[StateOf(w)] \in {failedEntries[StateOf(w)], Bump(failedEntries[StateOf(w)])}
    BY <1>1, <1>3, <1>5 DEF JoinFailed
  <2>2. failedEvents'[w] \in {failedEvents[w], Bump(failedEvents[w])}
    BY <1>3, <1>5 DEF JoinFailed
  <2>3. failedEntries[StateOf(w)] \in 0 .. HistoryCap /\ failedEvents[w] \in 0 .. HistoryCap
    BY <1>1, <1>3
  <2>. QED
    BY <1>2, <2>1, <2>2, <2>3, ConstantsAssumption DEF CountIn
<1>6. ASSUME NEW i \in DOMAIN queue, OnDone(i)
      PROVE  CountIn(failedEntries, failedEvents, w) <= CountIn(failedEntries', failedEvents', w)
  <2>1. failedEntries'[StateOf(w)] \in {failedEntries[StateOf(w)], Bump(failedEntries[StateOf(w)])}
    BY <1>1, <1>3, <1>6 DEF OnDone
  <2>2. failedEvents' = failedEvents
    BY <1>6 DEF OnDone
  <2>3. failedEntries[StateOf(w)] \in 0 .. HistoryCap /\ failedEvents[w] \in 0 .. HistoryCap
    BY <1>1, <1>3
  <2>. QED
    BY <1>2, <2>1, <2>2, <2>3, ConstantsAssumption DEF CountIn
<1>7. \/ failedEntries' = failedEntries /\ failedEvents' = failedEvents
      \/ \E v \in Work : JoinFailed(v)
      \/ \E i \in DOMAIN queue : OnDone(i)
  BY DEF Next, LoopStep, loopVars, historyVars, outsideVars, vars,
         Tick, Drain, CollectItem, CollectDone, CollectError, AdvancePending, StartItem,
         PassItem, HoldItem, EndAdvance, Spawn, EndSpawn, Join, JoinLost, JoinWorktreeError,
         JoinCompleted, Joined, EndJoin, DeferEvaluate, StartEvaluate, JudgeOk,
         JudgeFailed, EndEvaluate, TaskEnds, DatabaseChanges, DependencyAdded, DependencyRemoved,
         RowChanges, Interrupt, Stopped
<1>. QED
  BY <1>4, <1>5, <1>6, <1>7

(* The failure that is counted now is the one the rule was asked about,     *)
(* also where a counter stands at its bound.                                *)
LEMMA AskedWhenCounted ==
    ASSUME HistoryCap # 0, TypeOK, NEW w \in Work, JoinFailed(w),
           AskedAt(CountFailures(w) + 1)
    PROVE  AskedAt(CountIn(failedEntries', failedEvents', w))
<1>1. PICK k \in DOMAIN Policy : Policy[k] \in {"hitl", "replan"} /\ k <= CountFailures(w) + 1
  BY DEF AskedAt
<1>2. k \in Nat /\ k <= HistoryCap + 1
  BY PolicyAssumption, CapAssumption
<1>3. /\ failedEntries[StateOf(w)] \in 0 .. HistoryCap
      /\ failedEvents[w] \in 0 .. HistoryCap
      /\ StateOf(w) \in States
  BY CountTypes, ConstantsAssumption DEF StateOf
<1>4. /\ failedEntries'[StateOf(w)] = Bump(failedEntries[StateOf(w)])
      /\ failedEvents'[w] = Bump(failedEvents[w])
  BY <1>3 DEF JoinFailed, TypeOK
<1>5. k <= Bump(failedEntries[StateOf(w)]) + Bump(failedEvents[w])
  BY <1>1, <1>2, <1>3, ConstantsAssumption DEF CountFailures, Bump
<1>. QED
  BY <1>1, <1>4, <1>5 DEF AskedAt, CountIn

(* What joining a task appends. *)
LEMMA JoinAsked ==
    ASSUME HistoryCap # 0, TypeOK, NEW w \in Work, Join(w)
    PROVE  \/ queue' = queue
           \/ \E item \in QueueItem :
                /\ queue' = Append(queue, item)
                /\ item.work_id = w
                /\ item.hitl_reason = "retry_max_exceeded"
                     => AskedAt(CountIn(failedEntries', failedEvents', w))
<1>1. CASE JoinLost(w) \/ JoinWorktreeError(w)
  BY <1>1 DEF JoinLost, JoinWorktreeError
<1>2. CASE JoinCompleted(w)
  <2> DEFINE item == [work_id |-> w, phase |-> "Completed", hitl_reason |-> "none"]
  <2>1. item \in QueueItem
    BY DEF QueueItem, QueuePhase, HitlReason
  <2>2. queue' = Append(queue, item)
    BY <1>2 DEF JoinCompleted, Transit, ValidTransitions
  <2>. QED
    BY <2>1, <2>2
<1>3. CASE JoinFailed(w)
  <2> DEFINE action == Resolve(CountFailures(w) + 1)
             human == [work_id |-> w, phase |-> "Hitl", hitl_reason |-> "retry_max_exceeded"]
  <2>1. CASE action \in {"retry", "retry_with_comment"}
    <3>1. queue' = Append(queue, NewItem(w))
      BY <1>3, <2>1, Zenon DEF JoinFailed, Escalated
    <3>2. NewItem(w) \in QueueItem /\ NewItem(w).work_id = w /\ NewItem(w).hitl_reason = "none"
      BY NewItemType DEF NewItem
    <3>. QED
      BY <3>1, <3>2
  <2>2. CASE action = "skip"
    BY <1>3, <2>2 DEF JoinFailed, Escalated
  <2>3. CASE action \notin {"retry", "retry_with_comment", "skip"}
    <3>1. queue' = Append(queue, human)
      BY <1>3, <2>3 DEF JoinFailed, Escalated
    <3>2. human \in QueueItem
      BY DEF QueueItem, QueuePhase, HitlReason
    <3>3. CountFailures(w) + 1 \in Nat
      BY CountTypes DEF CountIn, CountFailures
    <3>4. AskedAt(CountFailures(w) + 1)
      BY <2>3, <3>3, ResolvesToAskedRule
    <3>5. AskedAt(CountIn(failedEntries', failedEvents', w))
      BY <1>3, <3>4, AskedWhenCounted
    <3>. QED
      BY <3>1, <3>2, <3>5
  <2>. QED
    BY <2>1, <2>2, <2>3
<1>. QED
  BY <1>1, <1>2, <1>3 DEF Join

(* An item of the next queue was there before, for the same reason or one  *)
(* that is not about failures of its handler, or has just been appended.   *)
LEMMA AskedStep ==
    ASSUME HistoryCap # 0
    PROVE  SlotInv /\ SlotInv' /\ EvaluationInv /\ HandedOverWhenCounted /\ [Next]_vars
             => HandedOverWhenCounted'
<1> SUFFICES ASSUME SlotInv, SlotInv', EvaluationInv, HandedOverWhenCounted, [Next]_vars
             PROVE  AllAsked(queue', failedEntries', failedEvents')
  BY AskedParts
<1>a. /\ TypeOK /\ TypeOK' /\ UniqueWork
      /\ queue \in Seq(QueueItem) /\ queue' \in Seq(QueueItem)
      /\ \A i \in DOMAIN queue : queue[i] \in QueueItem /\ queue[i].work_id \in Work
  BY ItemsOfQueue DEF SlotInv, TypeOK
<1>b. \A w \in Work : CountIn(failedEntries', failedEvents', w) \in Nat
  <2>1. TypeOK' => \A w \in Work : CountIn(failedEntries', failedEvents', w) \in Nat
    BY ConstantsAssumption DEF TypeOK, CountIn, StateOf
  <2>. QED
    BY <1>a, <2>1
<1>c. ASSUME CountsGrow, NEW i \in DOMAIN queue,
             queue[i].hitl_reason = "retry_max_exceeded"
      PROVE  AskedAt(CountIn(failedEntries', failedEvents', queue[i].work_id))
  <2>1. AskedAt(CountIn(failedEntries, failedEvents, queue[i].work_id))
    BY <1>c, AskedParts DEF AllAsked
  <2>2. CountIn(failedEntries, failedEvents, queue[i].work_id) \in Nat
    BY <1>a, CountTypes
  <2>. QED
    BY <1>a, <1>b, <1>c, <2>1, <2>2, AskedLater DEF CountsGrow
<1>1. CASE Restart
  BY <1>1 DEF Restart, AllAsked
<1> SUFFICES ASSUME ~Restart PROVE AllAsked(queue', failedEntries', failedEvents')
  BY <1>1
<1>d. CountsGrow
  BY <1>a, CountsGrowStep
(* Every item of the next queue that waits for this reason did so before. *)
<1>e. ASSUME \A j \in DOMAIN queue' :
               queue'[j].hitl_reason = "retry_max_exceeded" =>
                 \E i \in DOMAIN queue : /\ queue[i].work_id = queue'[j].work_id
                                         /\ queue[i].hitl_reason = "retry_max_exceeded"
      PROVE  AllAsked(queue', failedEntries', failedEvents')
  BY <1>c, <1>d, <1>e DEF AllAsked
<1>2. CASE queue' = queue
  BY <1>2, <1>e
<1>3. ASSUME NEW item \in QueueItem, queue' = Append(queue, item),
             item.hitl_reason = "retry_max_exceeded"
               => AskedAt(CountIn(failedEntries', failedEvents', item.work_id))
      PROVE  AllAsked(queue', failedEntries', failedEvents')
  BY <1>a, <1>c, <1>d, <1>3, AppendItem DEF AllAsked
<1>4. ASSUME NEW w \in Work, CollectItem(w) PROVE AllAsked(queue', failedEntries', failedEvents')
  <2>1. NewItem(w) \in QueueItem /\ NewItem(w).hitl_reason = "none"
    BY NewItemType DEF NewItem
  <2>. QED
    BY <1>3, <1>4, <2>1 DEF CollectItem
<1>5. CASE AdvancePending
  BY <1>a, <1>5, <1>e, AdvancedItems
<1>6. CASE StartItem
  BY <1>a, <1>6, <1>e, StartedItems
<1>7. ASSUME NEW i \in DOMAIN queue, Spawn(i) \/ OnDone(i)
      PROVE  AllAsked(queue', failedEntries', failedEvents')
  <2>1. queue' = RemoveAt(queue, i)
    BY <1>7 DEF Spawn, OnDone
  <2>. QED
    BY <1>a, <1>e, <2>1, RemoveItem
<1>8. ASSUME NEW w \in Work, Join(w) PROVE AllAsked(queue', failedEntries', failedEvents')
  BY <1>a, <1>2, <1>3, <1>8, JoinAsked
<1>9. CASE JudgeFailed
  <2>1. ASSUME NEW j \in DOMAIN queue, queue'[j].hitl_reason = "retry_max_exceeded"
        PROVE  queue'[j] = queue[j]
    <3> DEFINE judged == [queue[j] EXCEPT !.phase = Transit(@, "Hitl"),
                                          !.hitl_reason = "evaluate_failure"]
    <3>1. queue'[j] \in {queue[j], judged}
      BY <1>9 DEF JudgeFailed
    <3>2. judged.hitl_reason = "evaluate_failure"
      BY <1>a DEF QueueItem
    <3>. QED
      BY <2>1, <3>1, <3>2
  <2>2. DOMAIN queue' = DOMAIN queue
    BY <1>9 DEF JudgeFailed
  <2>. QED
    BY <1>e, <2>1, <2>2
<1>10. \/ queue' = queue
       \/ \E w \in Work : CollectItem(w) \/ Join(w)
       \/ AdvancePending \/ StartItem \/ JudgeFailed
       \/ \E i \in DOMAIN queue : Spawn(i) \/ OnDone(i)
  BY DEF Next, LoopStep, vars, Tick, Drain, CollectDone, CollectError, PassItem, HoldItem, EndAdvance,
         EndSpawn, EndJoin, DeferEvaluate, StartEvaluate, JudgeOk, EndEvaluate, TaskEnds,
         DatabaseChanges, DependencyAdded, DependencyRemoved,
         RowChanges, Interrupt, Stopped
<1>. QED
  BY <1>2, <1>4, <1>5, <1>6, <1>7, <1>8, <1>9, <1>10

(* Whatever the policy and however failures of a state and of work add up:  *)
(* work is handed over for its failures only when the count the daemon goes *)
(* by has reached a rule that asks a human, and the count stays there.      *)
THEOREM HumansAreAskedWhenCounted ==
    ASSUME HistoryCap # 0 PROVE Spec => []HandedOverWhenCounted
<1>1. Init => SlotInv /\ EvaluationInv /\ HandedOverWhenCounted
  BY SlotInvInductive, EvaluationInit DEF Init, HandedOverWhenCounted
<1>2. SlotInv /\ EvaluationInv /\ HandedOverWhenCounted /\ [Next]_vars
        => (SlotInv /\ EvaluationInv /\ HandedOverWhenCounted)'
  BY SlotInvInductive, EvaluationStep, AskedStep
<1>3. QED
  BY <1>1, <1>2, PTL DEF Spec
=============================================================================
