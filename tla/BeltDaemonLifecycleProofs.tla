---------------------- MODULE BeltDaemonLifecycleProofs ----------------------
(***************************************************************************)
(* Proof that the daemon, with its queue, its slots, its loop and its      *)
(* tasks, implements what WorkLifecycle promises about each piece of work, *)
(* and, from how that work moves, where the slots it holds come and go.    *)
(***************************************************************************)
EXTENDS BeltDaemonItemProofs

-----------------------------------------------------------------------------
(* The status of work, from its item and its task.                         *)

StatusIn(q, t, w) ==
    IF w \in WorkIn(q, {"Running"}) \/ t[w] # "idle" THEN "executing"
    ELSE IF w \in WorkIn(q, {"Pending", "Ready"}) THEN "waiting"
    ELSE IF w \in WorkIn(q, {"Completed"}) THEN "completed"
    ELSE IF w \in WorkIn(q, {"Hitl"}) THEN "human"
    ELSE "absent"

StatusesMatch == \A w \in Work : StatusOf(w) = StatusIn(queue, task, w)

LEMMA StatusParts == UniqueWork => StatusesMatch
<1> SUFFICES ASSUME UniqueWork, NEW w \in Work
             PROVE  StatusOf(w) = StatusIn(queue, task, w)
  BY DEF StatusesMatch
<1>1. w \in Executing <=> w \in WorkIn(queue, {"Running"}) \/ task[w] # "idle"
  BY DEF Executing
<1>2. CASE w \in Executing
  <2>1. /\ w \notin WorkIn(queue, {"Pending", "Ready"})
        /\ w \notin WorkIn(queue, {"Completed"})
        /\ w \notin WorkIn(queue, {"Hitl"})
    BY <1>1, <1>2 DEF UniqueWork, WorkIn
  <2>2. StatusOf(w) = "executing"
    BY <1>2, <2>1, Zenon DEF StatusOf
  <2>. QED
    BY <1>1, <1>2, <2>2 DEF StatusIn
<1>3. CASE w \notin Executing /\ w \in WorkIn(queue, {"Pending", "Ready"})
  <2>1. /\ w \notin WorkIn(queue, {"Completed"})
        /\ w \notin WorkIn(queue, {"Hitl"})
    BY <1>3 DEF UniqueWork, WorkIn
  <2>2. StatusOf(w) = "waiting"
    BY <1>3, <2>1, Zenon DEF StatusOf
  <2>. QED
    BY <1>1, <1>3, <2>2 DEF StatusIn
<1>4. CASE /\ w \notin Executing /\ w \notin WorkIn(queue, {"Pending", "Ready"})
           /\ w \in WorkIn(queue, {"Completed"})
  <2>1. w \notin WorkIn(queue, {"Hitl"})
    BY <1>4 DEF UniqueWork, WorkIn
  <2>2. StatusOf(w) = "completed"
    BY <1>4, <2>1, Zenon DEF StatusOf
  <2>. QED
    BY <1>1, <1>4, <2>2 DEF StatusIn
<1>5. CASE /\ w \notin Executing /\ w \notin WorkIn(queue, {"Pending", "Ready"})
           /\ w \notin WorkIn(queue, {"Completed"})
  <2>1. StatusOf(w) = IF w \in WorkIn(queue, {"Hitl"}) THEN "human" ELSE "absent"
    BY <1>5, Zenon DEF StatusOf
  <2>. QED
    BY <1>1, <1>5, <2>1 DEF StatusIn
<1>. QED
  BY <1>2, <1>3, <1>4, <1>5

LEMMA StatusPartsNext == UniqueWork' => StatusesMatch'
  BY StatusParts, PTL

(* What an item in a phase means for its work. *)
Meaning(phase) ==
    IF phase = "Running" THEN "executing"
    ELSE IF phase \in {"Pending", "Ready"} THEN "waiting"
    ELSE IF phase = "Completed" THEN "completed"
    ELSE IF phase = "Hitl" THEN "human"
    ELSE "absent"

LEMMA StatusOfItem ==
    ASSUME NEW q \in Seq(QueueItem), NEW t, Distinct(q), IdleItems(q, t), NEW i \in DOMAIN q
    PROVE  StatusIn(q, t, q[i].work_id) = Meaning(q[i].phase)
<1> DEFINE w == q[i].work_id
<1>1. w \in Work /\ t[w] = "idle"
  BY ItemsOfQueue DEF IdleItems
<1>2. \A phases : w \in WorkIn(q, phases) <=> q[i].phase \in phases
  BY <1>1 DEF WorkIn, Distinct
<1>. QED
  BY <1>1, <1>2 DEF StatusIn, Meaning

LEMMA StatusOutsideQueue ==
    ASSUME NEW q, NEW t, NEW w, \A i \in DOMAIN q : q[i].work_id # w
    PROVE  StatusIn(q, t, w) = IF t[w] # "idle" THEN "executing" ELSE "absent"
  BY DEF StatusIn, WorkIn

LEMMA SameStatus ==
    ASSUME NEW q, NEW t, NEW r, NEW u, NEW w, t[w] = u[w],
           \A phases : w \in WorkIn(q, phases) <=> w \in WorkIn(r, phases)
    PROVE  StatusIn(r, u, w) = StatusIn(q, t, w)
  BY DEF StatusIn

(* A pass over the queue that keeps every work_id. *)
LEMMA MappedStatus ==
    ASSUME NEW q \in Seq(QueueItem), NEW r \in Seq(QueueItem), NEW t,
           Distinct(q), IdleItems(q, t), DOMAIN r = DOMAIN q,
           \A i \in DOMAIN q : r[i].work_id = q[i].work_id
    PROVE  /\ \A i \in DOMAIN q :
                StatusIn(r, t, q[i].work_id) = Meaning(r[i].phase)
           /\ \A w : (\A i \in DOMAIN q : q[i].work_id # w) =>
                StatusIn(r, t, w) = StatusIn(q, t, w)
<1>1. Distinct(r) /\ IdleItems(r, t)
  BY DistinctMapped DEF IdleItems
<1>2. \A i \in DOMAIN q : StatusIn(r, t, q[i].work_id) = Meaning(r[i].phase)
  BY <1>1, StatusOfItem
<1>3. \A w : (\A i \in DOMAIN q : q[i].work_id # w) =>
               StatusIn(r, t, w) = StatusIn(q, t, w)
  BY StatusOutsideQueue
<1>. QED
  BY <1>2, <1>3

LEMMA AppendStatus ==
    ASSUME NEW q \in Seq(QueueItem), NEW item \in QueueItem, NEW t,
           \A i \in DOMAIN q : q[i].work_id # item.work_id
    PROVE  /\ t[item.work_id] = "idle" =>
                StatusIn(Append(q, item), t, item.work_id) = Meaning(item.phase)
           /\ \A w : w # item.work_id => StatusIn(Append(q, item), t, w) = StatusIn(q, t, w)
<1>0. item.work_id \in Work
  BY DEF QueueItem
<1>1. \A phases : item.work_id \in WorkIn(Append(q, item), phases) <=> item.phase \in phases
  BY <1>0, AppendItem DEF WorkIn
<1>2. ASSUME NEW w, w # item.work_id, NEW phases
      PROVE  w \in WorkIn(Append(q, item), phases) <=> w \in WorkIn(q, phases)
  BY <1>2, AppendItem DEF WorkIn
<1>3. t[item.work_id] = "idle" =>
        StatusIn(Append(q, item), t, item.work_id) = Meaning(item.phase)
  BY <1>1 DEF StatusIn, Meaning
<1>4. \A w : w # item.work_id => StatusIn(Append(q, item), t, w) = StatusIn(q, t, w)
  BY <1>2, SameStatus
<1>. QED
  BY <1>3, <1>4

LEMMA RemoveStatus ==
    ASSUME NEW q \in Seq(QueueItem), NEW i \in DOMAIN q, NEW t, Distinct(q)
    PROVE  /\ StatusIn(RemoveAt(q, i), t, q[i].work_id) =
                IF t[q[i].work_id] # "idle" THEN "executing" ELSE "absent"
           /\ \A w : w # q[i].work_id => StatusIn(RemoveAt(q, i), t, w) = StatusIn(q, t, w)
<1>1. \A j \in DOMAIN RemoveAt(q, i) : RemoveAt(q, i)[j].work_id # q[i].work_id
  BY DistinctRemove
<1>2. ASSUME NEW w, w # q[i].work_id, NEW phases
      PROVE  w \in WorkIn(RemoveAt(q, i), phases) <=> w \in WorkIn(q, phases)
  BY <1>2, WorkInRemove, WorkInRemoveKeeps
<1>3. \A w : w # q[i].work_id => StatusIn(RemoveAt(q, i), t, w) = StatusIn(q, t, w)
  BY <1>2, SameStatus
<1>. QED
  BY <1>1, <1>3, StatusOutsideQueue

-----------------------------------------------------------------------------
(* Each step is a step of the lifecycle, or changes no status.             *)

LEMMA Statuses ==
    UniqueWork /\ UniqueWork' =>
      \A w \in Work : /\ StatusOf(w) = StatusIn(queue, task, w)
                      /\ (StatusOf(w))' = StatusIn(queue', task', w)
<1>1. StatusesMatch => \A w \in Work : StatusOf(w) = StatusIn(queue, task, w)
  BY DEF StatusesMatch
<1>2. StatusesMatch' => \A w \in Work : (StatusOf(w))' = StatusIn(queue', task', w)
  BY DEF StatusesMatch, StatusIn, WorkIn
<1>. QED
  BY <1>1, <1>2, StatusParts, StatusPartsNext

Unmoved == \A w \in Work : (StatusOf(w))' = StatusOf(w)

LEMMA UnmovedStutters == Unmoved => UNCHANGED [w \in Work |-> StatusOf(w)]
  BY DEF Unmoved

LEMMA Moves ==
    ASSUME NEW moved, NEW s,
           \A w \in Work : (StatusOf(w))' = IF w \in moved THEN s ELSE StatusOf(w)
    PROVE  Lifecycle!Move(moved, s)
  BY DEF Lifecycle!Move

LEMMA StatusesKept ==
    ASSUME UniqueWork, UniqueWork', queue' = queue, task' = task
    PROVE  Unmoved
  BY Statuses DEF Unmoved

LEMMA ArriveStep ==
    ASSUME SlotInv, UniqueWork', NEW w \in Work, CollectItem(w)
    PROVE  Lifecycle!Arrive(w)
<1> DEFINE item == NewItem(w)
<1>1. /\ queue \in Seq(QueueItem) /\ task' = task /\ task[w] = "idle"
      /\ \A i \in DOMAIN queue : queue[i].work_id # w
      /\ queue' = Append(queue, item)
      /\ UniqueWork
  BY ItemsOfQueue
  DEF SlotInv, TypeOK, CollectItem, ExecutionWithinTick, InQueue, WorkIn
<1>2. item \in QueueItem /\ item.work_id = w /\ Meaning(item.phase) = "waiting"
  BY NewItemType DEF NewItem, Meaning
<1> HIDE DEF item
<1>3. StatusOf(w) = "absent"
  BY <1>1, Statuses, StatusOutsideQueue
<1>4. \A v \in Work : (StatusOf(v))' = IF v \in {w} THEN "waiting" ELSE StatusOf(v)
  BY <1>1, <1>2, Statuses, AppendStatus
<1>. QED
  BY <1>3, <1>4, Moves DEF Lifecycle!Arrive

(* A pass over the queue that hands items of one status over to humans. *)
LEMMA HandOverStep ==
    ASSUME SlotInv, TypeOK', UniqueWork', task' = task, DOMAIN queue' = DOMAIN queue,
           NEW from \in {"waiting", "completed"},
           \A i \in DOMAIN queue :
             /\ queue'[i].work_id = queue[i].work_id
             /\ \/ Meaning(queue'[i].phase) = Meaning(queue[i].phase)
                \/ Meaning(queue[i].phase) = from /\ Meaning(queue'[i].phase) = "human"
    PROVE  Lifecycle!HandOver \/ Unmoved
<1> DEFINE moved == {v \in Work : StatusOf(v) = from /\ (StatusOf(v))' = "human"}
<1>1. /\ queue \in Seq(QueueItem) /\ queue' \in Seq(QueueItem)
      /\ UniqueWork /\ Distinct(queue) /\ IdleItems(queue, task)
  BY UniqueParts DEF SlotInv, TypeOK
<1>2. ASSUME NEW v \in Work
      PROVE  (StatusOf(v))' = IF v \in moved THEN "human" ELSE StatusOf(v)
  <2>1. CASE \A i \in DOMAIN queue : queue[i].work_id # v
    <3>1. (StatusOf(v))' = StatusOf(v)
      BY <1>1, <2>1, Statuses, MappedStatus
    <3>. QED
      BY <3>1
  <2>2. CASE \E i \in DOMAIN queue : queue[i].work_id = v
    <3>1. PICK i \in DOMAIN queue : queue[i].work_id = v
      BY <2>2
    <3>2. /\ StatusOf(v) = Meaning(queue[i].phase)
          /\ (StatusOf(v))' = Meaning(queue'[i].phase)
      BY <1>1, <3>1, Statuses, StatusOfItem, MappedStatus
    <3>. QED
      BY <3>2
  <2>. QED
    BY <2>1, <2>2
<1>3. Lifecycle!Move(moved, "human")
  <2> HIDE DEF moved
  <2>. QED
    BY <1>2, Moves
<1>4. moved \in (SUBSET Lifecycle!With("waiting")) \cup (SUBSET Lifecycle!With("completed"))
  BY DEF Lifecycle!With
<1>5. CASE moved = {}
  BY <1>2, <1>5 DEF Unmoved
<1>6. CASE moved # {}
  <2> HIDE DEF moved
  <2>. QED
    BY <1>3, <1>4, <1>6 DEF Lifecycle!HandOver
<1>. QED
  BY <1>5, <1>6

LEMMA SameCardinality == ASSUME NEW S PROVE Lifecycle!Cardinality(S) = Cardinality(S)
  BY Zenon DEF Lifecycle!Cardinality, Cardinality

LEMMA StartStep ==
    ASSUME SlotInv, TypeOK', UniqueWork', StartItem
    PROVE  \E w \in Work : Lifecycle!Start(w)
<1>0. PICK w \in Work : w = queue[cursor].work_id
  BY ItemsOfQueue DEF SlotInv, TypeOK, StartItem
<1>1. /\ TypeOK /\ UniqueWork /\ SlotsCovered /\ at = "ready"
      /\ queue \in Seq(QueueItem) /\ queue' \in Seq(QueueItem) /\ task' = task
      /\ Distinct(queue) /\ IdleItems(queue, task)
  BY UniqueParts DEF SlotInv, TypeOK, StartItem
<1>2. /\ cursor \in DOMAIN queue /\ DOMAIN queue' = DOMAIN queue
      /\ queue[cursor].phase = "Ready" /\ queue'[cursor].phase = "Running"
      /\ \A i \in DOMAIN queue : queue'[i].work_id = queue[i].work_id
      /\ \A i \in DOMAIN queue \ {cursor} : queue'[i] = queue[i]
  BY <1>1, StartedItems
<1>3. StatusOf(w) = "waiting" /\ (StatusOf(w))' = "executing"
  BY <1>0, <1>1, <1>2, Statuses, StatusOfItem, MappedStatus DEF Meaning
<1>4. ASSUME NEW v \in Work, v # w PROVE (StatusOf(v))' = StatusOf(v)
  <2>1. CASE \A i \in DOMAIN queue : queue[i].work_id # v
    BY <1>1, <1>2, <2>1, Statuses, MappedStatus
  <2>2. CASE \E i \in DOMAIN queue : queue[i].work_id = v
    <3>1. PICK i \in DOMAIN queue : queue[i].work_id = v
      BY <2>2
    <3>2. queue'[i] = queue[i]
      BY <1>0, <1>2, <1>4, <3>1
    <3>3. /\ StatusOf(v) = Meaning(queue[i].phase)
          /\ (StatusOf(v))' = Meaning(queue'[i].phase)
      BY <1>1, <1>2, <3>1, Statuses, StatusOfItem, MappedStatus
    <3>. QED
      BY <3>2, <3>3
  <2>. QED
    BY <2>1, <2>2
<1>5. \A v \in Work : (StatusOf(v))' = IF v \in {w} THEN "executing" ELSE StatusOf(v)
  BY <1>3, <1>4
<1>6. Lifecycle!With("executing") = Executing
  <2>1. \A v \in Work : StatusOf(v) = "executing" <=> v \in Executing
    BY <1>1, Statuses DEF StatusIn, Executing
  <2>. QED
    BY <2>1 DEF Lifecycle!With, Executing, WorkIn
<1>7. Cardinality(Executing) < IF WsLimit < MaxTotal THEN WsLimit ELSE MaxTotal
  <2>1. tracker.workspace < WsLimit /\ tracker.total < MaxTotal
    BY DEF StartItem, CanSpawnInWorkspace, CanSpawn
  <2>2. /\ Cardinality(Executing) <= tracker.workspace
        /\ tracker.total = tracker.workspace + tracker.evaluates
        /\ tracker.workspace \in Nat /\ tracker.evaluates \in Nat
    BY <1>1 DEF SlotsCovered, TypeOK, Tracker
  <2>. QED
    BY <2>1, <2>2, ExecutingFinite, LimitsAssumption
<1>8. Lifecycle!Move({w}, "executing")
  BY <1>5, Moves
<1>. QED
  BY <1>3, <1>6, <1>7, <1>8, SameCardinality DEF Lifecycle!Start

LEMMA SpawnKeeps ==
    ASSUME SlotInv, UniqueWork', NEW i \in DOMAIN queue, Spawn(i)
    PROVE  Unmoved
<1>0. PICK w \in Work : w = queue[i].work_id
  BY ItemsOfQueue DEF SlotInv, TypeOK
<1>1. /\ queue \in Seq(QueueItem) /\ UniqueWork
      /\ Distinct(queue) /\ IdleItems(queue, task)
      /\ queue' = RemoveAt(queue, i) /\ queue[i].phase = "Running"
      /\ task'[w] = "working" /\ \A v \in Work \ {w} : task'[v] = task[v]
  BY <1>0, UniqueParts DEF SlotInv, TypeOK, Spawn
<1>2. StatusOf(w) = "executing" /\ (StatusOf(w))' = "executing"
  BY <1>0, <1>1, Statuses, StatusOfItem, RemoveStatus DEF Meaning
<1>3. ASSUME NEW v \in Work, v # w PROVE (StatusOf(v))' = StatusOf(v)
  <2>1. StatusIn(queue', task', v) = StatusIn(queue, task', v)
    BY <1>0, <1>1, <1>3, RemoveStatus
  <2>2. StatusIn(queue, task', v) = StatusIn(queue, task, v)
    BY <1>1, <1>3 DEF StatusIn
  <2>. QED
    BY <1>1, <2>1, <2>2, Statuses
<1>. QED
  BY <1>2, <1>3 DEF Unmoved

LEMMA TaskEndsKeeps ==
    ASSUME SlotInv, UniqueWork', NEW w \in Work, TaskEnds(w)
    PROVE  Unmoved
<1>1. /\ queue' = queue /\ UniqueWork /\ task[w] # "idle" /\ task'[w] # "idle"
      /\ \A v \in Work \ {w} : task'[v] = task[v]
  BY ConstantsAssumption DEF SlotInv, TypeOK, TaskEnds, TaskOutcome
<1>. QED
  BY <1>1, Statuses DEF Unmoved, StatusIn

LEMMA FinishStep ==
    ASSUME SlotInv, UniqueWork', NEW w \in Work, Join(w)
    PROVE  Lifecycle!Finish(w)
<1>1. /\ queue \in Seq(QueueItem) /\ UniqueWork /\ task[w] # "idle"
      /\ task'[w] = "idle" /\ \A v \in Work \ {w} : task'[v] = task[v]
      /\ TypeOK
  BY DEF SlotInv, TypeOK, Join, JoinLost, JoinWorktreeError, JoinCompleted, JoinFailed, Joined
<1>2. \A i \in DOMAIN queue : queue[i].work_id # w
  BY <1>1 DEF UniqueWork
<1>3. StatusOf(w) = "executing"
  BY <1>1, <1>2, Statuses, StatusOutsideQueue
<1>4. ASSUME NEW v \in Work, v # w
      PROVE  StatusIn(queue, task', v) = StatusOf(v)
  BY <1>1, <1>4, Statuses DEF StatusIn
<1>5. \E s \in {"completed", "waiting", "human", "absent"} :
        \A v \in Work : (StatusOf(v))' = IF v \in {w} THEN s ELSE StatusOf(v)
  <2>1. CASE queue' = queue
    <3>1. (StatusOf(w))' = "absent"
      BY <1>1, <1>2, <2>1, Statuses, StatusOutsideQueue
    <3>2. \A v \in Work : (StatusOf(v))' = IF v \in {w} THEN "absent" ELSE StatusOf(v)
      BY <1>1, <1>4, <2>1, <3>1, Statuses
    <3>. QED
      BY <3>2
  <2>2. ASSUME NEW item \in QueueItem, queue' = Append(queue, item), item.work_id = w,
               Meaning(item.phase) \in {"completed", "waiting", "human"}
        PROVE  \A v \in Work : (StatusOf(v))' =
                 IF v \in {w} THEN Meaning(item.phase) ELSE StatusOf(v)
    <3>1. (StatusOf(w))' = Meaning(item.phase)
      BY <1>1, <1>2, <2>2, Statuses, AppendStatus
    <3>2. \A v \in Work : v # w => StatusIn(queue', task', v) = StatusIn(queue, task', v)
      BY <1>1, <1>2, <2>2, AppendStatus
    <3>. QED
      BY <1>1, <1>4, <3>1, <3>2, Statuses
  <2>3. \/ queue' = queue
        \/ \E item \in QueueItem :
             /\ queue' = Append(queue, item) /\ item.work_id = w
             /\ Meaning(item.phase) \in {"completed", "waiting", "human"}
    <3>1. CASE JoinLost(w) \/ JoinWorktreeError(w)
      BY <3>1 DEF JoinLost, JoinWorktreeError
    <3>2. CASE JoinCompleted(w)
      <4> DEFINE item == [work_id |-> w, phase |-> "Completed", hitl_reason |-> "none"]
      <4>1. item \in QueueItem /\ item.work_id = w /\ Meaning(item.phase) = "completed"
        BY DEF QueueItem, QueuePhase, HitlReason, Meaning
      <4>2. queue' = Append(queue, item)
        BY <3>2 DEF JoinCompleted, Transit, ValidTransitions
      <4>. QED
        BY <4>1, <4>2
    <3>3. CASE JoinFailed(w)
      <4> DEFINE item == [work_id |-> w, phase |-> "Hitl", hitl_reason |-> "retry_max_exceeded"]
      <4>1. item \in QueueItem /\ item.work_id = w /\ Meaning(item.phase) = "human"
        BY DEF QueueItem, QueuePhase, HitlReason, Meaning
      <4>2. /\ NewItem(w) \in QueueItem /\ NewItem(w).work_id = w
            /\ Meaning(NewItem(w).phase) = "waiting"
        BY NewItemType DEF NewItem, Meaning
      <4>. QED
        BY <3>3, <4>1, <4>2 DEF JoinFailed, Escalated
    <3>. QED
      BY <3>1, <3>2, <3>3 DEF Join
  <2>4. ASSUME NEW item \in QueueItem, queue' = Append(queue, item), item.work_id = w,
               Meaning(item.phase) \in {"completed", "waiting", "human"}
        PROVE  \E s \in {"completed", "waiting", "human", "absent"} :
                 \A v \in Work : (StatusOf(v))' = IF v \in {w} THEN s ELSE StatusOf(v)
    BY <2>2, <2>4
  <2>. QED
    BY <2>1, <2>3, <2>4
<1>. QED
  BY <1>3, <1>5, Moves DEF Lifecycle!Finish

LEMMA AdvanceStep ==
    ASSUME SlotInv, TypeOK', UniqueWork', AdvancePending
    PROVE  Lifecycle!HandOver \/ Unmoved
<1>1. TypeOK /\ task' = task
  BY DEF SlotInv, AdvancePending
<1>2. ASSUME NEW i \in DOMAIN queue
      PROVE  /\ queue'[i].work_id = queue[i].work_id
             /\ \/ Meaning(queue'[i].phase) = Meaning(queue[i].phase)
                \/ Meaning(queue[i].phase) = "waiting" /\ Meaning(queue'[i].phase) = "human"
  BY <1>1, AdvancedItems DEF Meaning
<1>3. DOMAIN queue' = DOMAIN queue
  BY <1>1, AdvancedItems
<1>. QED
  BY <1>1, <1>2, <1>3, HandOverStep

LEMMA JudgeFailedStep ==
    ASSUME SlotInv, EvaluationInv, TypeOK', UniqueWork', JudgeFailed
    PROVE  Lifecycle!HandOver \/ Unmoved
<1>1. TypeOK /\ UniqueWork /\ task' = task
  BY DEF SlotInv, JudgeFailed
<1>2. ASSUME NEW i \in DOMAIN queue
      PROVE  /\ queue'[i].work_id = queue[i].work_id
             /\ \/ Meaning(queue'[i].phase) = Meaning(queue[i].phase)
                \/ Meaning(queue[i].phase) = "completed" /\ Meaning(queue'[i].phase) = "human"
  BY <1>1, JudgedItems DEF Meaning
<1>3. DOMAIN queue' = DOMAIN queue
  BY <1>1, JudgedItems
<1>. QED
  BY <1>1, <1>2, <1>3, HandOverStep

LEMMA CloseStep ==
    ASSUME SlotInv, EvaluationInv, UniqueWork', NEW i \in DOMAIN queue, OnDone(i)
    PROVE  \E w \in Work : Lifecycle!Close(w)
<1>0. PICK w \in Work : w = queue[i].work_id
  BY ItemsOfQueue DEF SlotInv, TypeOK
<1>1. /\ queue \in Seq(QueueItem) /\ TypeOK /\ UniqueWork
      /\ Distinct(queue) /\ IdleItems(queue, task)
      /\ queue' = RemoveAt(queue, i) /\ task' = task
      /\ w \in batch
  BY <1>0, UniqueParts DEF SlotInv, TypeOK, OnDone
<1>2. queue[i].phase = "Completed"
  BY <1>0, <1>1, OnePhase DEF EvaluationInv
<1>3. StatusOf(w) = "completed" /\ task[w] = "idle"
  BY <1>0, <1>1, <1>2, Statuses, StatusOfItem DEF Meaning, IdleItems
<1>4. (StatusOf(w))' = "absent"
  BY <1>0, <1>1, <1>3, Statuses, RemoveStatus
<1>5. \A v \in Work : (StatusOf(v))' = IF v \in {w} THEN "absent" ELSE StatusOf(v)
  <2>1. \A v \in Work : v # w => StatusIn(queue', task, v) = StatusIn(queue, task, v)
    BY <1>0, <1>1, RemoveStatus
  <2>. QED
    BY <1>1, <1>4, <2>1, Statuses
<1>6. Lifecycle!Move({w}, "absent")
  BY <1>5, Moves
<1>. QED
  BY <1>3, <1>6 DEF Lifecycle!Close

LEMMA ForgetStep ==
    ASSUME SlotInv, UniqueWork', Restart
    PROVE  Lifecycle!Forget
<1>1. ASSUME NEW w \in Work PROVE (StatusOf(w))' = "absent"
  BY Statuses DEF SlotInv, Restart, StatusIn, WorkIn
<1>2. Lifecycle!Move(Work, "absent")
  BY <1>1, Moves
<1>. QED
  BY <1>2 DEF Lifecycle!Forget

LEMMA LifecycleInit == Init => Lifecycle!Init
<1> SUFFICES ASSUME Init PROVE Lifecycle!Init
  OBVIOUS
<1>1. UniqueWork
  BY UniqueInit
<1>2. ASSUME NEW w \in Work PROVE StatusOf(w) = "absent"
  BY <1>1, StatusParts DEF Init, StatusesMatch, StatusIn, WorkIn
<1>. QED
  BY <1>2 DEF Lifecycle!Init

LEMMA LifecycleStep ==
    SlotInv /\ EvaluationInv /\ SlotInv' /\ [Next]_vars =>
      [Lifecycle!Next]_[w \in Work |-> StatusOf(w)]
<1> SUFFICES ASSUME SlotInv, EvaluationInv, SlotInv', [Next]_vars
             PROVE  Lifecycle!Next \/ Unmoved
  BY UnmovedStutters
<1>a. UniqueWork /\ UniqueWork' /\ TypeOK'
  BY DEF SlotInv
<1>1. CASE queue' = queue /\ task' = task
  BY <1>a, <1>1, StatusesKept
<1>2. ASSUME NEW w \in Work, CollectItem(w) PROVE Lifecycle!Next
  BY <1>a, <1>2, ArriveStep DEF Lifecycle!Next
<1>3. CASE AdvancePending
  BY <1>a, <1>3, AdvanceStep DEF Lifecycle!Next
<1>4. CASE StartItem
  BY <1>a, <1>4, StartStep DEF Lifecycle!Next
<1>5. ASSUME NEW i \in DOMAIN queue, Spawn(i) PROVE Unmoved
  BY <1>a, <1>5, SpawnKeeps
<1>6. ASSUME NEW w \in Work, TaskEnds(w) PROVE Unmoved
  BY <1>a, <1>6, TaskEndsKeeps
<1>7. ASSUME NEW w \in Work, Join(w) PROVE Lifecycle!Next
  BY <1>a, <1>7, FinishStep DEF Lifecycle!Next
<1>8. CASE JudgeFailed
  BY <1>a, <1>8, JudgeFailedStep DEF Lifecycle!Next
<1>9. ASSUME NEW i \in DOMAIN queue, OnDone(i) PROVE Lifecycle!Next
  BY <1>a, <1>9, CloseStep DEF Lifecycle!Next
<1>10. CASE Restart
  BY <1>a, <1>10, ForgetStep DEF Lifecycle!Next
<1>11. \/ queue' = queue /\ task' = task
       \/ \E w \in Work : CollectItem(w) \/ TaskEnds(w) \/ Join(w)
       \/ AdvancePending \/ StartItem \/ JudgeFailed \/ Restart
       \/ \E i \in DOMAIN queue : Spawn(i) \/ OnDone(i)
  BY DEF Next, LoopStep, vars, Tick, Drain, CollectDone, CollectError, PassItem, HoldItem, EndAdvance,
         EndSpawn, EndJoin, DeferEvaluate, StartEvaluate, JudgeOk, EndEvaluate, DatabaseChanges,
        DependencyAdded, DependencyRemoved, RowChanges,
         Interrupt, Stopped
<1>. QED
  BY <1>1, <1>2, <1>3, <1>4, <1>5, <1>6, <1>7, <1>8, <1>9, <1>10, <1>11

(* For any work, limits, policy and outcomes, every behaviour of the daemon *)
(* is one of the lifecycle: work executes only after it waited and within   *)
(* the limit, is closed only after it completed, and is with a human only   *)
(* after waiting, executing or completing.                                  *)
THEOREM DaemonImplementsLifecycle == Spec => ImplementsLifecycle
<1>1. Init => SlotInv /\ EvaluationInv
  BY SlotInvInductive, EvaluationInit
<1>2. SlotInv /\ EvaluationInv /\ [Next]_vars => (SlotInv /\ EvaluationInv)'
  BY SlotInvInductive, EvaluationStep
<1>3. SlotInv /\ EvaluationInv /\ SlotInv' /\ [Next]_vars =>
        [Lifecycle!Next]_[w \in Work |-> StatusOf(w)]
  BY LifecycleStep
<1>4. Init => Lifecycle!Init
  BY LifecycleInit
<1>5. QED
  BY <1>1, <1>2, <1>3, <1>4, PTL DEF Spec, ImplementsLifecycle, Lifecycle!Spec

-----------------------------------------------------------------------------
(* Where slots are lost, when tasks may be.                                *)

LEMMA ExecutingStatus ==
    UniqueWork /\ UniqueWork' =>
      \A v \in Work : /\ v \in Executing <=> StatusOf(v) = "executing"
                      /\ v \in Executing' <=> (StatusOf(v))' = "executing"
<1> SUFFICES ASSUME UniqueWork, UniqueWork', NEW v \in Work
             PROVE  /\ v \in Executing <=> StatusOf(v) = "executing"
                    /\ v \in Executing' <=> (StatusOf(v))' = "executing"
  OBVIOUS
<1>1. v \in Executing <=> StatusOf(v) = "executing"
  BY Statuses DEF StatusIn, Executing
<1>2. v \in Executing' <=> (StatusOf(v))' = "executing"
  BY Statuses DEF StatusIn, Executing, WorkIn
<1>. QED
  BY <1>1, <1>2

LEMMA ExecutingIsWork == Executing \subseteq Work /\ Executing' \subseteq Work
  BY DEF Executing, WorkIn

(* Statuses that change to and from others leave the executions alone. *)
LEMMA OthersMove ==
    ASSUME UniqueWork, UniqueWork', NEW moved, NEW s, s # "executing",
           Lifecycle!Move(moved, s),
           \A v \in Work : v \in moved => StatusOf(v) # "executing"
    PROVE  Executing' = Executing
<1>1. \A v \in Work : (StatusOf(v))' = IF v \in moved THEN s ELSE StatusOf(v)
  BY DEF Lifecycle!Move
<1>2. \A v \in Work : v \in Executing' <=> v \in Executing
  BY <1>1, ExecutingStatus
<1>. QED
  BY <1>2, ExecutingIsWork

LEMMA UnmovedExecutes ==
    ASSUME UniqueWork, UniqueWork', Unmoved PROVE Executing' = Executing
  BY ExecutingStatus, ExecutingIsWork DEF Unmoved

LEMMA HandedOverDoNotExecute ==
    ASSUME UniqueWork, UniqueWork', Lifecycle!HandOver \/ Unmoved
    PROVE  Executing' = Executing
<1>1. CASE Lifecycle!HandOver
  <2>1. PICK moved \in (SUBSET Lifecycle!With("waiting")) \cup (SUBSET Lifecycle!With("completed")) :
          Lifecycle!Move(moved, "human")
    BY <1>1 DEF Lifecycle!HandOver
  <2>2. \A v \in Work : v \in moved => StatusOf(v) # "executing"
    BY <2>1 DEF Lifecycle!With
  <2>. QED
    BY <2>1, <2>2, OthersMove
<1>. QED
  BY <1>1, UnmovedExecutes

(* A task is joined whose end gives no slot back. *)
LosesSlot == \E w \in Work : task[w] \in {"panicked", "skipped"} /\ task'[w] = "idle"

LEMMA SlotCounts ==
    TypeOK /\ TypeOK' =>
      /\ tracker.workspace \in Nat /\ Cardinality(Executing) \in Nat
      /\ tracker'.workspace \in Nat /\ Cardinality(Executing') \in Nat
  BY ExecutingFinite DEF TypeOK, Tracker

(* A step that neither takes nor gives slots, or takes or gives one along  *)
(* with the work that holds it.                                            *)
LEMMA LostKept ==
    ASSUME TypeOK, TypeOK', ~LosesSlot, NEW n \in Int,
           tracker'.workspace = tracker.workspace + n,
           Cardinality(Executing') = Cardinality(Executing) + n
    PROVE  LostSlots' = LostSlots + IF LosesSlot THEN 1 ELSE 0
  BY SlotCounts DEF LostSlots

LEMMA StartTakesSlot ==
    ASSUME SlotInv, SlotInv', StartItem
    PROVE  /\ tracker'.workspace = tracker.workspace + 1
           /\ Cardinality(Executing') = Cardinality(Executing) + 1
<1>1. PICK w \in Work : Lifecycle!Start(w)
  BY StartStep DEF SlotInv
<1>2. /\ StatusOf(w) = "waiting"
      /\ \A v \in Work : (StatusOf(v))' = IF v \in {w} THEN "executing" ELSE StatusOf(v)
  BY <1>1 DEF Lifecycle!Start, Lifecycle!Move
<1>3. w \notin Executing /\ Executing' = Executing \cup {w}
  BY <1>2, ExecutingStatus, ExecutingIsWork DEF SlotInv
<1>4. Cardinality(Executing') = Cardinality(Executing) + 1
  BY <1>3, ExecutingFinite, FS_AddElement
<1>5. tracker'.workspace = tracker.workspace + 1
  BY DEF StartItem, Track, SlotInv, TypeOK, Tracker
<1>. QED
  BY <1>4, <1>5

LEMMA JoinEndsOne ==
    ASSUME SlotInv, SlotInv', NEW w \in Work, Join(w)
    PROVE  /\ w \in Executing
           /\ Cardinality(Executing') = Cardinality(Executing) - 1
<1>1. /\ StatusOf(w) = "executing"
      /\ \E s \in {"completed", "waiting", "human", "absent"} : Lifecycle!Move({w}, s)
  BY FinishStep DEF SlotInv, Lifecycle!Finish
<1>2. PICK s \in {"completed", "waiting", "human", "absent"} :
        \A v \in Work : (StatusOf(v))' = IF v \in {w} THEN s ELSE StatusOf(v)
  BY <1>1 DEF Lifecycle!Move
<1>3. w \in Executing /\ Executing' = Executing \ {w}
  BY <1>1, <1>2, ExecutingStatus, ExecutingIsWork DEF SlotInv
<1>. QED
  BY <1>3, ExecutingFinite, FS_RemoveElement

(* The slot is there to be given back: the counter does not saturate. *)
LEMMA JoinGivesSlot ==
    ASSUME SlotInv, SlotInv', NEW w \in Work, Join(w), tracker' = Release(tracker)
    PROVE  tracker'.workspace = tracker.workspace - 1
<1>1. Cardinality(Executing) >= 1
  <2>1. /\ Cardinality(Executing') = Cardinality(Executing) - 1
        /\ Cardinality(Executing') \in Nat /\ Cardinality(Executing) \in Nat
    BY JoinEndsOne, ExecutingFinite
  <2>. QED
    BY <2>1
<1>2. tracker.workspace >= 1 /\ tracker.workspace \in Nat
  BY <1>1, ExecutingFinite DEF SlotInv, SlotsCovered, TypeOK, Tracker
<1>. QED
  BY <1>2 DEF Release, SaturatingPred

LEMMA JoinLoses ==
    ASSUME TypeOK, NEW w \in Work, Join(w)
    PROVE  LosesSlot <=> task[w] \in {"panicked", "skipped"}
<1>1. task'[w] = "idle" /\ \A v \in Work \ {w} : task'[v] = task[v]
  BY Zenon DEF TypeOK, Join, JoinLost, JoinWorktreeError, JoinCompleted, JoinFailed, Joined
<1>. QED
  BY <1>1 DEF LosesSlot

LEMMA JoinAccounted ==
    ASSUME SlotInv, SlotInv', NEW w \in Work, Join(w)
    PROVE  LostSlots' = LostSlots + IF LosesSlot THEN 1 ELSE 0
<1>a. TypeOK /\ TypeOK'
  BY DEF SlotInv
<1>1. CASE JoinLost(w)
  <2>1. tracker' = tracker /\ LosesSlot
    BY <1>a, <1>1, JoinLoses DEF JoinLost
  <2>. QED
    BY <1>a, <2>1, JoinEndsOne, SlotCounts DEF LostSlots
<1>2. CASE ~JoinLost(w)
  <2>1. tracker' = Release(tracker) /\ task[w] \notin {"panicked", "skipped"}
    BY <1>2, Zenon DEF Join, JoinWorktreeError, JoinCompleted, JoinFailed
  <2>2. ~LosesSlot
    BY <1>a, <2>1, JoinLoses
  <2>3. tracker'.workspace = tracker.workspace - 1
    BY <2>1, JoinGivesSlot
  <2>. QED
    BY <1>a, <2>2, <2>3, JoinEndsOne, SlotCounts DEF LostSlots
<1>. QED
  BY <1>1, <1>2

LEMMA AccountedStep ==
    SlotInv /\ SlotInv' /\ EvaluationInv /\ [Next]_vars =>
      (restarts' = restarts =>
         LostSlots' = LostSlots + IF LosesSlot THEN 1 ELSE 0)
<1> DEFINE Goal == LostSlots' = LostSlots + IF LosesSlot THEN 1 ELSE 0
<1> SUFFICES ASSUME SlotInv, SlotInv', EvaluationInv, [Next]_vars, restarts' = restarts
             PROVE  Goal
  OBVIOUS
<1>a. UniqueWork /\ UniqueWork' /\ TypeOK /\ TypeOK'
  BY DEF SlotInv
<1>b. ASSUME Executing' = Executing, ~LosesSlot, tracker'.workspace = tracker.workspace
      PROVE  Goal
  BY <1>a, <1>b, SlotCounts DEF LostSlots
<1>c. task' = task => ~LosesSlot
  BY DEF LosesSlot
<1> HIDE DEF Goal
<1>1. CASE queue' = queue /\ task' = task /\ tracker'.workspace = tracker.workspace
  BY <1>1, <1>a, <1>b, <1>c, StatusesKept, UnmovedExecutes
<1>2. ASSUME NEW w \in Work, CollectItem(w) PROVE Goal
  <2>1. StatusOf(w) = "absent" /\ Lifecycle!Move({w}, "waiting")
    BY <1>a, <1>2, ArriveStep DEF Lifecycle!Arrive
  <2>2. Executing' = Executing
    BY <1>a, <2>1, OthersMove
  <2>. QED
    BY <1>2, <1>b, <1>c, <2>2 DEF CollectItem
<1>3. CASE AdvancePending
  BY <1>3, <1>a, <1>b, <1>c, AdvanceStep, HandedOverDoNotExecute DEF AdvancePending
<1>4. CASE StartItem
  <2>1. task' = task
    BY <1>4 DEF StartItem
  <2>. QED
    BY <1>4, <1>a, <1>c, <2>1, StartTakesSlot, LostKept DEF Goal
<1>5. ASSUME NEW i \in DOMAIN queue, Spawn(i) PROVE Goal
  <2>1. Executing' = Executing /\ tracker' = tracker
    BY <1>5, <1>a, SpawnKeeps, UnmovedExecutes DEF Spawn
  <2>2. \A w \in Work : task'[w] \in {task[w], "working"}
    BY <1>5, <1>a DEF Spawn, TypeOK
  <2>. QED
    BY <1>b, <2>1, <2>2 DEF LosesSlot
<1>6. ASSUME NEW w \in Work, TaskEnds(w) PROVE Goal
  <2>1. Executing' = Executing /\ tracker' = tracker
    BY <1>6, <1>a, TaskEndsKeeps, UnmovedExecutes DEF TaskEnds
  <2>2. task'[w] # "idle" /\ \A v \in Work \ {w} : task'[v] = task[v]
    BY <1>6, <1>a, ConstantsAssumption DEF TaskEnds, TypeOK, TaskOutcome
  <2>. QED
    BY <1>b, <2>1, <2>2 DEF LosesSlot
<1>7. ASSUME NEW w \in Work, Join(w) PROVE Goal
  BY <1>7, JoinAccounted DEF Goal
<1>8. CASE JudgeFailed
  <2>1. tracker'.workspace = tracker.workspace
    BY <1>8, <1>a DEF JudgeFailed, ReleaseEvaluate, TypeOK, Tracker
  <2>. QED
    BY <1>8, <1>a, <1>b, <1>c, <2>1, JudgeFailedStep, HandedOverDoNotExecute DEF JudgeFailed
<1>9. ASSUME NEW i \in DOMAIN queue, OnDone(i) PROVE Goal
  <2>1. PICK w \in Work : StatusOf(w) = "completed" /\ Lifecycle!Move({w}, "absent")
    BY <1>9, <1>a, CloseStep DEF Lifecycle!Close
  <2>2. Executing' = Executing
    BY <1>a, <2>1, OthersMove
  <2>. QED
    BY <1>9, <1>b, <1>c, <2>2 DEF OnDone
<1>10. ~Restart
  BY <1>a DEF Restart, TypeOK
<1>11. \/ queue' = queue /\ task' = task /\ tracker'.workspace = tracker.workspace
       \/ \E w \in Work : CollectItem(w) \/ TaskEnds(w) \/ Join(w)
       \/ AdvancePending \/ StartItem \/ JudgeFailed
       \/ \E i \in DOMAIN queue : Spawn(i) \/ OnDone(i)
  <2>1. CASE StartEvaluate \/ EndEvaluate
    BY <1>a, <2>1
    DEF StartEvaluate, EndEvaluate, TrackEvaluate, ReleaseEvaluate, TypeOK, Tracker
  <2>2. CASE ~(StartEvaluate \/ EndEvaluate)
    BY <1>10, <2>2
    DEF Next, LoopStep, vars, Tick, Drain, CollectDone, CollectError, PassItem, HoldItem, EndAdvance,
        EndSpawn, EndJoin, DeferEvaluate, JudgeOk, DatabaseChanges,
        DependencyAdded, DependencyRemoved, RowChanges, Interrupt, Stopped
  <2>. QED
    BY <2>1, <2>2
<1>. QED
  BY <1>1, <1>2, <1>3, <1>4, <1>5, <1>6, <1>7, <1>8, <1>9, <1>11

(* However many tasks end and in whatever order: the difference between the *)
(* slots that are taken and the work that executes grows by one where a     *)
(* panicked or unconfigured task is joined and nowhere else, and shrinks    *)
(* only when the process starts again.                                      *)
THEOREM LostSlotsAreAccounted == Spec => SlotsAccounted
<1>1. Init => SlotInv /\ EvaluationInv
  BY SlotInvInductive, EvaluationInit
<1>2. SlotInv /\ EvaluationInv /\ [Next]_vars => (SlotInv /\ EvaluationInv)'
  BY SlotInvInductive, EvaluationStep
<1>3. SlotInv /\ SlotInv' /\ EvaluationInv /\ [Next]_vars =>
        [restarts' = restarts =>
           LostSlots' = LostSlots +
             IF \E w \in Work : task[w] \in {"panicked", "skipped"} /\ task'[w] = "idle"
             THEN 1 ELSE 0]_vars
  BY AccountedStep DEF LosesSlot
<1>4. QED
  BY <1>1, <1>2, <1>3, PTL DEF Spec, SlotsAccounted
-----------------------------------------------------------------------------
(* Exactly one slot for each execution, when no task is lost.              *)

(* Every handler has a configuration and none panics. *)
NoTaskLost == Work \subseteq Sources \X Configured /\ "panicked" \notin Outcomes

(* The inductive invariant, together with SlotInv. *)
SlotsExact ==
    /\ tracker.workspace = Cardinality(Executing)
    /\ \A w \in Work : task[w] \notin {"panicked", "skipped"}

LEMMA TasksReturn ==
    ASSUME NoTaskLost, TypeOK, TypeOK', [Next]_vars,
           \A w \in Work : task[w] \notin {"panicked", "skipped"}
    PROVE  \A w \in Work : task'[w] \notin {"panicked", "skipped"}
<1>1. ASSUME NEW w \in Work, TaskEnds(w)
      PROVE  \A v \in Work : task'[v] \notin {"panicked", "skipped"}
  <2>1. StateOf(w) \in Configured
    BY DEF NoTaskLost, StateOf
  <2>2. \A v \in Work : task'[v] \in {task[v]} \cup Outcomes
    BY <1>1, <2>1 DEF TaskEnds, TypeOK
  <2>. QED
    BY <2>2, ConstantsAssumption DEF NoTaskLost, TaskOutcome
<1>2. CASE \A v \in Work : task'[v] \in {task[v], "idle", "working"}
  BY <1>2
<1>3. \/ \E w \in Work : TaskEnds(w)
      \/ \A v \in Work : task'[v] \in {task[v], "idle", "working"}
  <2>1. CASE \E w \in Work : Join(w)
    BY <2>1, Zenon
    DEF TypeOK, Join, JoinLost, JoinWorktreeError, JoinCompleted, JoinFailed, Joined
  <2>. QED
    BY <2>1
    DEF TypeOK, Next, LoopStep, vars, Tick, Drain, CollectItem, CollectDone, CollectError,
        AdvancePending, StartItem, PassItem, HoldItem, EndAdvance, Spawn, EndSpawn, EndJoin,
        DeferEvaluate, StartEvaluate, JudgeOk, JudgeFailed, OnDone, EndEvaluate, DatabaseChanges,
        DependencyAdded, DependencyRemoved, RowChanges,
        Interrupt, Stopped, Restart
<1>. QED
  BY <1>1, <1>2, <1>3

LEMMA ExactStep ==
    NoTaskLost /\ SlotInv /\ SlotInv' /\ EvaluationInv /\ SlotsExact /\ [Next]_vars
      => SlotsExact'
<1> SUFFICES ASSUME NoTaskLost, SlotInv, SlotInv', EvaluationInv, SlotsExact, [Next]_vars
             PROVE  SlotsExact'
  OBVIOUS
<1>a. TypeOK /\ TypeOK'
  BY DEF SlotInv
<1>1. \A w \in Work : task'[w] \notin {"panicked", "skipped"}
  BY <1>a, TasksReturn DEF SlotsExact
<1>2. CASE restarts' = restarts
  <2>1. ~LosesSlot
    BY DEF LosesSlot, SlotsExact
  <2>2. LostSlots' = LostSlots + IF LosesSlot THEN 1 ELSE 0
    BY <1>2, AccountedStep
  <2>. QED
    BY <1>a, <1>1, <2>1, <2>2, SlotCounts DEF SlotsExact, LostSlots
<1>3. CASE Restart
  <2>1. Executing' = {}
    BY <1>3 DEF Restart, Executing, WorkIn
  <2>2. Cardinality(Executing') = 0
    BY <2>1, FS_EmptySet
  <2>. QED
    BY <1>1, <1>3, <2>2 DEF Restart, SlotsExact, NewTracker
<1>4. restarts' = restarts \/ Restart
  BY DEF Next, LoopStep, loopVars, historyVars, outsideVars, vars,
         Tick, Drain, CollectItem, CollectDone, CollectError, AdvancePending, StartItem,
         PassItem, HoldItem, EndAdvance, Spawn, EndSpawn, Join, JoinLost, JoinWorktreeError,
         JoinCompleted, JoinFailed, Joined, EndJoin, DeferEvaluate, StartEvaluate, JudgeOk,
         JudgeFailed, OnDone, EndEvaluate, TaskEnds, DatabaseChanges,
        DependencyAdded, DependencyRemoved, RowChanges, Interrupt, Stopped
<1>. QED
  BY <1>2, <1>3, <1>4

(* When no task is lost, however the others end, no slot leaks and none is  *)
(* given back twice: the tracker counts exactly what executes.              *)
THEOREM NoSlotLeaks ==
    ASSUME NoTaskLost PROVE Spec => []SlotsMatchExecuting
<1>1. Init => SlotInv /\ EvaluationInv /\ SlotsExact
  <2>1. Init => Executing = {}
    BY DEF Init, Executing, WorkIn
  <2>2. Init => Cardinality(Executing) = 0
    BY <2>1, FS_EmptySet
  <2>3. Init => SlotsExact
    BY <2>2 DEF Init, SlotsExact, NewTracker
  <2>. QED
    BY <2>3, SlotInvInductive, EvaluationInit
<1>2. SlotInv /\ EvaluationInv /\ SlotsExact /\ [Next]_vars
        => (SlotInv /\ EvaluationInv /\ SlotsExact)'
  BY SlotInvInductive, EvaluationStep, ExactStep
<1>3. SlotInv /\ SlotsExact => SlotsMatchExecuting
  BY DEF SlotInv, SlotsCovered, SlotsExact, SlotsMatchExecuting
<1>4. QED
  BY <1>1, <1>2, <1>3, PTL DEF Spec

-----------------------------------------------------------------------------
(* The second advance pass leaves no slot unused.                          *)

(* What the pass left behind it was held when the pass came to it. *)
PassedHeld ==
    at = "ready" =>
      \A j \in DOMAIN queue :
        j < cursor /\ queue[j].phase = "Ready" => gate[queue[j].work_id].held # {}

LEMMA PassedStep == TypeOK /\ UniqueWork /\ PassedHeld /\ [Next]_vars => PassedHeld'
<1> SUFFICES ASSUME TypeOK, UniqueWork, PassedHeld, [Next]_vars, at' = "ready"
             PROVE  PassedHeld'
  BY DEF PassedHeld
<1>1. CASE AdvancePending
  <2>1. cursor' = 1 /\ DOMAIN queue' \subseteq Nat \ {0}
    BY <1>1, AdvancedItems, LenProperties DEF AdvancePending, TypeOK
  <2>. QED
    BY <2>1 DEF PassedHeld
<1>2. CASE StartItem
  <2>1. /\ at = "ready" /\ cursor' = cursor + 1 /\ cursor \in Nat /\ cursor \in DOMAIN queue
        /\ queue'[cursor].phase = "Running" /\ DOMAIN queue' = DOMAIN queue
        /\ \A j \in DOMAIN queue \ {cursor} : queue'[j] = queue[j]
    BY <1>2, StartedItems DEF StartItem, TypeOK
  <2>2. /\ DOMAIN queue \subseteq Nat
        /\ \A j \in DOMAIN queue : queue[j].work_id \in Work
    BY LenProperties, ItemsOfQueue DEF TypeOK
  <2>3. \A w \in Work \ {queue[cursor].work_id} : gate'[w] = gate[w]
    BY <1>2, <2>2 DEF StartItem, TypeOK
  <2>4. \A j \in DOMAIN queue \ {cursor} : gate'[queue[j].work_id] = gate[queue[j].work_id]
    BY <2>1, <2>2, <2>3 DEF UniqueWork
  <2>. QED
    BY <2>1, <2>2, <2>4 DEF PassedHeld
<1>3. CASE PassItem
  <2>1. /\ at = "ready" /\ cursor' = cursor + 1 /\ cursor \in Nat /\ queue' = queue
        /\ queue[cursor].phase # "Ready" /\ gate' = gate
    BY <1>3 DEF PassItem, TypeOK
  <2>2. DOMAIN queue \subseteq Nat
    BY LenProperties DEF TypeOK
  <2>. QED
    BY <2>1, <2>2 DEF PassedHeld
<1>h. CASE HoldItem
  <2>1. /\ at = "ready" /\ cursor' = cursor + 1 /\ cursor \in Nat /\ queue' = queue
        /\ cursor \in DOMAIN queue /\ HeldBy(queue[cursor].work_id) # {}
        /\ gate' = [gate EXCEPT ![queue[cursor].work_id] = GateOf(queue[cursor].work_id)]
    BY <1>h DEF HoldItem, TypeOK
  <2>2. /\ DOMAIN queue \subseteq Nat
        /\ \A j \in DOMAIN queue : queue[j].work_id \in Work
    BY LenProperties, ItemsOfQueue DEF TypeOK
  <2>3. GateOf(queue[cursor].work_id).held # {}
    BY <2>1 DEF GateOf
  <2>4. /\ gate'[queue[cursor].work_id].held # {}
        /\ \A w \in Work \ {queue[cursor].work_id} : gate'[w] = gate[w]
    BY <2>1, <2>2, <2>3 DEF TypeOK
  <2>. QED
    BY <2>1, <2>2, <2>4 DEF PassedHeld
<1>4. CASE at = "ready" /\ UNCHANGED <<cursor, queue, gate>>
  BY <1>4 DEF PassedHeld
<1>5. AdvancePending \/ StartItem \/ PassItem \/ HoldItem
        \/ (at = "ready" /\ UNCHANGED <<cursor, queue, gate>>)
  <2>1. CASE \E w \in Work : Join(w)
    BY <2>1, Zenon
    DEF Join, JoinLost, JoinWorktreeError, JoinCompleted, JoinFailed, Joined, loopVars
  <2>. QED
    BY <2>1
    DEF Next, LoopStep, vars, loopVars, Tick, Drain, CollectItem, CollectDone, CollectError,
        EndAdvance, Spawn, EndSpawn, EndJoin, DeferEvaluate, StartEvaluate, JudgeOk,
        JudgeFailed, OnDone, EndEvaluate, TaskEnds, DatabaseChanges, DependencyAdded,
        DependencyRemoved, RowChanges, Interrupt, Stopped, Restart
<1>. QED
  BY <1>1, <1>2, <1>3, <1>h, <1>4, <1>5

LEMMA PassEnds ==
    TypeOK /\ PassedHeld /\ [Next]_vars =>
      (at = "ready" /\ at' = "spawn" /\ CanSpawnInWorkspace(tracker) =>
         \A w \in WorkIn(queue, {"Ready"}) : gate[w].held # {})
<1> SUFFICES ASSUME TypeOK, PassedHeld, [Next]_vars, at = "ready", at' = "spawn",
                    CanSpawnInWorkspace(tracker), NEW w \in WorkIn(queue, {"Ready"})
             PROVE  gate[w].held # {}
  OBVIOUS
<1>1. EndAdvance
  BY DEF Next, LoopStep, vars, loopVars, Tick, Drain, CollectItem, CollectDone, CollectError,
         AdvancePending, StartItem, PassItem, HoldItem, Spawn, EndSpawn, Join, JoinLost,
         JoinWorktreeError, JoinCompleted, JoinFailed, Joined, EndJoin, DeferEvaluate,
         StartEvaluate, JudgeOk, JudgeFailed, OnDone, EndEvaluate, TaskEnds, DatabaseChanges,
         DependencyAdded, DependencyRemoved, RowChanges, Interrupt, Stopped, Restart
<1>2. cursor \notin DOMAIN queue
  BY <1>1 DEF EndAdvance
<1>3. \A j \in DOMAIN queue : j < cursor
  <2>1. DOMAIN queue = 1 .. Len(queue) /\ Len(queue) \in Nat /\ cursor \in Nat \ {0}
    BY LenProperties DEF TypeOK
  <2>. QED
    BY <1>2, <2>1
<1>. QED
  BY <1>3 DEF PassedHeld, WorkIn

(* Whatever the limits and the order of the queue: a slot stays free at the *)
(* end of the pass only if a dependency held everything that is left Ready. *)
THEOREM SlotsAreUsed == Spec => WorkConserving
<1>1. Init => SlotInv /\ PassedHeld
  BY SlotInvInductive DEF Init, PassedHeld
<1>2. SlotInv /\ PassedHeld /\ [Next]_vars => (SlotInv /\ PassedHeld)'
  BY SlotInvInductive, PassedStep DEF SlotInv
<1>3. SlotInv /\ PassedHeld /\ [Next]_vars =>
        [at = "ready" /\ at' = "spawn" /\ CanSpawnInWorkspace(tracker) =>
           \A w \in WorkIn(queue, {"Ready"}) : gate[w].held # {}]_vars
  BY PassEnds DEF SlotInv
<1>4. QED
  BY <1>1, <1>2, <1>3, PTL DEF Spec, WorkConserving
=============================================================================
