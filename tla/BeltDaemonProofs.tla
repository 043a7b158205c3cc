--------------------------- MODULE BeltDaemonProofs ---------------------------
(***************************************************************************)
(* Proofs about BeltDaemon for every value of its constants.               *)
(***************************************************************************)
EXTENDS BeltDaemon, TLAPS, FiniteSetTheorems, SequenceTheorems

-----------------------------------------------------------------------------
(* remove(i): the items before i stay where they are, those after it move  *)
(* up by one.                                                              *)
LEMMA RemoveAtProperties ==
    ASSUME NEW S, NEW q \in Seq(S), NEW i \in 1 .. Len(q)
    PROVE  /\ RemoveAt(q, i) \in Seq(S)
           /\ Len(RemoveAt(q, i)) = Len(q) - 1
           /\ \A j \in 1 .. Len(q) - 1 :
                RemoveAt(q, i)[j] = IF j < i THEN q[j] ELSE q[j + 1]
<1> DEFINE before == SubSeq(q, 1, i - 1)
           after  == SubSeq(q, i + 1, Len(q))
<1>1. Len(q) \in Nat
  OBVIOUS
<1>2. /\ before \in Seq(S)
      /\ Len(before) = i - 1
      /\ \A j \in 1 .. i - 1 : before[j] = q[j]
  BY <1>1
<1>3. /\ after \in Seq(S)
      /\ Len(after) = Len(q) - i
      /\ \A j \in 1 .. Len(q) - i : after[j] = q[i + j]
  BY <1>1
<1>4. RemoveAt(q, i) = before \o after
  BY DEF RemoveAt
<1> HIDE DEF before, after
<1>5. /\ before \o after \in Seq(S)
      /\ Len(before \o after) = Len(before) + Len(after)
      /\ \A j \in 1 .. Len(before) + Len(after) :
           (before \o after)[j] =
             IF j <= Len(before) THEN before[j] ELSE after[j - Len(before)]
  BY <1>2, <1>3, ConcatProperties, Zenon
<1>6. Len(before) + Len(after) = Len(q) - 1
  BY <1>1, <1>2, <1>3
<1>7. ASSUME NEW j \in 1 .. Len(q) - 1
      PROVE  (before \o after)[j] = IF j < i THEN q[j] ELSE q[j + 1]
  BY <1>1, <1>2, <1>3, <1>5, <1>6
<1>8. QED
  BY <1>4, <1>5, <1>6, <1>7

(* A sequence whose elements are replaced one by one is a sequence. *)
LEMMA MappedSeq ==
    ASSUME NEW S, NEW q \in Seq(S), NEW f,
           f = [i \in DOMAIN q |-> f[i]],
           \A i \in DOMAIN q : f[i] \in S
    PROVE  /\ f \in Seq(S)
           /\ Len(f) = Len(q)
           /\ DOMAIN f = DOMAIN q
<1>1. DOMAIN q = 1 .. Len(q) /\ Len(q) \in Nat
  BY LenProperties
<1>2. f \in [1 .. Len(q) -> S]
  BY <1>1
<1>3. f \in Seq(S)
  BY <1>1, <1>2, IsASeq
<1>4. QED
  BY <1>1, <1>2, <1>3, LenProperties

LEMMA ItemsOfQueue ==
    ASSUME NEW q \in Seq(QueueItem), NEW i \in DOMAIN q
    PROVE  /\ q[i] \in QueueItem
           /\ q[i].work_id \in Work
           /\ q[i].phase \in QueuePhase
           /\ i \in 1 .. Len(q)
           /\ Len(q) \in Nat
<1>1. i \in 1 .. Len(q) /\ Len(q) \in Nat
  BY LenProperties
<1>2. q[i] \in QueueItem
  BY <1>1, ElementOfSeq
<1>3. QED
  BY <1>1, <1>2 DEF QueueItem

-----------------------------------------------------------------------------
(* Types.                                                                  *)

LEMMA NewItemType == ASSUME NEW w \in Work PROVE NewItem(w) \in QueueItem
  BY DEF NewItem, QueueItem, QueuePhase, HitlReason

LEMMA TransitType ==
    ASSUME NEW from \in QueuePhase, NEW to \in QueuePhase
    PROVE  Transit(from, to) \in QueuePhase
  BY DEF Transit

LEMMA AdmittedType ==
    ASSUME NEW item \in QueueItem, NEW verdict \in {"clear", "blocked", "conflict"}
    PROVE  Admitted(item, verdict) \in QueueItem
<1>1. item.phase \in QueuePhase
  BY DEF QueueItem
<1>2. /\ Transit(item.phase, "Ready") \in QueuePhase
      /\ Transit(Transit(item.phase, "Ready"), "Hitl") \in QueuePhase
  BY <1>1, TransitType DEF QueuePhase
<1>3. "spec_conflict" \in HitlReason
  BY DEF HitlReason
<1>4. QED
  BY <1>2, <1>3 DEF Admitted, QueueItem

LEMMA TrackerTypes ==
    ASSUME NEW t \in Tracker
    PROVE  /\ Track(t) \in Tracker
           /\ Release(t) \in Tracker
           /\ TrackEvaluate(t) \in Tracker
           /\ ReleaseEvaluate(t) \in Tracker
<1>1. /\ t.workspace \in Nat /\ t.total \in Nat /\ t.evaluates \in Nat
      /\ \A n \in Nat : SaturatingPred(n) \in Nat /\ n + 1 \in Nat
  BY DEF Tracker, SaturatingPred
<1>2. Track(t) \in Tracker /\ TrackEvaluate(t) \in Tracker
  BY <1>1 DEF Track, TrackEvaluate, Tracker
<1>3. Release(t) \in Tracker /\ ReleaseEvaluate(t) \in Tracker
  BY <1>1 DEF Release, ReleaseEvaluate, Tracker
<1>4. QED
  BY <1>2, <1>3

LEMMA BumpType ==
    ASSUME NEW n \in 0 .. HistoryCap PROVE Bump(n) \in 0 .. HistoryCap
  BY ConstantsAssumption DEF Bump

LEMMA EscalatedType ==
    ASSUME queue \in Seq(QueueItem), NEW w \in Work, NEW action
    PROVE  Escalated(w, action) \in Seq(QueueItem)
<1>1. NewItem(w) \in QueueItem
  BY NewItemType
<1>2. [work_id |-> w, phase |-> "Hitl", hitl_reason |-> "retry_max_exceeded"] \in QueueItem
  BY DEF QueueItem, QueuePhase, HitlReason
<1>3. QED
  BY <1>1, <1>2 DEF Escalated

LEMMA GateTypes ==
    /\ Unread \in GateRead
    /\ \A w : GateOf(w) \in GateRead
<1>1. Unread \in GateRead
  BY DEF Unread, GateRead
<1>2. ASSUME NEW w PROVE GateOf(w) \in GateRead
  <2>1. DependenciesOf(w) \in SUBSET DepTargets /\ HeldBy(w) \in SUBSET DepTargets
    BY DEF DependenciesOf, HeldBy
  <2>. QED
    BY <2>1 DEF GateOf, GateRead
<1>. QED
  BY <1>1, <1>2

LEMMA TypeInit == Init => TypeOK
  BY ConstantsAssumption, GateTypes
  DEF Init, TypeOK, Location, TaskState, Tracker, NewTracker

LEMMA TypeStep == TypeOK /\ [Next]_vars => TypeOK'
<1> SUFFICES ASSUME TypeOK, [Next]_vars PROVE TypeOK'
  OBVIOUS
<1> USE ConstantsAssumption DEF TypeOK, Location, loopVars, historyVars, outsideVars
<1>1. CASE Tick \/ Drain \/ CollectDone \/ CollectError \/ PassItem \/ EndAdvance
  BY <1>1 DEF Tick, Drain, CollectDone, CollectError, PassItem, EndAdvance
<1>h. CASE HoldItem
  <2>1. gate' = [gate EXCEPT ![queue[cursor].work_id] = GateOf(queue[cursor].work_id)]
    BY <1>h DEF HoldItem
  <2>2. GateOf(queue[cursor].work_id) \in GateRead
    BY GateTypes
  <2>3. gate' \in [Work -> GateRead]
    BY <2>1, <2>2
  <2>. QED
    BY <1>h, <2>3 DEF HoldItem
<1>2. CASE EndSpawn \/ EndJoin \/ DeferEvaluate \/ Interrupt \/ Stopped
  <2>1. CASE EndJoin
    BY <2>1, GateTypes DEF EndJoin
  <2>. QED
    BY <1>2, <2>1 DEF EndSpawn, DeferEvaluate, Interrupt, Stopped, vars
<1>3. ASSUME NEW w \in Work, CollectItem(w) PROVE TypeOK'
  BY <1>3, NewItemType DEF CollectItem
<1>4. CASE AdvancePending
  <2>1. PICK verdict \in [Gated -> {"clear", "blocked", "conflict"}] :
          queue' = [i \in DOMAIN queue |->
                      IF queue[i].phase # "Pending" THEN queue[i]
                      ELSE Admitted(queue[i],
                             IF queue[i].work_id \in Gated
                             THEN verdict[queue[i].work_id] ELSE "clear")]
    BY <1>4 DEF AdvancePending
  <2>2. ASSUME NEW i \in DOMAIN queue PROVE queue'[i] \in QueueItem
    <3>1. queue[i] \in QueueItem
      BY ItemsOfQueue
    <3>2. (IF queue[i].work_id \in Gated THEN verdict[queue[i].work_id] ELSE "clear")
             \in {"clear", "blocked", "conflict"}
      OBVIOUS
    <3>3. QED
      BY <2>1, <3>1, <3>2, AdmittedType
  <2>3. queue' = [i \in DOMAIN queue |-> queue'[i]]
    BY <2>1
  <2>4. queue' \in Seq(QueueItem)
    BY <2>2, <2>3, MappedSeq
  <2>5. QED
    BY <1>4, <2>4 DEF AdvancePending
<1>5. CASE StartItem
  <2>1. cursor \in DOMAIN queue /\ queue[cursor] \in QueueItem
    BY <1>5, ItemsOfQueue DEF StartItem
  <2>2. [queue[cursor] EXCEPT !.phase = Transit(@, "Running")] \in QueueItem
    BY <2>1, TransitType DEF QueueItem, QueuePhase
  <2>3. queue' \in Seq(QueueItem)
    BY <1>5, <2>1, <2>2, ExceptSeq DEF StartItem
  <2>4. QED
    <3>1. \/ gate' = [gate EXCEPT ![queue[cursor].work_id] = GateOf(queue[cursor].work_id)]
          \/ gate' = [gate EXCEPT ![queue[cursor].work_id] = Unread]
      BY <1>5 DEF StartItem
    <3>2. GateOf(queue[cursor].work_id) \in GateRead /\ Unread \in GateRead
      BY GateTypes
    <3>3. gate' \in [Work -> GateRead]
      BY <3>1, <3>2
    <3>. QED
      BY <1>5, <2>3, <3>3, TrackerTypes DEF StartItem
<1>6. ASSUME NEW i \in DOMAIN queue, Spawn(i) PROVE TypeOK'
  <2>1. queue' \in Seq(QueueItem)
    BY <1>6, ItemsOfQueue, RemoveAtProperties DEF Spawn
  <2>2. task' \in [Work -> TaskState]
    BY <1>6 DEF Spawn, TaskState, QueueItem
  <2>3. QED
    BY <1>6, <2>1, <2>2 DEF Spawn
<1>7. ASSUME NEW w \in Work, TaskEnds(w) PROVE TypeOK'
  BY <1>7 DEF TaskEnds, TaskState
<1>8. ASSUME NEW w \in Work, Join(w) PROVE TypeOK'
  <2>1. CASE JoinLost(w)
    BY <2>1 DEF JoinLost, Joined, TaskState
  <2>2. CASE JoinWorktreeError(w)
    BY <2>2, TrackerTypes DEF JoinWorktreeError, Joined, TaskState
  <2>3. CASE JoinCompleted(w)
    <3>1. [work_id |-> w, phase |-> Transit("Running", "Completed"),
           hitl_reason |-> "none"] \in QueueItem
      BY TransitType DEF QueueItem, QueuePhase, HitlReason
    <3>2. QED
      BY <2>3, <3>1, TrackerTypes DEF JoinCompleted, Joined, TaskState
  <2>4. CASE JoinFailed(w)
    <3>1. queue' \in Seq(QueueItem)
      BY <2>4, EscalatedType DEF JoinFailed
    <3>2. /\ failedEntries' \in [States -> 0 .. HistoryCap]
          /\ failedEvents' \in [Work -> 0 .. HistoryCap]
      BY <2>4, BumpType DEF JoinFailed
    <3>3. QED
      BY <2>4, <3>1, <3>2, TrackerTypes DEF JoinFailed, Joined, TaskState
  <2>5. QED
    BY <1>8, <2>1, <2>2, <2>3, <2>4 DEF Join
<1>9. CASE StartEvaluate
  BY <1>9, TrackerTypes DEF StartEvaluate, WorkIn
<1>10. CASE JudgeOk
  BY <1>10 DEF JudgeOk
<1>11. CASE JudgeFailed
  <2>1. evalFailures' \in [Work -> 0 .. MaxEvalFailures]
    <3>1. \A w \in Work : RecordEvalFailure(w) \in 0 .. MaxEvalFailures
      BY DEF RecordEvalFailure
    <3>2. QED
      BY <1>11, <3>1 DEF JudgeFailed
  <2>2. ASSUME NEW i \in DOMAIN queue PROVE queue'[i] \in QueueItem
    <3>1. queue[i] \in QueueItem
      BY ItemsOfQueue
    <3>2. [queue[i] EXCEPT !.phase = Transit(@, "Hitl"),
                           !.hitl_reason = "evaluate_failure"] \in QueueItem
      BY <3>1, TransitType DEF QueueItem, QueuePhase, HitlReason
    <3>3. QED
      BY <1>11, <3>1, <3>2 DEF JudgeFailed
  <2>3. queue' = [i \in DOMAIN queue |-> queue'[i]]
    BY <1>11 DEF JudgeFailed
  <2>4. queue' \in Seq(QueueItem)
    BY <2>2, <2>3, MappedSeq
  <2>5. QED
    BY <1>11, <2>1, <2>4, TrackerTypes DEF JudgeFailed
<1>12. ASSUME NEW i \in DOMAIN queue, OnDone(i) PROVE TypeOK'
  <2>1. queue' \in Seq(QueueItem)
    BY <1>12, ItemsOfQueue, RemoveAtProperties DEF OnDone
  <2>2. queue[i].work_id \in Work
    BY ItemsOfQueue
  <2>3. failedEntries' \in [States -> 0 .. HistoryCap]
    <3>1. \A s \in States : Bump(failedEntries[s]) \in 0 .. HistoryCap
      BY BumpType
    <3>2. PICK n \in 0 .. HistoryCap :
            failedEntries' = [failedEntries EXCEPT ![StateOf(queue[i].work_id)] = n]
                \/ failedEntries' = failedEntries
      BY <1>12, <3>1 DEF OnDone
    <3>3. QED
      BY <3>2
  <2>4. QED
    BY <1>12, <2>1, <2>2, <2>3 DEF OnDone
<1>13. CASE EndEvaluate
  BY <1>13, TrackerTypes DEF EndEvaluate
<1>14. CASE DatabaseChanges
  <2>1. ASSUME NEW dep \in DepTargets, RowChanges(dep) PROVE TypeOK'
    BY <2>1 DEF RowChanges
  <2>2. ASSUME NEW dep \in Deps, DependencyAdded(dep) \/ DependencyRemoved(dep) PROVE TypeOK'
    BY <2>2 DEF DependencyAdded, DependencyRemoved
  <2>. QED
    BY <1>14, <2>1, <2>2 DEF DatabaseChanges
<1>15. CASE Restart
  BY <1>15, GateTypes DEF Restart, TaskState, Tracker, NewTracker
<1>16. CASE UNCHANGED vars
  BY <1>16 DEF vars
<1>17. QED
  BY <1>1, <1>h, <1>2, <1>3, <1>4, <1>5, <1>6, <1>7, <1>8, <1>9, <1>10, <1>11, <1>12,
     <1>13, <1>14, <1>15, <1>16
  DEF Next, LoopStep

(* Every variable keeps its type. *)
THEOREM TypeCorrect == Spec => []TypeOK
  BY TypeInit, TypeStep, PTL DEF Spec

-----------------------------------------------------------------------------
(* What the queue operations do to the set of work in some phases and to   *)
(* the uniqueness of work_ids.                                             *)

Distinct(q) == \A i, j \in DOMAIN q : q[i].work_id = q[j].work_id => i = j

LEMMA AppendItem ==
    ASSUME NEW q \in Seq(QueueItem), NEW item \in QueueItem
    PROVE  /\ DOMAIN Append(q, item) = DOMAIN q \cup {Len(q) + 1}
           /\ \A i \in DOMAIN q : Append(q, item)[i] = q[i] /\ i # Len(q) + 1
           /\ Append(q, item)[Len(q) + 1] = item
<1>1. DOMAIN q = 1 .. Len(q) /\ Len(q) \in Nat
  BY LenProperties
<1>2. DOMAIN Append(q, item) = 1 .. Len(q) + 1
  BY AppendProperties, LenProperties
<1>3. QED
  BY <1>1, <1>2, AppendProperties

LEMMA RunningInAppend ==
    ASSUME NEW q \in Seq(QueueItem), NEW item \in QueueItem, item.phase # "Running"
    PROVE  WorkIn(Append(q, item), {"Running"}) = WorkIn(q, {"Running"})
  BY AppendItem DEF WorkIn

LEMMA RemoveItem ==
    ASSUME NEW q \in Seq(QueueItem), NEW i \in DOMAIN q
    PROVE  \A j \in DOMAIN RemoveAt(q, i) :
             \E k \in DOMAIN q \ {i} :
               /\ RemoveAt(q, i)[j] = q[k]
               /\ k = IF j < i THEN j ELSE j + 1
<1>1. DOMAIN q = 1 .. Len(q) /\ Len(q) \in Nat
  BY LenProperties
<1>2. DOMAIN RemoveAt(q, i) = 1 .. Len(q) - 1
  BY <1>1, RemoveAtProperties, LenProperties
<1>3. ASSUME NEW j \in DOMAIN RemoveAt(q, i)
      PROVE  LET k == IF j < i THEN j ELSE j + 1
             IN  k \in DOMAIN q \ {i} /\ RemoveAt(q, i)[j] = q[k]
  <2>1. j \in 1 .. Len(q) - 1
    BY <1>2
  <2>2. RemoveAt(q, i)[j] = IF j < i THEN q[j] ELSE q[j + 1]
    BY <1>1, <2>1, RemoveAtProperties
  <2>3. QED
    BY <1>1, <2>1, <2>2
<1>4. QED
  BY <1>3

LEMMA WorkInRemove ==
    ASSUME NEW q \in Seq(QueueItem), NEW i \in DOMAIN q, NEW phases
    PROVE  WorkIn(RemoveAt(q, i), phases) \subseteq WorkIn(q, phases)
  BY RemoveItem DEF WorkIn

LEMMA DistinctRemove ==
    ASSUME NEW q \in Seq(QueueItem), NEW i \in DOMAIN q, Distinct(q)
    PROVE  /\ Distinct(RemoveAt(q, i))
           /\ \A j \in DOMAIN RemoveAt(q, i) : RemoveAt(q, i)[j].work_id # q[i].work_id
<1>1. DOMAIN q = 1 .. Len(q) /\ Len(q) \in Nat
  BY LenProperties
<1>2. DOMAIN RemoveAt(q, i) = 1 .. Len(q) - 1
  BY <1>1, RemoveAtProperties, LenProperties
<1>3. Distinct(RemoveAt(q, i))
  <2> SUFFICES ASSUME NEW j \in DOMAIN RemoveAt(q, i), NEW k \in DOMAIN RemoveAt(q, i),
                      RemoveAt(q, i)[j].work_id = RemoveAt(q, i)[k].work_id
               PROVE  j = k
    BY DEF Distinct
  <2>1. PICK jj \in DOMAIN q \ {i} : /\ RemoveAt(q, i)[j] = q[jj]
                                     /\ jj = IF j < i THEN j ELSE j + 1
    BY RemoveItem
  <2>2. PICK kk \in DOMAIN q \ {i} : /\ RemoveAt(q, i)[k] = q[kk]
                                     /\ kk = IF k < i THEN k ELSE k + 1
    BY RemoveItem
  <2>3. jj = kk
    BY <2>1, <2>2 DEF Distinct
  <2>4. QED
    BY <1>1, <1>2, <2>1, <2>2, <2>3
<1>4. \A j \in DOMAIN RemoveAt(q, i) : RemoveAt(q, i)[j].work_id # q[i].work_id
  BY RemoveItem DEF Distinct
<1>5. QED
  BY <1>3, <1>4

LEMMA DistinctAppend ==
    ASSUME NEW q \in Seq(QueueItem), NEW item \in QueueItem, Distinct(q),
           \A i \in DOMAIN q : q[i].work_id # item.work_id
    PROVE  Distinct(Append(q, item))
  BY AppendItem DEF Distinct

(* A pass over the queue that keeps every work_id. *)
LEMMA DistinctMapped ==
    ASSUME NEW q \in Seq(QueueItem), NEW r, Distinct(q), DOMAIN r = DOMAIN q,
           \A i \in DOMAIN q : r[i].work_id = q[i].work_id
    PROVE  Distinct(r)
  BY DEF Distinct

-----------------------------------------------------------------------------
(* Items are Running, and tasks exist, only within the stages of a tick    *)
(* that execute.                                                           *)

(* No pass over the queue makes an item Running except StartItem. *)
LEMMA AdmittedNotRunning ==
    ASSUME NEW item \in QueueItem, item.phase = "Pending",
           NEW verdict \in {"clear", "blocked", "conflict"}
    PROVE  /\ Admitted(item, verdict).phase # "Running"
           /\ Admitted(item, verdict).work_id = item.work_id
  BY DEF Admitted, Transit, ValidTransitions, QueueItem

(* The queue after the first advance pass. *)
LEMMA AdvancePendingItems ==
    ASSUME TypeOK, AdvancePending
    PROVE  /\ DOMAIN queue' = DOMAIN queue
           /\ \A i \in DOMAIN queue :
                /\ queue'[i].work_id = queue[i].work_id
                /\ queue'[i].phase = "Running" => queue[i].phase = "Running"
<1>1. PICK verdict \in [Gated -> {"clear", "blocked", "conflict"}] :
        queue' = [i \in DOMAIN queue |->
                    IF queue[i].phase # "Pending" THEN queue[i]
                    ELSE Admitted(queue[i],
                           IF queue[i].work_id \in Gated
                           THEN verdict[queue[i].work_id] ELSE "clear")]
  BY DEF AdvancePending
<1>2. ASSUME NEW i \in DOMAIN queue
      PROVE  /\ queue'[i].work_id = queue[i].work_id
             /\ queue'[i].phase = "Running" => queue[i].phase = "Running"
  <2>1. queue[i] \in QueueItem
    BY ItemsOfQueue DEF TypeOK
  <2>2. (IF queue[i].work_id \in Gated THEN verdict[queue[i].work_id] ELSE "clear")
           \in {"clear", "blocked", "conflict"}
    OBVIOUS
  <2>3. QED
    BY <1>1, <2>1, <2>2, AdmittedNotRunning
<1>3. QED
  BY <1>1, <1>2

(* The queue after failed evaluations. *)
LEMMA JudgeFailedItems ==
    ASSUME TypeOK, JudgeFailed
    PROVE  /\ DOMAIN queue' = DOMAIN queue
           /\ \A i \in DOMAIN queue :
                /\ queue'[i].work_id = queue[i].work_id
                /\ queue'[i].phase = "Running" => queue[i].phase = "Running"
<1>1. ASSUME NEW i \in DOMAIN queue
      PROVE  /\ queue'[i].work_id = queue[i].work_id
             /\ queue'[i].phase = "Running" => queue[i].phase = "Running"
  <2>1. queue[i] \in QueueItem
    BY ItemsOfQueue DEF TypeOK
  <2>2. LET item == [queue[i] EXCEPT !.phase = Transit(@, "Hitl"),
                                     !.hitl_reason = "evaluate_failure"]
        IN  /\ item.work_id = queue[i].work_id
            /\ item.phase = Transit(queue[i].phase, "Hitl")
    BY <2>1 DEF QueueItem
  <2>3. Transit(queue[i].phase, "Hitl") \in {queue[i].phase, "Hitl"}
    BY DEF Transit
  <2>4. QED
    BY <2>2, <2>3 DEF JudgeFailed
<1>2. QED
  BY <1>1 DEF JudgeFailed

LEMMA MappedWorkIn ==
    ASSUME NEW q, NEW r, DOMAIN r = DOMAIN q,
           \A i \in DOMAIN q : /\ r[i].work_id = q[i].work_id
                               /\ r[i].phase = "Running" => q[i].phase = "Running"
    PROVE  WorkIn(r, {"Running"}) \subseteq WorkIn(q, {"Running"})
  BY DEF WorkIn

(* What joining a task does to the queue: at most one item of that work is *)
(* appended, and it is not Running.                                        *)
LEMMA JoinQueue ==
    ASSUME TypeOK, NEW w \in Work, Join(w)
    PROVE  \/ queue' = queue
           \/ \E item \in QueueItem : /\ queue' = Append(queue, item)
                                      /\ item.work_id = w
                                      /\ item.phase # "Running"
<1>1. CASE JoinLost(w) \/ JoinWorktreeError(w)
  BY <1>1 DEF JoinLost, JoinWorktreeError
<1>2. CASE JoinCompleted(w)
  <2>1. Transit("Running", "Completed") = "Completed"
    BY DEF Transit, ValidTransitions
  <2>2. [work_id |-> w, phase |-> "Completed", hitl_reason |-> "none"] \in QueueItem
    BY DEF QueueItem, QueuePhase, HitlReason
  <2>3. QED
    BY <1>2, <2>1, <2>2 DEF JoinCompleted
<1>3. CASE JoinFailed(w)
  <2>1. NewItem(w) \in QueueItem /\ NewItem(w).work_id = w /\ NewItem(w).phase # "Running"
    BY NewItemType DEF NewItem
  <2>2. [work_id |-> w, phase |-> "Hitl", hitl_reason |-> "retry_max_exceeded"] \in QueueItem
    BY DEF QueueItem, QueuePhase, HitlReason
  <2>3. QED
    BY <1>3, <2>1, <2>2 DEF JoinFailed, Escalated
<1>4. QED
  BY <1>1, <1>2, <1>3 DEF Join

LEMMA JoinRunning ==
    ASSUME TypeOK, NEW w \in Work, Join(w)
    PROVE  WorkIn(queue', {"Running"}) = WorkIn(queue, {"Running"})
<1>1. CASE queue' = queue
  BY <1>1 DEF WorkIn
<1>2. ASSUME NEW item \in QueueItem, queue' = Append(queue, item), item.phase # "Running"
      PROVE  WorkIn(queue', {"Running"}) = WorkIn(queue, {"Running"})
  <2>1. queue \in Seq(QueueItem)
    BY DEF TypeOK
  <2>2. QED
    BY <1>2, <2>1, RunningInAppend
<1>3. QED
  BY <1>1, <1>2, JoinQueue

LEMMA StagesInit == Init => ExecutionWithinTick
  BY DEF Init, ExecutionWithinTick, WorkIn

LEMMA StagesStep == TypeOK /\ ExecutionWithinTick /\ [Next]_vars => ExecutionWithinTick'
<1> SUFFICES ASSUME TypeOK, ExecutionWithinTick, [Next]_vars PROVE ExecutionWithinTick'
  OBVIOUS
<1> USE DEF ExecutionWithinTick, loopVars, historyVars, outsideVars
<1>1. CASE Tick \/ Drain \/ CollectDone \/ CollectError \/ PassItem \/ HoldItem \/ EndAdvance
  BY <1>1 DEF Tick, Drain, CollectDone, CollectError, PassItem, HoldItem, EndAdvance, WorkIn
<1>2. CASE EndSpawn \/ EndJoin \/ DeferEvaluate \/ Interrupt \/ Stopped
  BY <1>2 DEF EndSpawn, EndJoin, DeferEvaluate, Interrupt, Stopped, vars, WorkIn
<1>3. ASSUME NEW w \in Work, CollectItem(w) PROVE ExecutionWithinTick'
  <2>1. NewItem(w) \in QueueItem /\ NewItem(w).phase # "Running"
    BY NewItemType DEF NewItem
  <2>2. WorkIn(queue', {"Running"}) = WorkIn(queue, {"Running"})
    BY <1>3, <2>1, RunningInAppend DEF CollectItem, TypeOK
  <2>3. QED
    BY <1>3, <2>2 DEF CollectItem
<1>4. CASE AdvancePending
  BY <1>4 DEF AdvancePending
<1>5. CASE StartItem
  BY <1>5 DEF StartItem
<1>6. ASSUME NEW i \in DOMAIN queue, Spawn(i) PROVE ExecutionWithinTick'
  BY <1>6 DEF Spawn
<1>7. ASSUME NEW w \in Work, TaskEnds(w) PROVE ExecutionWithinTick'
  BY <1>7 DEF TaskEnds, WorkIn
<1>8. ASSUME NEW w \in Work, Join(w) PROVE ExecutionWithinTick'
  <2>1. at = "join" /\ at' = "join"
    BY <1>8 DEF Join, JoinLost, JoinWorktreeError, JoinCompleted, JoinFailed, Joined
  <2>2. WorkIn(queue', {"Running"}) = WorkIn(queue, {"Running"})
    BY <1>8, JoinRunning
  <2>3. QED
    BY <2>1, <2>2
<1>9. CASE StartEvaluate \/ JudgeOk \/ EndEvaluate
  BY <1>9 DEF StartEvaluate, JudgeOk, EndEvaluate, WorkIn
<1>10. CASE JudgeFailed
  <2>1. WorkIn(queue', {"Running"}) \subseteq WorkIn(queue, {"Running"})
    BY <1>10, JudgeFailedItems, MappedWorkIn
  <2>2. QED
    BY <1>10, <2>1 DEF JudgeFailed
<1>11. ASSUME NEW i \in DOMAIN queue, OnDone(i) PROVE ExecutionWithinTick'
  <2>1. WorkIn(queue', {"Running"}) \subseteq WorkIn(queue, {"Running"})
    BY <1>11, WorkInRemove DEF OnDone, TypeOK
  <2>2. QED
    BY <1>11, <2>1 DEF OnDone
<1>12. CASE DatabaseChanges
  BY <1>12 DEF DatabaseChanges, DependencyAdded, DependencyRemoved,
         RowChanges, WorkIn
<1>13. CASE Restart
  BY <1>13 DEF Restart, WorkIn
<1>14. CASE UNCHANGED vars
  BY <1>14 DEF vars, WorkIn
<1>15. QED
  BY <1>1, <1>2, <1>3, <1>4, <1>5, <1>6, <1>7, <1>8, <1>9, <1>10, <1>11, <1>12,
     <1>13, <1>14
  DEF Next, LoopStep

(* The select loop never sees an item Running or a task at work, so an     *)
(* interrupt there has nothing to wait for: drain_with_timeout returns at  *)
(* once and neither rolls back nor fails an item.                          *)
THEOREM ExecutionStaysWithinTick == Spec => []ExecutionWithinTick
<1>1. Init => TypeOK /\ ExecutionWithinTick
  BY TypeInit, StagesInit
<1>2. TypeOK /\ ExecutionWithinTick /\ [Next]_vars => (TypeOK /\ ExecutionWithinTick)'
  BY TypeStep, StagesStep
<1>3. QED
  BY <1>1, <1>2, PTL DEF Spec

-----------------------------------------------------------------------------
(* A work_id is in one place.                                              *)

IdleItems(q, t) == \A i \in DOMAIN q : t[q[i].work_id] = "idle"

LEMMA UniqueParts == UniqueWork <=> Distinct(queue) /\ IdleItems(queue, task)
  BY DEF UniqueWork, Distinct, IdleItems

LEMMA UniqueParts2 == UniqueWork' <=> Distinct(queue') /\ IdleItems(queue', task')
  BY DEF UniqueWork, Distinct, IdleItems

LEMMA UniqueInit == Init => UniqueWork
  BY DEF Init, UniqueWork

LEMMA UniqueStep ==
    TypeOK /\ ExecutionWithinTick /\ UniqueWork /\ [Next]_vars => UniqueWork'
<1> SUFFICES ASSUME TypeOK, ExecutionWithinTick, UniqueWork, [Next]_vars PROVE UniqueWork'
  OBVIOUS
<1> USE DEF loopVars, historyVars, outsideVars
<1>a. /\ queue \in Seq(QueueItem)
      /\ task \in [Work -> TaskState]
      /\ Distinct(queue) /\ IdleItems(queue, task)
      /\ \A i \in DOMAIN queue : queue[i].work_id \in Work
  BY UniqueParts, ItemsOfQueue DEF TypeOK
<1>1. CASE Tick \/ Drain \/ CollectDone \/ CollectError \/ PassItem \/ HoldItem \/ EndAdvance
  BY <1>1 DEF Tick, Drain, CollectDone, CollectError, PassItem, HoldItem, EndAdvance, UniqueWork
<1>2. CASE EndSpawn \/ EndJoin \/ DeferEvaluate \/ Interrupt \/ Stopped
  BY <1>2 DEF EndSpawn, EndJoin, DeferEvaluate, Interrupt, Stopped, vars, UniqueWork
<1>3. ASSUME NEW w \in Work, CollectItem(w) PROVE UniqueWork'
  <2>1. NewItem(w) \in QueueItem /\ NewItem(w).work_id = w
    BY NewItemType DEF NewItem
  <2>2. \A i \in DOMAIN queue : queue[i].work_id # w
    BY <1>3, ItemsOfQueue DEF CollectItem, InQueue, WorkIn, TypeOK
  <2>3. Distinct(queue')
    BY <1>3, <1>a, <2>1, <2>2, DistinctAppend DEF CollectItem
  <2>4. task[w] = "idle" /\ task' = task
    BY <1>3 DEF CollectItem, ExecutionWithinTick
  <2>5. IdleItems(queue', task')
    BY <1>3, <1>a, <2>1, <2>4, AppendItem DEF CollectItem, IdleItems
  <2>6. QED
    BY <2>3, <2>5, UniqueParts2
<1>4. CASE AdvancePending
  <2>1. Distinct(queue') /\ IdleItems(queue', task')
    BY <1>4, <1>a, AdvancePendingItems, DistinctMapped DEF AdvancePending, IdleItems
  <2>2. QED
    BY <2>1, UniqueParts2
<1>5. CASE StartItem
  <2>1. /\ DOMAIN queue' = DOMAIN queue
        /\ \A i \in DOMAIN queue : queue'[i].work_id = queue[i].work_id
    BY <1>5, <1>a, ItemsOfQueue DEF StartItem, QueueItem
  <2>2. Distinct(queue') /\ IdleItems(queue', task')
    BY <1>5, <1>a, <2>1, DistinctMapped DEF StartItem, IdleItems
  <2>3. QED
    BY <2>2, UniqueParts2
<1>6. ASSUME NEW i \in DOMAIN queue, Spawn(i) PROVE UniqueWork'
  <2>1. /\ queue' = RemoveAt(queue, i)
        /\ task' = [task EXCEPT ![queue[i].work_id] = "working"]
    BY <1>6 DEF Spawn
  <2>2. /\ Distinct(queue')
        /\ \A j \in DOMAIN queue' : queue'[j].work_id # queue[i].work_id
    BY <1>a, <2>1, DistinctRemove
  <2>3. IdleItems(queue', task')
    BY <1>a, <2>1, <2>2, RemoveItem DEF IdleItems
  <2>4. QED
    BY <2>2, <2>3, UniqueParts2
<1>7. ASSUME NEW w \in Work, TaskEnds(w) PROVE UniqueWork'
  <2>1. /\ task[w] = "working" /\ queue' = queue
        /\ \A v \in Work \ {w} : task'[v] = task[v]
    BY <1>7, <1>a DEF TaskEnds
  <2>2. IdleItems(queue', task')
    BY <1>a, <2>1 DEF IdleItems
  <2>3. QED
    BY <1>a, <2>1, <2>2, UniqueParts2
<1>8. ASSUME NEW w \in Work, Join(w) PROVE UniqueWork'
  <2>1. task[w] # "idle" /\ task' = [task EXCEPT ![w] = "idle"]
    BY <1>8 DEF Join, JoinLost, JoinWorktreeError, JoinCompleted, JoinFailed, Joined
  <2>2. \A i \in DOMAIN queue : queue[i].work_id # w
    BY <1>a, <2>1 DEF IdleItems
  <2>3. CASE queue' = queue
    <3>1. IdleItems(queue', task')
      BY <1>a, <2>1, <2>3 DEF IdleItems
    <3>2. QED
      BY <1>a, <2>3, <3>1, UniqueParts2
  <2>4. ASSUME NEW item \in QueueItem, queue' = Append(queue, item), item.work_id = w
        PROVE  UniqueWork'
    <3>1. Distinct(queue')
      BY <1>a, <2>2, <2>4, DistinctAppend
    <3>2. IdleItems(queue', task')
      BY <1>a, <2>1, <2>4, AppendItem DEF IdleItems
    <3>3. QED
      BY <3>1, <3>2, UniqueParts2
  <2>5. QED
    BY <1>8, <2>3, <2>4, JoinQueue
<1>9. CASE StartEvaluate \/ JudgeOk \/ EndEvaluate
  BY <1>9 DEF StartEvaluate, JudgeOk, EndEvaluate, UniqueWork
<1>10. CASE JudgeFailed
  <2>1. Distinct(queue') /\ IdleItems(queue', task')
    BY <1>10, <1>a, JudgeFailedItems, DistinctMapped DEF JudgeFailed, IdleItems
  <2>2. QED
    BY <2>1, UniqueParts2
<1>11. ASSUME NEW i \in DOMAIN queue, OnDone(i) PROVE UniqueWork'
  <2>1. queue' = RemoveAt(queue, i) /\ task' = task
    BY <1>11 DEF OnDone
  <2>2. Distinct(queue')
    BY <1>a, <2>1, DistinctRemove
  <2>3. IdleItems(queue', task')
    BY <1>a, <2>1, RemoveItem DEF IdleItems
  <2>4. QED
    BY <2>2, <2>3, UniqueParts2
<1>12. CASE DatabaseChanges
  BY <1>12 DEF DatabaseChanges, DependencyAdded, DependencyRemoved,
         RowChanges, UniqueWork
<1>13. CASE Restart
  BY <1>13 DEF Restart, UniqueWork
<1>14. CASE UNCHANGED vars
  BY <1>14 DEF vars, UniqueWork
<1>15. QED
  BY <1>1, <1>2, <1>3, <1>4, <1>5, <1>6, <1>7, <1>8, <1>9, <1>10, <1>11, <1>12,
     <1>13, <1>14
  DEF Next, LoopStep

(* No work_id is ever in two places: two items of the queue, or an item    *)
(* and a task.                                                             *)
THEOREM WorkStaysUnique == Spec => []UniqueWork
<1>1. Init => TypeOK /\ ExecutionWithinTick /\ UniqueWork
  BY TypeInit, StagesInit, UniqueInit
<1>2. TypeOK /\ ExecutionWithinTick /\ UniqueWork /\ [Next]_vars
        => (TypeOK /\ ExecutionWithinTick /\ UniqueWork)'
  BY TypeStep, StagesStep, UniqueStep
<1>3. QED
  BY <1>1, <1>2, PTL DEF Spec

-----------------------------------------------------------------------------
(* No execution without a slot, and no more slots than the limits.         *)

LEMMA ExecutingFinite ==
    /\ IsFiniteSet(Executing) /\ Cardinality(Executing) \in Nat
    /\ IsFiniteSet(Executing') /\ Cardinality(Executing') \in Nat
<1>1. Executing \subseteq Work /\ Executing' \subseteq Work
  BY DEF Executing, WorkIn
<1>2. QED
  BY <1>1, ConstantsAssumption, FS_Subset, FS_CardinalityType

Judging(location) == location \in {"judge", "on_done"}

(* A step that leaves the tracker alone and starts no execution. *)
LEMMA SlotsKept ==
    ASSUME SlotsCovered, TypeOK, tracker' = tracker, Executing' \subseteq Executing,
           Judging(at') <=> Judging(at)
    PROVE  SlotsCovered'
<1>1. Cardinality(Executing') <= Cardinality(Executing)
  BY ExecutingFinite, FS_Subset
<1>2. QED
  BY <1>1, ExecutingFinite DEF SlotsCovered, Judging, TypeOK, Tracker

(* A step that starts one execution. *)
LEMMA StartedOne ==
    ASSUME NEW w, Executing' \subseteq Executing \cup {w}
    PROVE  Cardinality(Executing') <= Cardinality(Executing) + 1
<1>1. /\ IsFiniteSet(Executing \cup {w})
      /\ Cardinality(Executing \cup {w}) <= Cardinality(Executing) + 1
  BY ExecutingFinite, FS_AddElement
<1>2. Cardinality(Executing') <= Cardinality(Executing \cup {w})
      /\ Cardinality(Executing \cup {w}) \in Nat
  BY <1>1, FS_Subset, FS_CardinalityType
<1>3. QED
  BY <1>1, <1>2, ExecutingFinite

(* Joining a task that gives its slot back. *)
LEMMA SlotReturned ==
    ASSUME SlotsCovered, TypeOK, tracker' = Release(tracker), at' = at, at = "join",
           NEW w \in Executing, Executing' \subseteq Executing \ {w}
    PROVE  SlotsCovered'
<1>1. Cardinality(Executing \ {w}) = Cardinality(Executing) - 1
  BY ExecutingFinite, FS_RemoveElement
<1>2. Cardinality(Executing') <= Cardinality(Executing \ {w})
  BY ExecutingFinite, FS_RemoveElement, FS_Subset
<1>3. Cardinality(Executing') + 1 <= tracker.workspace
  BY <1>1, <1>2, ExecutingFinite DEF SlotsCovered, TypeOK, Tracker
<1>4. /\ tracker'.workspace = tracker.workspace - 1
      /\ tracker'.total = tracker.total - 1
      /\ tracker'.evaluates = tracker.evaluates
  BY <1>3, ExecutingFinite DEF SlotsCovered, TypeOK, Tracker, Release, SaturatingPred
<1>5. QED
  BY <1>3, <1>4, ExecutingFinite, LimitsAssumption DEF SlotsCovered, TypeOK, Tracker

LEMMA SlotsInit == Init => SlotsCovered
<1> SUFFICES ASSUME Init PROVE SlotsCovered
  OBVIOUS
<1>1. Executing = {}
  BY DEF Init, Executing, WorkIn
<1>2. Cardinality(Executing) = 0
  BY <1>1, FS_EmptySet
<1>3. QED
  BY <1>2, LimitsAssumption DEF Init, SlotsCovered, NewTracker

LEMMA SlotsStep == SlotInv /\ [Next]_vars => SlotsCovered'
<1> SUFFICES ASSUME SlotInv, [Next]_vars PROVE SlotsCovered'
  OBVIOUS
<1> USE DEF loopVars, historyVars, outsideVars
<1>a. /\ TypeOK /\ UniqueWork /\ ExecutionWithinTick /\ SlotsCovered
      /\ queue \in Seq(QueueItem)
      /\ task \in [Work -> TaskState]
      /\ \A i \in DOMAIN queue : queue[i].work_id \in Work
  BY ItemsOfQueue DEF SlotInv, TypeOK
<1>1. CASE Tick \/ Drain \/ CollectDone \/ CollectError \/ PassItem \/ HoldItem \/ EndAdvance
  <2>1. tracker' = tracker /\ queue' = queue /\ task' = task /\ ~Judging(at) /\ ~Judging(at')
    BY <1>1 DEF Tick, Drain, CollectDone, CollectError, PassItem, HoldItem, EndAdvance, Judging
  <2>2. QED
    BY <1>a, <2>1, SlotsKept DEF Executing, WorkIn
<1>2. CASE EndSpawn \/ EndJoin \/ DeferEvaluate \/ Interrupt \/ Stopped
  <2>1. tracker' = tracker /\ queue' = queue /\ task' = task /\ ~Judging(at) /\ ~Judging(at')
    BY <1>2 DEF EndSpawn, EndJoin, DeferEvaluate, Interrupt, Stopped, vars, Judging
  <2>2. QED
    BY <1>a, <2>1, SlotsKept DEF Executing, WorkIn
<1>3. ASSUME NEW w \in Work, CollectItem(w) PROVE SlotsCovered'
  <2>1. NewItem(w) \in QueueItem /\ NewItem(w).phase # "Running"
    BY NewItemType DEF NewItem
  <2>2. /\ tracker' = tracker /\ task' = task /\ at' = at
        /\ queue' = Append(queue, NewItem(w))
    BY <1>3 DEF CollectItem
  <2>3. WorkIn(queue', {"Running"}) = WorkIn(queue, {"Running"})
    BY <1>a, <2>1, <2>2, RunningInAppend
  <2>4. QED
    BY <1>a, <2>2, <2>3, SlotsKept DEF Executing
<1>4. CASE AdvancePending
  <2>1. WorkIn(queue', {"Running"}) \subseteq WorkIn(queue, {"Running"})
    BY <1>a, <1>4, AdvancePendingItems, MappedWorkIn
  <2>2. QED
    BY <1>a, <1>4, <2>1, SlotsKept DEF AdvancePending, Executing, Judging
<1>5. CASE StartItem
  <2> DEFINE w == queue[cursor].work_id
  <2>1. w \in Work
    BY <1>a, <1>5 DEF StartItem
  <2>2. Executing' \subseteq Executing \cup {w}
    BY <1>a, <1>5, ItemsOfQueue DEF StartItem, Executing, WorkIn, QueueItem
  <2>3. Cardinality(Executing') <= Cardinality(Executing) + 1
    BY <2>2, StartedOne
  <2>4. /\ tracker'.workspace = tracker.workspace + 1
        /\ tracker'.total = tracker.total + 1
        /\ tracker'.evaluates = tracker.evaluates
    BY <1>a, <1>5 DEF StartItem, Track, TypeOK, Tracker
  <2>5. at' = at /\ tracker.workspace < WsLimit /\ tracker.total < MaxTotal
    BY <1>5 DEF StartItem, CanSpawnInWorkspace, CanSpawn
  <2>6. QED
    BY <1>a, <2>3, <2>4, <2>5, ExecutingFinite, LimitsAssumption
    DEF SlotsCovered, TypeOK, Tracker
<1>6. ASSUME NEW i \in DOMAIN queue, Spawn(i) PROVE SlotsCovered'
  <2>1. WorkIn(queue', {"Running"}) \subseteq WorkIn(queue, {"Running"})
    BY <1>a, <1>6, WorkInRemove DEF Spawn
  <2>2. queue[i].work_id \in WorkIn(queue, {"Running"})
    BY <1>a, <1>6 DEF Spawn, WorkIn
  <2>3. Executing' \subseteq Executing
    BY <1>a, <1>6, <2>1, <2>2 DEF Spawn, Executing
  <2>4. QED
    BY <1>a, <1>6, <2>3, SlotsKept DEF Spawn
<1>7. ASSUME NEW w \in Work, TaskEnds(w) PROVE SlotsCovered'
  <2>1. /\ tracker' = tracker /\ queue' = queue /\ at' = at
        /\ task[w] # "idle"
        /\ \A v \in Work \ {w} : task'[v] = task[v]
    BY <1>7, <1>a DEF TaskEnds
  <2>2. Executing' \subseteq Executing
    BY <2>1 DEF Executing, WorkIn
  <2>3. QED
    BY <1>a, <2>1, <2>2, SlotsKept
<1>8. ASSUME NEW w \in Work, Join(w) PROVE SlotsCovered'
  <2>1. /\ at = "join" /\ at' = "join" /\ task[w] # "idle"
        /\ task' = [task EXCEPT ![w] = "idle"]
        /\ tracker' = tracker \/ tracker' = Release(tracker)
    BY <1>8 DEF Join, JoinLost, JoinWorktreeError, JoinCompleted, JoinFailed, Joined
  <2>2. WorkIn(queue', {"Running"}) = {}
    BY <1>a, <1>8, <2>1, JoinRunning DEF ExecutionWithinTick
  <2>3. w \in Executing /\ Executing' \subseteq Executing \ {w}
    BY <1>a, <2>1, <2>2 DEF Executing
  <2>4. QED
    BY <1>a, <2>1, <2>3, SlotsKept, SlotReturned
<1>9. CASE StartEvaluate
  <2>1. /\ tracker'.workspace = tracker.workspace
        /\ tracker'.total = tracker.total + 1
        /\ tracker'.evaluates = tracker.evaluates + 1
        /\ at = "evaluate" /\ at' = "judge"
        /\ tracker.total < MaxTotal
    BY <1>a, <1>9 DEF StartEvaluate, TrackEvaluate, CanSpawn, TypeOK, Tracker
  <2>2. Executing' = Executing
    BY <1>9 DEF StartEvaluate, Executing, WorkIn
  <2>3. QED
    BY <1>a, <2>1, <2>2, ExecutingFinite, LimitsAssumption
    DEF SlotsCovered, TypeOK, Tracker
<1>10. CASE JudgeFailed \/ EndEvaluate
  <2>0. tracker' = ReleaseEvaluate(tracker) /\ at \in {"judge", "on_done"} /\ at' = "select"
    BY <1>10 DEF JudgeFailed, EndEvaluate
  <2>1. /\ tracker'.workspace = tracker.workspace
        /\ tracker'.total = tracker.total - 1
        /\ tracker'.evaluates = tracker.evaluates - 1
    <3>1. /\ tracker.evaluates = 1 /\ tracker.workspace \in Nat /\ tracker.total \in Nat
          /\ tracker.total >= 1
      BY <1>a, <2>0 DEF SlotsCovered, TypeOK, Tracker
    <3>2. QED
      BY <1>a, <2>0, <3>1 DEF ReleaseEvaluate, SaturatingPred, TypeOK, Tracker
  <2>2. Executing' \subseteq Executing
    <3>1. CASE JudgeFailed
      BY <1>a, <3>1, JudgeFailedItems, MappedWorkIn DEF JudgeFailed, Executing
    <3>2. CASE EndEvaluate
      BY <3>2 DEF EndEvaluate, Executing, WorkIn
    <3>3. QED
      BY <1>10, <3>1, <3>2
  <2>3. Cardinality(Executing') <= Cardinality(Executing)
    BY <2>2, ExecutingFinite, FS_Subset
  <2>4. QED
    BY <1>a, <2>0, <2>1, <2>3, ExecutingFinite, LimitsAssumption
    DEF SlotsCovered, TypeOK, Tracker
<1>11. CASE JudgeOk
  BY <1>a, <1>11, SlotsKept DEF JudgeOk, Executing, WorkIn, Judging
<1>12. ASSUME NEW i \in DOMAIN queue, OnDone(i) PROVE SlotsCovered'
  <2>1. WorkIn(queue', {"Running"}) \subseteq WorkIn(queue, {"Running"})
    BY <1>a, <1>12, WorkInRemove DEF OnDone
  <2>2. QED
    BY <1>a, <1>12, <2>1, SlotsKept DEF OnDone, Executing
<1>13. CASE DatabaseChanges
  BY <1>a, <1>13, SlotsKept DEF DatabaseChanges, DependencyAdded, DependencyRemoved,
         RowChanges, Executing, WorkIn
<1>14. CASE Restart
  <2>1. Executing' = {}
    BY <1>14 DEF Restart, Executing, WorkIn
  <2>2. Cardinality(Executing') = 0
    BY <2>1, FS_EmptySet
  <2>3. QED
    BY <1>14, <2>2, LimitsAssumption DEF Restart, SlotsCovered, NewTracker
<1>15. CASE UNCHANGED vars
  BY <1>a, <1>15, SlotsKept DEF vars, Executing, WorkIn
<1>16. QED
  BY <1>1, <1>2, <1>3, <1>4, <1>5, <1>6, <1>7, <1>8, <1>9, <1>10, <1>11, <1>12,
     <1>13, <1>14, <1>15
  DEF Next, LoopStep

LEMMA SlotInvInductive ==
    /\ Init => SlotInv
    /\ SlotInv /\ [Next]_vars => SlotInv'
<1>1. Init => SlotInv
  BY TypeInit, StagesInit, UniqueInit, SlotsInit DEF SlotInv
<1>2. SlotInv /\ [Next]_vars => SlotInv'
  BY TypeStep, StagesStep, UniqueStep, SlotsStep DEF SlotInv
<1>3. QED
  BY <1>1, <1>2

(* Every execution is covered by a slot of the tracker, and the tracker    *)
(* stays within its limits.                                                *)
THEOREM SlotsStayCovered == Spec => []SlotsCovered
<1>1. SlotInv => SlotsCovered
  BY DEF SlotInv
<1>2. QED
  BY <1>1, SlotInvInductive, PTL DEF Spec

(* Never more work in execution than workspace.concurrency, and together   *)
(* with an evaluation never more than max_concurrent: for any number of    *)
(* issues, any limits and whatever way the tasks end.                      *)
THEOREM ConcurrencyStaysBounded == Spec => []ConcurrencyBounded
<1>1. SlotInv => ConcurrencyBounded
  BY ExecutingFinite, LimitsAssumption
  DEF SlotInv, SlotsCovered, ConcurrencyBounded, TypeOK, Tracker
<1>2. QED
  BY <1>1, SlotInvInductive, PTL DEF Spec
=============================================================================
