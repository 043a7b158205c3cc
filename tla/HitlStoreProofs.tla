---------------------------- MODULE HitlStoreProofs ----------------------------
(***************************************************************************)
(* Proofs about HitlStore: whatever commands, timeouts, interrupted        *)
(* commands and killed daemons do, the companions of replans stay within   *)
(* the limit, people are asked a bounded number of times about an item, and *)
(* what was answered is not asked again by itself.                         *)
(***************************************************************************)
EXTENDS HitlStore, FiniteSetTheorems, WellFoundedInduction, TLAPS

(* What holds of the rows alone. *)
RowsOK ==
    /\ DOMAIN rows \subseteq RowId
    /\ rows \in [DOMAIN rows -> Row]
    /\ ReplanTree

-----------------------------------------------------------------------------
(* The statements. *)
LEMMA LastNumberType == \A id \in RowId : LastNumber(id) \in Nat
BY MaxReplanAssumption DEF RowId, LastNumber

(* A statement that keeps the rows there are and their counts. *)
LEMMA SameCounts ==
    ASSUME RowsOK, DOMAIN rows' = DOMAIN rows, rows' \in [DOMAIN rows -> Row],
           \A id \in DOMAIN rows : rows'[id].count >= rows[id].count
    PROVE  RowsOK'
<1>1. DOMAIN rows' \subseteq RowId /\ rows' \in [DOMAIN rows' -> Row]
  BY DEF RowsOK
<1>2. ReplanTree'
  <2> SUFFICES ASSUME NEW id \in DOMAIN rows
               PROVE  LastNumber(id) <= rows'[id].count
    BY DEF RowsOK, ReplanTree
  <2>1. LastNumber(id) \in Nat
    BY LastNumberType DEF RowsOK
  <2>2. rows[id].count \in Nat /\ rows'[id].count \in Nat
    BY DEF RowsOK, Row
  <2>3. LastNumber(id) <= rows[id].count
    BY DEF RowsOK, ReplanTree
  <2>. QED
    BY <2>1, <2>2, <2>3
<1>. QED
  BY <1>1, <1>2 DEF RowsOK

LEMMA TouchedRow ==
    ASSUME NEW row \in Row
    PROVE  Touched(row) \in Row /\ Touched(row).count = row.count
BY DEF Touched, Row

LEMMA UpdatePhaseOK ==
    ASSUME RowsOK, NEW id \in DOMAIN rows, NEW phase \in QueuePhase,
           UpdatePhase(id, phase)
    PROVE  RowsOK' /\ DOMAIN rows' = DOMAIN rows
<1> DEFINE row == [rows[id] EXCEPT !.phase = phase]
<1>1. row \in Row /\ row.count = rows[id].count
  BY DEF RowsOK, Row
<1>2. Touched(row) \in Row /\ Touched(row).count = rows[id].count
  BY <1>1, TouchedRow
<1>3. rows' = [rows EXCEPT ![id] = Touched(row)]
  BY DEF UpdatePhase
<1> HIDE DEF row
<1>4. DOMAIN rows' = DOMAIN rows /\ rows' \in [DOMAIN rows -> Row]
  BY <1>2, <1>3 DEF RowsOK
<1>5. \A k \in DOMAIN rows : rows'[k].count = rows[k].count
  BY <1>2, <1>3
<1>6. \A k \in DOMAIN rows : rows[k].count \in Nat
  BY DEF RowsOK, Row
<1>. QED
  BY <1>4, <1>5, <1>6, SameCounts

(* The number of a companion is beyond those of its row. *)
LEMMA CompanionId ==
    ASSUME NEW id \in RowId, NEW n \in 1..MaxReplan, LastNumber(id) < n,
           \A k \in 1..(Len(id.numbers) - 1) : id.numbers[k] < id.numbers[k + 1]
    PROVE  LET c == Companion(id, n) IN
             /\ c \in RowId
             /\ LastNumber(c) = n
             /\ \A k \in 1..(Len(c.numbers) - 1) : c.numbers[k] < c.numbers[k + 1]
<1> DEFINE c == Companion(id, n)
<1>2. id.numbers \in Seq(1..MaxReplan)
  BY DEF RowId
<1>6. Append(id.numbers, n) \in Seq(1..MaxReplan)
  BY <1>2
<1>1. c.numbers = Append(id.numbers, n) /\ c \in RowId
  BY <1>6 DEF Companion, RowId
<1>3. Len(c.numbers) = Len(id.numbers) + 1 /\ c.numbers[Len(c.numbers)] = n
  BY <1>1, <1>2
<1>4. LastNumber(c) = n
  <2>1. c.numbers # <<>>
    BY <1>1, <1>2, <1>3
  <2>. QED
    BY <1>3, <2>1 DEF LastNumber
<1>5. ASSUME NEW k \in 1..(Len(c.numbers) - 1)
      PROVE  c.numbers[k] < c.numbers[k + 1]
  <2>1. CASE k = Len(id.numbers)
    <3>1. LastNumber(id) = id.numbers[k]
      BY <1>2, <1>3, <1>5, <2>1 DEF LastNumber
    <3>. QED
      BY <1>1, <1>2, <1>3, <2>1, <3>1
  <2>2. CASE k # Len(id.numbers)
    <3>1. k \in 1..(Len(id.numbers) - 1)
      BY <1>2, <1>3, <1>5, <2>2
    <3>2. c.numbers[k] = id.numbers[k] /\ c.numbers[k + 1] = id.numbers[k + 1]
      BY <1>1, <1>2, <3>1
    <3>. QED
      BY <3>1, <3>2
  <2>. QED
    BY <2>1, <2>2
<1>. QED
  BY <1>1, <1>4, <1>5

LEMMA InsertWaitingOK ==
    ASSUME RowsOK, NEW id \in RowId, NEW n \in Nat, InsertWaiting(id, n),
           LastNumber(id) <= n,
           \A k \in 1..(Len(id.numbers) - 1) : id.numbers[k] < id.numbers[k + 1]
    PROVE  RowsOK' /\ DOMAIN rows \subseteq DOMAIN rows'
<1>1. CASE id \in DOMAIN rows
  BY <1>1 DEF InsertWaiting, RowsOK, ReplanTree
<1>2. CASE id \notin DOMAIN rows
  <2>1. HitlRow(n) \in Row /\ HitlRow(n).count = n
    BY DEF HitlRow, Row, QueuePhase, TimeoutAction
  <2>2. rows' = [k \in DOMAIN rows \cup {id} |-> IF k = id THEN HitlRow(n) ELSE rows[k]]
    BY <1>2 DEF InsertWaiting
  <2>3. DOMAIN rows' \subseteq RowId /\ rows' \in [DOMAIN rows' -> Row]
    BY <2>1, <2>2 DEF RowsOK
  <2>4. ReplanTree'
    BY <2>1, <2>2 DEF RowsOK, ReplanTree
  <2>. QED
    BY <2>2, <2>3, <2>4 DEF RowsOK
<1>. QED
  BY <1>1, <1>2

LEMMA CompanionOK ==
    ASSUME RowsOK, NEW id \in DOMAIN rows, NEW n \in 1..MaxReplan, LastNumber(id) < n,
           InsertWaiting(Companion(id, n), n)
    PROVE  RowsOK' /\ DOMAIN rows \subseteq DOMAIN rows'
<1>1. id \in RowId
  BY DEF RowsOK
<1>2. \A k \in 1..(Len(id.numbers) - 1) : id.numbers[k] < id.numbers[k + 1]
  BY DEF RowsOK, ReplanTree
<1>3. n \in Nat
  BY MaxReplanAssumption
<1>4. /\ Companion(id, n) \in RowId
      /\ LastNumber(Companion(id, n)) = n
      /\ \A k \in 1..(Len(Companion(id, n).numbers) - 1) :
           Companion(id, n).numbers[k] < Companion(id, n).numbers[k + 1]
  BY <1>1, <1>2, CompanionId
<1>. QED
  BY <1>3, <1>4, InsertWaitingOK

-----------------------------------------------------------------------------
(* What the commands and the job remember. *)
CliOK ==
    /\ cli \in [Cli -> Command]
    /\ \A p \in Cli :
         /\ cli[p].step = "answer" => LastNumber(cli[p].id) <= cli[p].count
         /\ cli[p].step = "insert" => LastNumber(cli[p].id) < cli[p].count

JobOK ==
    /\ job \in Job
    /\ job.step \in {"counted", "insert"} => LastNumber(job.id) < job.count
    /\ job.step = "insert" => job.count <= MaxReplan

LEMMA Parts ==
    HitlInv <=> RowsOK /\ CliOK /\ JobOK /\ commands \in Nat /\ faults \in Nat
BY DEF HitlInv, TypeOK, CountsAhead, RowsOK, CliOK, JobOK

LEMMA PartsNext ==
    HitlInv' <=> RowsOK' /\ CliOK' /\ JobOK' /\ commands' \in Nat /\ faults' \in Nat
BY DEF HitlInv, TypeOK, CountsAhead, RowsOK, CliOK, JobOK

(* Rows are never deleted: what named a row still names one. *)
LEMMA StillNamed ==
    ASSUME DOMAIN rows \subseteq DOMAIN rows'
    PROVE  Command \subseteq Command' /\ Job \subseteq Job'
<1>1. Command \subseteq Command'
  BY DEF Command
<1>2. Listed \subseteq Listed'
  BY DEF Listed
<1>3. Job \subseteq Job'
  BY <1>2 DEF Job
<1>. QED
  BY <1>1, <1>3

LEMMA CliKept ==
    ASSUME CliOK, DOMAIN rows \subseteq DOMAIN rows',
           cli' = cli \/ \E p \in Cli : Ended(p)
    PROVE  CliOK'
<1>1. Command \subseteq Command' /\ NoCommand \in Command'
  BY StillNamed DEF Command
<1>2. NoCommand.step = "idle"
  BY DEF NoCommand
<1>. QED
  BY <1>1, <1>2 DEF CliOK, Ended

LEMMA CliRemembers ==
    ASSUME CliOK, DOMAIN rows \subseteq DOMAIN rows', NEW p \in Cli,
           NEW c \in Command', cli' = [cli EXCEPT ![p] = c],
           c.step = "answer" => LastNumber(c.id) <= c.count,
           c.step = "insert" => LastNumber(c.id) < c.count
    PROVE  CliOK'
<1>1. Command \subseteq Command'
  BY StillNamed
<1>. QED
  BY <1>1 DEF CliOK

LEMMA JobKept ==
    ASSUME JobOK, DOMAIN rows \subseteq DOMAIN rows', job' = job
    PROVE  JobOK'
BY StillNamed DEF JobOK

LEMMA JobGoesOn ==
    ASSUME DOMAIN rows \subseteq DOMAIN rows',
           NEW todo \in SUBSET Listed, job' = Next1(todo)
    PROVE  JobOK'
<1>1. job' \in Job /\ job'.step \in {"idle", "next"}
  BY DEF Next1, NoJob, Job
<1>. QED
  BY <1>1, StillNamed DEF JobOK

LEMMA JobNames ==
    ASSUME JobOK
    PROVE  /\ job.step \in {"next", "counted", "insert"} => job.todo \in SUBSET Listed
           /\ job.step \in {"counted", "insert"} =>
                job.id \in DOMAIN rows /\ job.count \in Nat
BY DEF JobOK, Job, NoJob

LEMMA CommandNames ==
    ASSUME CliOK, NEW p \in Cli
    PROVE  /\ cli[p].step \in {"answer", "insert", "timeout", "script"} =>
                cli[p].id \in DOMAIN rows
           /\ cli[p].step = "answer" =>
                cli[p].answer \in {"done", "retry", "skip", "replan"} /\ cli[p].count \in Nat
           /\ cli[p].step = "insert" => cli[p].count \in 1..MaxReplan
           /\ cli[p].step = "timeout" => cli[p].action \in TimeoutAction
BY DEF CliOK, Command, NoCommand

-----------------------------------------------------------------------------
(* The commands, one lemma for each. *)
LEMMA GivenOK ==
    ASSUME HitlInv, NEW p \in Cli, NEW c \in Command, Given(p, c),
           c.step = "answer" => LastNumber(c.id) <= c.count, c.step # "insert",
           rows' = rows, job' = job, faults' = faults
    PROVE  HitlInv'
<1>1. RowsOK /\ CliOK /\ JobOK /\ commands \in Nat /\ faults \in Nat
  BY Parts
<1>2. RowsOK' /\ DOMAIN rows \subseteq DOMAIN rows' /\ c \in Command'
  BY <1>1 DEF RowsOK, ReplanTree, Command
<1>3. CliOK'
  BY <1>1, <1>2, CliRemembers DEF Given
<1>4. JobOK'
  BY <1>1, <1>2, JobKept
<1>. QED
  BY <1>1, <1>2, <1>3, <1>4, PartsNext DEF Given

LEMMA RespondReadOK ==
    ASSUME HitlInv, NEW p \in Cli, NEW id \in Waiting,
           NEW answer \in {"done", "retry", "skip", "replan"}, RespondRead(p, id, answer)
    PROVE  HitlInv'
<1> DEFINE c == [step |-> "answer", id |-> id, answer |-> answer, count |-> rows[id].count]
<1>1. id \in DOMAIN rows /\ rows[id].count \in Nat /\ LastNumber(id) <= rows[id].count
  BY DEF HitlInv, TypeOK, ReplanTree, Waiting, Row
<1>2. c \in Command
  BY <1>1 DEF Command
<1>3. Given(p, c) /\ rows' = rows /\ job' = job /\ faults' = faults
  BY DEF RespondRead
<1>. QED
  BY <1>1, <1>2, <1>3, GivenOK

LEMMA TimeoutReadOK ==
    ASSUME HitlInv, NEW p \in Cli, NEW id \in Waiting, NEW action \in TimeoutAction,
           TimeoutRead(p, id, action)
    PROVE  HitlInv'
<1> DEFINE c == [step |-> "timeout", id |-> id, action |-> action]
<1>1. c \in Command
  BY DEF Command, Waiting
<1>2. Given(p, c) /\ rows' = rows /\ job' = job /\ faults' = faults
  BY DEF TimeoutRead
<1>. QED
  BY <1>1, <1>2, GivenOK

LEMMA RetryScriptReadOK ==
    ASSUME HitlInv, NEW p \in Cli, NEW id \in DOMAIN rows, RetryScriptRead(p, id)
    PROVE  HitlInv'
<1> DEFINE c == [step |-> "script", id |-> id]
<1>1. c \in Command
  BY DEF Command
<1>2. Given(p, c) /\ rows' = rows /\ job' = job /\ faults' = faults
  BY DEF RetryScriptRead
<1>. QED
  BY <1>1, <1>2, GivenOK

(* The second half of a command that ends. *)
LEMMA EndedOK ==
    ASSUME HitlInv, RowsOK', DOMAIN rows \subseteq DOMAIN rows',
           NEW p \in Cli, Ended(p), UNCHANGED <<job, commands, faults>>
    PROVE  HitlInv'
BY Parts, PartsNext, CliKept, JobKept

LEMMA RespondWriteOK ==
    ASSUME HitlInv, NEW p \in Cli, RespondWrite(p)
    PROVE  HitlInv'
<1>1. RowsOK /\ CliOK
  BY Parts
<1>2. cli[p].id \in DOMAIN rows /\ AnsweredPhase[cli[p].answer] \in QueuePhase
  BY <1>1, CommandNames DEF RespondWrite, AnsweredPhase, QueuePhase
<1>3. UpdatePhase(cli[p].id, AnsweredPhase[cli[p].answer]) /\ Ended(p)
      /\ UNCHANGED <<job, commands, faults>>
  BY DEF RespondWrite
<1>4. RowsOK' /\ DOMAIN rows' = DOMAIN rows
  BY <1>1, <1>2, <1>3, UpdatePhaseOK
<1>. QED
  BY <1>3, <1>4, EndedOK

LEMMA RespondReplanOK ==
    ASSUME HitlInv, NEW p \in Cli, RespondReplan(p)
    PROVE  HitlInv'
<1> DEFINE id == cli[p].id  n == cli[p].count + 1
<1>1. RowsOK /\ CliOK /\ JobOK /\ commands \in Nat /\ faults \in Nat
  BY Parts
<1>2. /\ id \in DOMAIN rows /\ cli[p].count \in Nat
      /\ LastNumber(id) <= cli[p].count
      /\ UNCHANGED <<job, commands, faults>>
  BY <1>1, CommandNames DEF RespondReplan, CliOK
<1>3. CASE n > MaxReplan
  <2>1. UpdatePhase(id, "Failed") /\ Ended(p)
    BY <1>3 DEF RespondReplan
  <2>2. RowsOK' /\ DOMAIN rows' = DOMAIN rows
    BY <1>1, <1>2, <2>1, UpdatePhaseOK DEF QueuePhase
  <2>. QED
    BY <1>2, <2>1, <2>2, EndedOK
<1>4. CASE ~(n > MaxReplan)
  <2> DEFINE c == [step |-> "insert", id |-> id, count |-> n]
  <2>1. UpdatePhase(id, "Pending") /\ cli' = [cli EXCEPT ![p] = c]
    BY <1>1, <1>4 DEF RespondReplan, CliOK
  <2>2. RowsOK' /\ DOMAIN rows' = DOMAIN rows
    BY <1>1, <1>2, <2>1, UpdatePhaseOK DEF QueuePhase
  <2>3. n \in 1..MaxReplan /\ LastNumber(id) < n
    BY <1>1, <1>2, <1>4, MaxReplanAssumption, LastNumberType DEF RowsOK
  <2>4. c \in Command'
    BY <1>2, <2>2, <2>3 DEF Command
  <2>5. CliOK'
    BY <1>1, <2>1, <2>2, <2>3, <2>4, CliRemembers
  <2>6. JobOK'
    BY <1>1, <1>2, <2>2, JobKept
  <2>. QED
    BY <1>1, <1>2, <2>2, <2>5, <2>6, PartsNext
<1>. QED
  BY <1>3, <1>4

LEMMA RespondInsertOK ==
    ASSUME HitlInv, NEW p \in Cli, RespondInsert(p)
    PROVE  HitlInv'
<1>1. RowsOK /\ CliOK
  BY Parts
<1>2. /\ cli[p].id \in DOMAIN rows /\ cli[p].count \in 1..MaxReplan
      /\ LastNumber(cli[p].id) < cli[p].count
  BY <1>1, CommandNames DEF RespondInsert, CliOK
<1>3. /\ InsertWaiting(Companion(cli[p].id, cli[p].count), cli[p].count)
      /\ Ended(p) /\ UNCHANGED <<job, commands, faults>>
  BY DEF RespondInsert
<1>4. RowsOK' /\ DOMAIN rows \subseteq DOMAIN rows'
  BY <1>1, <1>2, <1>3, CompanionOK
<1>. QED
  BY <1>3, <1>4, EndedOK

LEMMA TimeoutWriteOK ==
    ASSUME HitlInv, NEW p \in Cli, TimeoutWrite(p)
    PROVE  HitlInv'
<1>1. RowsOK /\ CliOK
  BY Parts
<1>2. cli[p].id \in DOMAIN rows /\ cli[p].action \in TimeoutAction
  BY <1>1, CommandNames DEF TimeoutWrite
<1> DEFINE row == [rows[cli[p].id] EXCEPT !.own = TRUE, !.action = cli[p].action,
                                          !.expired = FALSE]
<1>3. row \in Row /\ row.count = rows[cli[p].id].count /\ row.count \in Nat
  BY <1>1, <1>2 DEF RowsOK, Row
<1>4. rows' = [rows EXCEPT ![cli[p].id] = row]
  BY DEF TimeoutWrite
<1> HIDE DEF row
<1>5. /\ DOMAIN rows' = DOMAIN rows /\ rows' \in [DOMAIN rows -> Row]
      /\ \A k \in DOMAIN rows : rows'[k].count >= rows[k].count
  <2>1. \A k \in DOMAIN rows : rows[k].count \in Nat
    BY <1>1 DEF RowsOK, Row
  <2>2. DOMAIN rows' = DOMAIN rows /\ rows' \in [DOMAIN rows -> Row]
    BY <1>1, <1>2, <1>3, <1>4 DEF RowsOK
  <2>3. \A k \in DOMAIN rows : rows'[k].count = rows[k].count
    BY <1>1, <1>2, <1>3, <1>4 DEF RowsOK
  <2>. QED
    BY <2>1, <2>2, <2>3
<1>6. RowsOK'
  BY <1>1, <1>5, SameCounts
<1>. QED
  BY <1>5, <1>6, EndedOK DEF TimeoutWrite

LEMMA RetryScriptWriteOK ==
    ASSUME HitlInv, NEW p \in Cli, RetryScriptWrite(p)
    PROVE  HitlInv'
<1>1. RowsOK /\ CliOK
  BY Parts
<1>2. cli[p].id \in DOMAIN rows
  BY <1>1, CommandNames DEF RetryScriptWrite
<1>3. RowsOK' /\ DOMAIN rows' = DOMAIN rows
  <2>1. CASE UpdatePhase(cli[p].id, "Done")
    BY <1>1, <1>2, <2>1, UpdatePhaseOK DEF QueuePhase
  <2>2. CASE UNCHANGED rows
    BY <1>1, <2>2 DEF RowsOK, ReplanTree
  <2>. QED
    BY <2>1, <2>2 DEF RetryScriptWrite
<1>. QED
  BY <1>3, EndedOK DEF RetryScriptWrite

LEMMA AbandonOK ==
    ASSUME HitlInv, NEW p \in Cli, Abandon(p)
    PROVE  HitlInv'
<1>1. RowsOK' /\ rows' = rows
  BY Parts DEF Abandon, RowsOK, ReplanTree
<1>. QED
  BY <1>1, EndedOK DEF Abandon

LEMMA CliStepOK ==
    ASSUME HitlInv, NEW p \in Cli, CliStep(p)
    PROVE  HitlInv'
BY RespondReadOK, RespondWriteOK, RespondReplanOK, RespondInsertOK, TimeoutReadOK,
   TimeoutWriteOK, RetryScriptReadOK, RetryScriptWriteOK, AbandonOK DEF CliStep

-----------------------------------------------------------------------------
(* The job, time, and the opening of rows. *)
LEMMA OpenOK ==
    ASSUME HitlInv, NEW item \in Item, Open(item)
    PROVE  HitlInv'
<1>1. RowsOK /\ CliOK /\ JobOK /\ commands \in Nat /\ faults \in Nat
  BY Parts
<1>2. /\ Root(item) \in RowId
      /\ LastNumber(Root(item)) = 0
      /\ \A k \in 1..(Len(Root(item).numbers) - 1) :
           Root(item).numbers[k] < Root(item).numbers[k + 1]
  BY DEF Root, RowId, LastNumber
<1>3. RowsOK' /\ DOMAIN rows \subseteq DOMAIN rows'
  BY <1>1, <1>2, InsertWaitingOK DEF Open
<1>4. CliOK' /\ JobOK'
  BY <1>1, <1>3, CliKept, JobKept DEF Open
<1>. QED
  BY <1>1, <1>3, <1>4, PartsNext DEF Open

LEMMA ElsewhereOK ==
    ASSUME HitlInv, Elsewhere
    PROVE  HitlInv'
<1>1. UNCHANGED <<rows, cli, job>> /\ commands' \in Nat /\ faults' \in Nat
  BY DEF Elsewhere, HitlInv, TypeOK
<1>. QED
  BY <1>1 DEF HitlInv, TypeOK, ReplanTree, CountsAhead, Command, Job, Listed

LEMMA ExpireOK ==
    ASSUME HitlInv, NEW id \in DOMAIN rows, Expire(id)
    PROVE  HitlInv'
<1>1. RowsOK /\ CliOK /\ JobOK /\ commands \in Nat /\ faults \in Nat
  BY Parts
<1> DEFINE row == [rows[id] EXCEPT !.expired = TRUE]
<1>2. row \in Row /\ row.count = rows[id].count
  BY <1>1 DEF RowsOK, Row
<1>3. rows' = [rows EXCEPT ![id] = row]
  BY DEF Expire
<1> HIDE DEF row
<1>4. DOMAIN rows' = DOMAIN rows /\ rows' \in [DOMAIN rows -> Row]
  BY <1>1, <1>2, <1>3 DEF RowsOK
<1>5. \A k \in DOMAIN rows : rows[k].count \in Nat /\ rows'[k].count = rows[k].count
  BY <1>1, <1>2, <1>3 DEF RowsOK, Row
<1>6. RowsOK'
  BY <1>1, <1>4, <1>5, SameCounts
<1>7. CliOK' /\ JobOK'
  BY <1>1, <1>4, CliKept, JobKept DEF Expire
<1>. QED
  BY <1>1, <1>6, <1>7, PartsNext DEF Expire

LEMMA QueueSetOK ==
    ASSUME HitlInv, NEW id \in DOMAIN rows, NEW phase \in QueuePhase, QueueSet(id, phase)
    PROVE  HitlInv'
<1>1. RowsOK /\ CliOK /\ JobOK /\ commands \in Nat /\ faults \in Nat
  BY Parts
<1>2. RowsOK' /\ DOMAIN rows' = DOMAIN rows
  BY <1>1, UpdatePhaseOK DEF QueueSet
<1>3. CliOK' /\ JobOK'
  BY <1>1, <1>2, CliKept, JobKept DEF QueueSet
<1>. QED
  BY <1>1, <1>2, <1>3, PartsNext DEF QueueSet

(* A step of the job after which it goes on with the rows left in its list. *)
LEMMA JobGoesOnOK ==
    ASSUME HitlInv, RowsOK', DOMAIN rows \subseteq DOMAIN rows',
           NEW todo \in SUBSET Listed, job' = Next1(todo),
           UNCHANGED <<cli, commands>>, faults' \in Nat
    PROVE  HitlInv'
BY Parts, PartsNext, CliKept, JobGoesOn

LEMMA JobListOK ==
    ASSUME HitlInv, JobList
    PROVE  HitlInv'
<1>1. RowsOK /\ faults \in Nat
  BY Parts
<1> DEFINE expired == {id \in Waiting : rows[id].expired}
           todo == {[id |-> id, action |-> rows[id].action] : id \in expired}
<1>2. todo \in SUBSET Listed
  BY <1>1 DEF Listed, Waiting, RowsOK, Row
<1>3. expired # {} /\ job' = [step |-> "next", todo |-> todo]
      /\ UNCHANGED <<rows, cli, commands, faults>>
  BY DEF JobList
<1>4. todo # {}
  BY <1>3
<1>5. job' = Next1(todo)
  BY <1>3, <1>4 DEF Next1
<1>6. RowsOK' /\ DOMAIN rows \subseteq DOMAIN rows'
  BY <1>1, <1>3 DEF RowsOK, ReplanTree
<1>. QED
  BY <1>1, <1>2, <1>3, <1>5, <1>6, JobGoesOnOK

LEMMA JobTransitionOK ==
    ASSUME HitlInv, NEW listed \in job.todo, JobTransition(listed)
    PROVE  HitlInv'
<1>1. RowsOK /\ JobOK /\ faults \in Nat
  BY Parts
<1>2. job.todo \in SUBSET Listed
  BY <1>1, JobNames DEF JobTransition
<1>3. listed.id \in DOMAIN rows
  BY <1>2 DEF Listed
<1>4. PICK phase \in Resolved(listed.action) \ {"replan"} : UpdatePhase(listed.id, phase)
  BY DEF JobTransition
<1>5. phase \in QueuePhase
  BY TerminalAssumption DEF Resolved, QueuePhase
<1>6. RowsOK' /\ DOMAIN rows' = DOMAIN rows
  BY <1>1, <1>3, <1>4, <1>5, UpdatePhaseOK
<1>7. job' = Next1(job.todo \ {listed}) /\ UNCHANGED <<cli, commands, faults>>
  BY DEF JobTransition
<1>. QED
  BY <1>1, <1>2, <1>6, <1>7, JobGoesOnOK

LEMMA JobCountOK ==
    ASSUME HitlInv, NEW listed \in job.todo, JobCount(listed)
    PROVE  HitlInv'
<1>1. RowsOK /\ CliOK /\ JobOK /\ commands \in Nat /\ faults \in Nat
  BY Parts
<1>2. job.todo \in SUBSET Listed
  BY <1>1, JobNames DEF JobCount
<1> DEFINE id == listed.id
           row == Counted(rows[id])
<1>3. id \in DOMAIN rows
  BY <1>2 DEF Listed
<1>4. row \in Row /\ row.count = rows[id].count + 1 /\ rows[id].count \in Nat
  BY <1>1, <1>3 DEF RowsOK, Row, Counted
<1>5. Touched(row) \in Row /\ Touched(row).count = rows[id].count + 1
  BY <1>4, TouchedRow
<1>6. rows' = [rows EXCEPT ![id] = Touched(row)]
  BY <1>1, <1>3 DEF JobCount, RowsOK
<1> HIDE DEF row
<1>7. DOMAIN rows' = DOMAIN rows /\ rows' \in [DOMAIN rows -> Row]
  BY <1>1, <1>5, <1>6 DEF RowsOK
<1>8. \A k \in DOMAIN rows : rows'[k].count >= rows[k].count
  <2>1. \A k \in DOMAIN rows : rows[k].count \in Nat
    BY <1>1 DEF RowsOK, Row
  <2>2. rows'[id].count >= rows[id].count
    BY <1>3, <1>4, <1>5, <1>6
  <2>3. \A k \in DOMAIN rows : k # id => rows'[k].count = rows[k].count
    BY <1>6
  <2>. QED
    BY <2>1, <2>2, <2>3
<1>9. RowsOK'
  BY <1>1, <1>7, <1>8, SameCounts
<1>10. job' = [step |-> "counted", todo |-> job.todo \ {listed}, id |-> id,
               count |-> rows[id].count + 1]
       /\ UNCHANGED <<cli, commands, faults>>
  BY DEF JobCount
<1>11. LastNumber(id) < rows[id].count + 1
  BY <1>1, <1>3, <1>4, LastNumberType DEF RowsOK, ReplanTree
<1>12. JobOK'
  <2>1. job' \in Job
    BY <1>2, <1>3, <1>4, <1>10 DEF Job
  <2>. QED
    BY <1>7, <1>10, <1>11, <2>1, StillNamed DEF JobOK
<1>13. CliOK'
  BY <1>1, <1>7, <1>10, CliKept
<1>. QED
  BY <1>1, <1>9, <1>10, <1>12, <1>13, PartsNext

LEMMA JobExceededOK ==
    ASSUME HitlInv, JobExceeded
    PROVE  HitlInv'
<1>1. RowsOK /\ JobOK /\ faults \in Nat
  BY Parts
<1>2. job.todo \in SUBSET Listed /\ job.id \in DOMAIN rows
  BY <1>1, JobNames DEF JobExceeded
<1>3. RowsOK' /\ DOMAIN rows' = DOMAIN rows
  BY <1>1, <1>2, UpdatePhaseOK DEF JobExceeded, QueuePhase
<1>. QED
  BY <1>1, <1>2, <1>3, JobGoesOnOK DEF JobExceeded

LEMMA JobReplannedOK ==
    ASSUME HitlInv, JobReplanned
    PROVE  HitlInv'
<1>1. RowsOK /\ CliOK /\ JobOK /\ commands \in Nat /\ faults \in Nat
  BY Parts
<1>2. job.step = "counted" /\ job.count <= MaxReplan
      /\ job' = [job EXCEPT !.step = "insert"] /\ UNCHANGED <<cli, commands, faults>>
  BY DEF JobReplanned
<1>3. job.todo \in SUBSET Listed /\ job.id \in DOMAIN rows /\ job.count \in Nat
  BY <1>1, <1>2, JobNames
<1>4. RowsOK' /\ DOMAIN rows' = DOMAIN rows
  BY <1>1, <1>3, UpdatePhaseOK DEF JobReplanned, QueuePhase
<1>5. job \in [step : {"counted", "insert"}, todo : SUBSET Listed,
               id : DOMAIN rows, count : Nat]
  BY <1>1, <1>2 DEF JobOK, Job, NoJob
<1>6. /\ job' \in Job /\ job'.step = "insert"
      /\ job'.id = job.id /\ job'.count = job.count
  BY <1>2, <1>5 DEF Job
<1>7. JobOK'
  BY <1>1, <1>2, <1>4, <1>6, StillNamed DEF JobOK
<1>8. CliOK'
  BY <1>1, <1>2, <1>4, CliKept
<1>. QED
  BY <1>1, <1>2, <1>4, <1>7, <1>8, PartsNext

LEMMA JobCompanionOK ==
    ASSUME HitlInv, JobCompanion
    PROVE  HitlInv'
<1>1. RowsOK /\ JobOK /\ faults \in Nat
  BY Parts
<1>2. job.todo \in SUBSET Listed /\ job.id \in DOMAIN rows /\ job.count \in Nat
      /\ LastNumber(job.id) < job.count /\ job.count <= MaxReplan
  BY <1>1, JobNames DEF JobCompanion, JobOK
<1>3. job.count \in 1..MaxReplan
  BY <1>1, <1>2, LastNumberType, MaxReplanAssumption DEF RowsOK
<1>4. RowsOK' /\ DOMAIN rows \subseteq DOMAIN rows'
  BY <1>1, <1>2, <1>3, CompanionOK DEF JobCompanion
<1>. QED
  BY <1>1, <1>2, <1>4, JobGoesOnOK DEF JobCompanion

LEMMA JobFaultOK ==
    ASSUME HitlInv, JobFault \/ Kill
    PROVE  HitlInv'
<1>1. RowsOK /\ JobOK /\ faults \in Nat /\ job \in Job
  BY Parts DEF JobOK
<1>2. rows' = rows /\ UNCHANGED <<cli, commands>> /\ faults' \in Nat
  BY <1>1 DEF JobFault, Kill
<1>3. RowsOK' /\ DOMAIN rows \subseteq DOMAIN rows'
  BY <1>1, <1>2 DEF RowsOK, ReplanTree
<1>4. job.todo \in SUBSET Listed
  BY <1>1 DEF Job, NoJob
<1>5. \E todo \in SUBSET Listed : job' = Next1(todo)
  <2>1. CASE Kill
    <3>1. job' = Next1({})
      BY <2>1 DEF Kill, Next1
    <3>. QED
      BY <3>1
  <2>2. CASE JobFault /\ job.step = "next"
    <3>1. PICK listed \in job.todo : job' = Next1(job.todo \ {listed})
      BY <2>2 DEF JobFault
    <3>. QED
      BY <1>4, <3>1
  <2>3. CASE JobFault /\ job.step # "next"
    BY <1>4, <2>3 DEF JobFault
  <2>. QED
    BY <2>1, <2>2, <2>3
<1>. QED
  BY <1>2, <1>3, <1>5, JobGoesOnOK

-----------------------------------------------------------------------------
LEMMA InitOK == Init => HitlInv
<1> SUFFICES ASSUME Init PROVE HitlInv
  OBVIOUS
<1>1. RowsOK
  BY DEF Init, RowsOK, ReplanTree
<1>2. CliOK /\ JobOK
  BY DEF Init, CliOK, JobOK, NoCommand, NoJob, Command, Job
<1>. QED
  BY <1>1, <1>2, Parts DEF Init

LEMMA NextOK == HitlInv /\ [Next]_storeVars => HitlInv'
<1> SUFFICES ASSUME HitlInv, [Next]_storeVars PROVE HitlInv'
  OBVIOUS
<1>1. ASSUME JobStep PROVE HitlInv'
  BY <1>1, JobListOK, JobExceededOK, JobReplannedOK, JobCompanionOK, JobTransitionOK,
     JobCountOK DEF JobStep
<1>2. CASE UNCHANGED storeVars
  BY <1>2 DEF storeVars, HitlInv, TypeOK, ReplanTree, CountsAhead, Command, Job, Listed
<1>. QED
  BY <1>1, <1>2, OpenOK, ElsewhereOK, ExpireOK, QueueSetOK, CliStepOK, JobFaultOK DEF Next

(* Replans never multiply beyond their limit: in every reachable state the  *)
(* numbers in the id of a row rise, stay within MaxReplan, and are covered  *)
(* by the replans its row has used.                                         *)
THEOREM ReplansStayBounded == Spec => []HitlInv
<1>. QED
  BY InitOK, NextOK, PTL DEF Spec
-----------------------------------------------------------------------------
(* Every set of numbers has a least one. *)
LEMMA LeastNumber ==
    ASSUME NEW T \in SUBSET Nat, T # {}
    PROVE  \E n \in T : \A m \in T : n <= m
<1> DEFINE Less == OpToRel(<, Nat)
<1>1. IsWellFoundedOn(Less, Nat)
  BY NatLessThanWellFounded
<1>2. \A a, b \in Nat : a < b => <<a, b>> \in Less
  BY DEF OpToRel
<1> HIDE DEF Less
<1>3. PICK n \in T : \A m \in T : <<m, n>> \notin Less
  BY <1>1, WFMin
<1>4. ASSUME NEW m \in T PROVE n <= m
  <2>1. n \in Nat /\ m \in Nat /\ ~(m < n)
    BY <1>2, <1>3
  <2>. QED
    BY <2>1
<1>. QED
  BY <1>4

Rising(s) == \A k \in 1..(Len(s) - 1) : s[k] < s[k + 1]

(* What rises from each place to the next rises from each to all later ones. *)
LEMMA RisingFar ==
    ASSUME NEW s \in Seq(Nat), Rising(s), NEW i \in 1..Len(s), NEW j \in 1..Len(s), i < j
    PROVE  s[i] < s[j]
<1> DEFINE Wrong == {k \in Nat : i < k /\ k <= Len(s) /\ ~(s[i] < s[k])}
<1>0. Len(s) \in Nat /\ \A k \in 1..Len(s) : s[k] \in Nat
  OBVIOUS
<1>1. SUFFICES ASSUME Wrong # {} PROVE FALSE
  BY <1>0
<1>2. PICK k \in Wrong : \A m \in Wrong : k <= m
  <2>1. Wrong \in SUBSET Nat
    OBVIOUS
  <2> HIDE DEF Wrong
  <2>. QED
    BY <1>1, <2>1, LeastNumber
<1>3. /\ k - 1 \in 1..(Len(s) - 1) /\ k - 1 \in 1..Len(s) /\ k \in 1..Len(s)
      /\ i <= k - 1 /\ (k - 1) + 1 = k
  BY <1>0
<1>4. s[k - 1] < s[k]
  BY <1>3 DEF Rising
<1>5. k - 1 \notin Wrong
  <2>1. k \in Nat /\ ~(k <= k - 1)
    OBVIOUS
  <2>. QED
    BY <1>2, <2>1
<1>6. s[i] <= s[k - 1]
  <2>1. CASE i = k - 1
    BY <1>0, <1>3, <2>1
  <2>2. CASE i < k - 1
    BY <1>0, <1>3, <1>5, <2>2
  <2>. QED
    BY <1>0, <1>3, <2>1, <2>2
<1>. QED
  BY <1>0, <1>3, <1>4, <1>6

NumbersOf(s) == {s[k] : k \in 1..Len(s)}

(* The numbers of a sequence over S are in S. *)
LEMMA NumbersOfMembers == \A S : \A s \in Seq(S) : NumbersOf(s) \subseteq S
BY DEF NumbersOf

(* Of two rising sequences of the same numbers that agree before place i,  *)
(* the second has at i what the first has there.                           *)
LEMMA SameNumbersAgree ==
    ASSUME NEW s \in Seq(Nat), NEW t \in Seq(Nat), Rising(s), Rising(t),
           NumbersOf(s) = NumbersOf(t), NEW i \in 1..Len(s),
           \A j \in 1..(i - 1) : j \in 1..Len(t) /\ s[j] = t[j]
    PROVE  i \in 1..Len(t) /\ s[i] = t[i]
<1>0. /\ Len(s) \in Nat /\ \A k \in 1..Len(s) : s[k] \in Nat
      /\ Len(t) \in Nat /\ \A k \in 1..Len(t) : t[k] \in Nat
  OBVIOUS
<1>1. PICK k \in 1..Len(t) : t[k] = s[i]
  BY DEF NumbersOf
<1>2. ~(k < i)
  <2> SUFFICES ASSUME k < i PROVE FALSE
    OBVIOUS
  <2>1. k \in 1..(i - 1) /\ k \in 1..Len(s)
    BY <1>0
  <2>2. s[k] < s[i]
    BY <2>1, RisingFar
  <2>. QED
    BY <1>0, <1>1, <2>1, <2>2
<1>3. i \in 1..Len(t)
  BY <1>0, <1>2
<1>4. PICK m \in 1..Len(s) : s[m] = t[i]
  BY <1>3 DEF NumbersOf
<1>5. ~(i < k)
  <2> SUFFICES ASSUME i < k PROVE FALSE
    OBVIOUS
  <2>1. t[i] < t[k]
    BY <1>3, RisingFar
  <2>2. CASE m < i
    <3>1. m \in 1..(i - 1) /\ m \in 1..Len(t)
      BY <1>0, <2>2
    <3>2. s[m] = t[m]
      BY <3>1
    <3>3. t[m] < t[i]
      BY <1>3, <2>2, <3>1, RisingFar
    <3>. QED
      BY <1>0, <1>3, <1>4, <3>2, <3>3
  <2>3. CASE i <= m
    <3>1. i = m \/ s[i] < s[m]
      BY <1>0, <2>3, RisingFar
    <3>. QED
      BY <1>0, <1>1, <1>3, <1>4, <2>1, <3>1
  <2>. QED
    BY <1>0, <2>2, <2>3
<1>. QED
  BY <1>0, <1>1, <1>2, <1>3, <1>5

(* A rising sequence is determined by its numbers. *)
LEMMA RisingIsItsNumbers ==
    ASSUME NEW s \in Seq(Nat), NEW t \in Seq(Nat), Rising(s), Rising(t),
           NumbersOf(s) = NumbersOf(t)
    PROVE  s = t
<1> DEFINE Differ == {i \in Nat : /\ i \in 1..Len(s) \/ i \in 1..Len(t)
                                  /\ ~(i \in 1..Len(s) /\ i \in 1..Len(t) /\ s[i] = t[i])}
<1>0. Len(s) \in Nat /\ Len(t) \in Nat
  OBVIOUS
<1>1. CASE Differ = {}
  <2>1. \A i \in Nat : i \in 1..Len(s) <=> i \in 1..Len(t)
    BY <1>1
  <2>2. Len(s) = Len(t)
    <3>1. Len(s) \in 1..Len(s) => Len(s) <= Len(t)
      BY <1>0, <2>1
    <3>2. Len(t) \in 1..Len(t) => Len(t) <= Len(s)
      BY <1>0, <2>1
    <3>. QED
      BY <1>0, <3>1, <3>2
  <2>3. ASSUME NEW i \in 1..Len(s) PROVE s[i] = t[i]
    <3>1. i \in Nat /\ i \notin Differ
      BY <1>1
    <3>. QED
      BY <3>1
  <2>. QED
    BY <2>2, <2>3
<1>2. CASE Differ # {}
  <2>1. PICK i \in Differ : \A m \in Differ : i <= m
    <3>1. Differ \in SUBSET Nat
      OBVIOUS
    <3> HIDE DEF Differ
    <3>. QED
      BY <1>2, <3>1, LeastNumber
  <2>2. ASSUME NEW j \in 1..(i - 1)
        PROVE  j \in 1..Len(s) /\ j \in 1..Len(t) /\ s[j] = t[j]
    <3>1. j \in Nat /\ ~(i <= j) /\ (j \in 1..Len(s) \/ j \in 1..Len(t))
      BY <1>0
    <3>2. j \notin Differ
      BY <2>1, <3>1
    <3>. QED
      BY <3>1, <3>2
  <2>3. CASE i \in 1..Len(s)
    <3>1. i \in 1..Len(t) /\ s[i] = t[i]
      BY <2>2, <2>3, SameNumbersAgree
    <3>. QED
      BY <2>3, <3>1
  <2>4. CASE i \in 1..Len(t)
    <3>1. \A j \in 1..(i - 1) : j \in 1..Len(s) /\ t[j] = s[j]
      BY <2>2
    <3>2. i \in 1..Len(s) /\ t[i] = s[i]
      BY <2>4, <3>1, SameNumbersAgree
    <3>. QED
      BY <2>4, <3>2
  <2>. QED
    BY <2>3, <2>4
<1>. QED
  BY <1>1, <1>2

(* An item has as many rows at most as there are sets of replans. *)
LEMMA RowsOfAnItem ==
    ASSUME RowsOK, NEW item \in Item
    PROVE  LET same == {id \in DOMAIN rows : id.item = item}
           IN IsFiniteSet(same) /\ Cardinality(same) <= 2 ^ MaxReplan
<1> DEFINE same == {id \in DOMAIN rows : id.item = item}
           sets == SUBSET (1..MaxReplan)
           f == [id \in same |-> NumbersOf(id.numbers)]
<1>1. ASSUME NEW id \in same
      PROVE  /\ id = [item |-> item, numbers |-> id.numbers]
             /\ id.numbers \in Seq(1..MaxReplan) /\ id.numbers \in Seq(Nat)
             /\ Rising(id.numbers)
  <2>1. id \in RowId
    BY DEF RowsOK
  <2>2. id.numbers \in Seq(1..MaxReplan)
    BY <2>1 DEF RowId
  <2>3. id.numbers \in Seq(Nat)
    BY <2>2, MaxReplanAssumption
  <2>4. Rising(id.numbers)
    BY DEF RowsOK, ReplanTree, Rising
  <2>. QED
    BY <2>1, <2>2, <2>3, <2>4 DEF RowId
<1>2. f \in Injection(same, sets)
  <2>1. ASSUME NEW id \in same PROVE NumbersOf(id.numbers) \in sets
    <3>1. id.numbers \in Seq(1..MaxReplan)
      BY <1>1
    <3>. QED
      BY <3>1, NumbersOfMembers
  <2>2. \A a, b \in same : f[a] = f[b] => a = b
    <3> SUFFICES ASSUME NEW a \in same, NEW b \in same, f[a] = f[b] PROVE a = b
      OBVIOUS
    <3>1. a.numbers = b.numbers
      BY <1>1, RisingIsItsNumbers
    <3>. QED
      BY <1>1, <3>1
  <2>. QED
    BY <2>1, <2>2 DEF Injection, IsInjective
<1>3. IsFiniteSet(1..MaxReplan) /\ Cardinality(1..MaxReplan) = MaxReplan
  BY MaxReplanAssumption, FS_Interval
<1>4. IsFiniteSet(sets) /\ Cardinality(sets) = 2 ^ MaxReplan
  BY <1>3, FS_SUBSET
<1> HIDE DEF f, sets
<1>5. IsFiniteSet(same) /\ Cardinality(same) <= Cardinality(sets)
  BY <1>2, <1>4, FS_Injection
<1>. QED
  BY <1>4, <1>5

(* People are asked at most 2^MaxReplan times about an item: the answers,   *)
(* timeouts, interruptions and kills that mix open no more rows for it.     *)
THEOREM QuestionsAreBounded == Spec => []CompanionsBounded
<1>1. HitlInv => CompanionsBounded
  BY Parts, RowsOfAnItem DEF CompanionsBounded
<1>. QED
  BY <1>1, ReplansStayBounded, PTL
-----------------------------------------------------------------------------
NotReset ==
    \A id \in DOMAIN rows :
        /\ id \in DOMAIN rows'
        /\ rows'[id].count >= rows[id].count
        /\ rows[id].phase # "Hitl" /\ rows'[id].phase = "Hitl" => commands' # commands

LEMMA SameRowsKeep ==
    ASSUME RowsOK, rows' = rows PROVE NotReset
BY DEF RowsOK, Row, NotReset

(* One row is written, and not to be asked again. *)
LEMMA WrittenRowKeeps ==
    ASSUME RowsOK, NEW id \in DOMAIN rows, NEW row,
           rows' = [rows EXCEPT ![id] = row], row.count >= rows[id].count,
           row.phase = rows[id].phase \/ row.phase # "Hitl"
    PROVE  NotReset
<1>1. \A k \in DOMAIN rows : rows[k].count \in Nat
  BY DEF RowsOK, Row
<1>2. DOMAIN rows' = DOMAIN rows /\ rows'[id] = row
  BY DEF RowsOK
<1>3. \A k \in DOMAIN rows : k # id => rows'[k] = rows[k]
  BY DEF RowsOK
<1>. QED
  BY <1>1, <1>2, <1>3 DEF NotReset

LEMMA InsertedRowKeeps ==
    ASSUME RowsOK, NEW id, NEW n, InsertWaiting(id, n) PROVE NotReset
<1>1. \A k \in DOMAIN rows : rows[k].count \in Nat
  BY DEF RowsOK, Row
<1>. QED
  BY <1>1 DEF InsertWaiting, NotReset

(* What UpdatePhase writes. *)
LEMMA UpdatedRow ==
    ASSUME RowsOK, NEW id \in DOMAIN rows, NEW phase
    PROVE  LET row == Touched([rows[id] EXCEPT !.phase = phase])
           IN row.phase = phase /\ row.count = rows[id].count /\ row.count \in Nat
BY DEF RowsOK, Row, Touched

LEMMA UpdatedPhaseKeeps ==
    ASSUME RowsOK, NEW id \in DOMAIN rows, NEW phase, phase # "Hitl",
           UpdatePhase(id, phase)
    PROVE  NotReset
<1> DEFINE row == Touched([rows[id] EXCEPT !.phase = phase])
<1>1. row.phase = phase /\ row.count = rows[id].count /\ row.count \in Nat
  BY UpdatedRow
<1>2. rows' = [rows EXCEPT ![id] = row]
  BY DEF UpdatePhase
<1> HIDE DEF row
<1>3. row.count >= rows[id].count /\ row.phase # "Hitl"
  BY <1>1
<1>. QED
  BY <1>2, <1>3, WrittenRowKeeps

LEMMA CliStepKeeps ==
    ASSUME HitlInv, NEW p \in Cli, CliStep(p) PROVE NotReset
<1>1. RowsOK /\ CliOK
  BY Parts
<1>2. ASSUME rows' = rows PROVE NotReset
  BY <1>1, <1>2, SameRowsKeep
<1>3. CASE RespondWrite(p)
  <2>1. /\ cli[p].id \in DOMAIN rows
        /\ AnsweredPhase[cli[p].answer] # "Hitl"
        /\ UpdatePhase(cli[p].id, AnsweredPhase[cli[p].answer])
    BY <1>1, <1>3, CommandNames DEF RespondWrite, AnsweredPhase
  <2>. QED
    BY <1>1, <2>1, UpdatedPhaseKeeps
<1>4. CASE RespondReplan(p)
  <2>1. /\ cli[p].id \in DOMAIN rows
        /\ UpdatePhase(cli[p].id, "Failed") \/ UpdatePhase(cli[p].id, "Pending")
    BY <1>1, <1>4, CommandNames DEF RespondReplan
  <2>. QED
    BY <1>1, <2>1, UpdatedPhaseKeeps
<1>5. CASE RespondInsert(p)
  BY <1>1, <1>5, InsertedRowKeeps DEF RespondInsert
<1>6. CASE TimeoutWrite(p)
  <2> DEFINE row == [rows[cli[p].id] EXCEPT !.own = TRUE, !.action = cli[p].action,
                                            !.expired = FALSE]
  <2>1. cli[p].id \in DOMAIN rows
    BY <1>1, <1>6, CommandNames DEF TimeoutWrite
  <2>2. /\ row.count = rows[cli[p].id].count /\ row.count \in Nat
        /\ row.phase = rows[cli[p].id].phase
    BY <1>1, <2>1 DEF RowsOK, Row
  <2>3. rows' = [rows EXCEPT ![cli[p].id] = row]
    BY <1>6 DEF TimeoutWrite
  <2> HIDE DEF row
  <2>4. row.count >= rows[cli[p].id].count
    BY <2>2
  <2>. QED
    BY <1>1, <2>1, <2>2, <2>3, <2>4, WrittenRowKeeps
<1>7. CASE RetryScriptWrite(p)
  <2>1. cli[p].id \in DOMAIN rows
    BY <1>1, <1>7, CommandNames DEF RetryScriptWrite
  <2>2. UpdatePhase(cli[p].id, "Done") \/ rows' = rows
    BY <1>7 DEF RetryScriptWrite
  <2>. QED
    BY <1>1, <1>2, <2>1, <2>2, UpdatedPhaseKeeps
<1>8. ASSUME \/ \E id \in Waiting, answer \in {"done", "retry", "skip", "replan"} :
                  RespondRead(p, id, answer)
             \/ \E id \in Waiting, action \in TimeoutAction : TimeoutRead(p, id, action)
             \/ \E id \in DOMAIN rows : RetryScriptRead(p, id)
             \/ Abandon(p)
      PROVE  rows' = rows
  BY <1>8 DEF RespondRead, TimeoutRead, RetryScriptRead, Abandon
<1>. QED
  BY <1>2, <1>3, <1>4, <1>5, <1>6, <1>7, <1>8 DEF CliStep

LEMMA JobStepKeeps ==
    ASSUME HitlInv, JobStep PROVE NotReset
<1>1. RowsOK /\ JobOK
  BY Parts
<1>2. CASE JobList
  BY <1>1, <1>2, SameRowsKeep DEF JobList
<1>3. CASE JobExceeded
  BY <1>1, <1>3, JobNames, UpdatedPhaseKeeps DEF JobExceeded
<1>4. CASE JobReplanned
  BY <1>1, <1>4, JobNames, UpdatedPhaseKeeps DEF JobReplanned
<1>5. CASE JobCompanion
  BY <1>1, <1>5, InsertedRowKeeps DEF JobCompanion
<1>6. ASSUME NEW listed \in job.todo, JobTransition(listed) PROVE NotReset
  <2>1. job.todo \in SUBSET Listed
    BY <1>1, <1>6, JobNames DEF JobTransition
  <2>2. listed.id \in DOMAIN rows
    BY <2>1 DEF Listed
  <2>3. PICK phase \in Resolved(listed.action) \ {"replan"} : UpdatePhase(listed.id, phase)
    BY <1>6 DEF JobTransition
  <2>4. phase # "Hitl"
    BY TerminalAssumption DEF Resolved
  <2>. QED
    BY <1>1, <2>2, <2>3, <2>4, UpdatedPhaseKeeps
<1>7. ASSUME NEW listed \in job.todo, JobCount(listed) PROVE NotReset
  <2>1. job.todo \in SUBSET Listed
    BY <1>1, <1>7, JobNames DEF JobCount
  <2> DEFINE id == listed.id
             row == Touched(Counted(rows[id]))
  <2>2. id \in DOMAIN rows
    BY <2>1 DEF Listed
  <2>3. row.count >= rows[id].count /\ row.phase = rows[id].phase
    BY <1>1, <2>2 DEF RowsOK, Row, Touched, Counted
  <2>4. rows' = [rows EXCEPT ![id] = row]
    BY <1>7 DEF JobCount
  <2> HIDE DEF row
  <2>. QED
    BY <1>1, <2>2, <2>3, <2>4, WrittenRowKeeps
<1>. QED
  BY <1>2, <1>3, <1>4, <1>5, <1>6, <1>7 DEF JobStep

LEMMA StepKeeps ==
    ASSUME HitlInv, [Next]_storeVars PROVE NotReset
<1>1. RowsOK /\ commands \in Nat
  BY Parts
<1>2. ASSUME NEW item \in Item, Open(item) PROVE NotReset
  BY <1>1, <1>2, InsertedRowKeeps DEF Open
<1>3. ASSUME Elsewhere \/ JobFault \/ Kill \/ UNCHANGED storeVars PROVE NotReset
  <2>1. rows' = rows
    BY <1>3 DEF Elsewhere, JobFault, Kill, storeVars
  <2>. QED
    BY <1>1, <2>1, SameRowsKeep
<1>4. ASSUME NEW id \in DOMAIN rows, Expire(id) PROVE NotReset
  <2> DEFINE row == [rows[id] EXCEPT !.expired = TRUE]
  <2>1. row.count >= rows[id].count /\ row.phase = rows[id].phase
    BY <1>1 DEF RowsOK, Row
  <2>2. rows' = [rows EXCEPT ![id] = row]
    BY <1>4 DEF Expire
  <2> HIDE DEF row
  <2>. QED
    BY <1>1, <2>1, <2>2, WrittenRowKeeps
<1>5. ASSUME NEW id \in DOMAIN rows, NEW phase \in QueuePhase, QueueSet(id, phase)
      PROVE  NotReset
  <2>1. UpdatePhase(id, phase) /\ commands' # commands
    BY <1>1, <1>5 DEF QueueSet
  <2> DEFINE row == Touched([rows[id] EXCEPT !.phase = phase])
  <2>2. row.count = rows[id].count /\ row.count \in Nat
    BY <1>1, UpdatedRow
  <2>3. rows' = [rows EXCEPT ![id] = row]
    BY <2>1 DEF UpdatePhase
  <2>4. \A k \in DOMAIN rows : rows[k].count \in Nat
    BY <1>1 DEF RowsOK, Row
  <2> HIDE DEF row
  <2>. QED
    BY <1>1, <2>1, <2>2, <2>3, <2>4 DEF RowsOK, NotReset
<1>. QED
  BY <1>2, <1>3, <1>4, <1>5, CliStepKeeps, JobStepKeeps DEF Next

(* No row is lost, forgets a replan or is asked again but by a command.     *)
THEOREM NothingIsAskedAgainByItself == Spec => AskedAgainOnRequest
<1>1. HitlInv /\ [Next]_storeVars => [NotReset]_storeVars
  BY StepKeeps
<1>. QED
  BY <1>1, ReplansStayBounded, PTL DEF Spec, AskedAgainOnRequest, NotReset
=============================================================================
