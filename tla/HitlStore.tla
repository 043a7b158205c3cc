------------------------------- MODULE HitlStore -------------------------------
(***************************************************************************)
(* Rows of queue_items that wait for a human (belt-infra: db.rs), the      *)
(* commands that answer them (belt-cli: `belt hitl`, `belt queue`), and    *)
(* the daemon's job that expires the unanswered ones (cron.rs:             *)
(* HitlTimeoutJob).  Each statement is a transaction of its own; what a    *)
(* command or the job read before may be stale when it writes.             *)
(***************************************************************************)
EXTENDS Sequences, FiniteSets, Integers, QueuePhases

CONSTANTS
    Item,          \* work_ids of rows that are no companion of a replan
    Cli,           \* processes of the command line
    MaxReplan,     \* MAX_REPLAN_COUNT, 3 in the code
    Terminal,      \* what escalation.terminal of the workspaces resolves to
    MaxCommands,   \* bound: commands given by humans
    MaxFaults      \* bound: failed statements and kills

ASSUME MaxReplanAssumption == MaxReplan \in Nat \ {0}
ASSUME TerminalAssumption ==
    Terminal \subseteq {"Skipped", "Failed", "replan"} /\ Terminal # {}
ASSUME BoundsAssumption == MaxCommands \in Nat /\ MaxFaults \in Nat

VARIABLES
    rows,       \* id -> its columns; no statement deletes a row
    cli,        \* process -> the command it is executing
    job,        \* the run of HitlTimeoutJob
    commands,   \* commands given so far
    faults      \* faults so far

storeVars == <<rows, cli, job, commands, faults>>

(* The companion of the n-th replan of a row is "{work_id}:replan-{n}": an *)
(* id is the item and the numbers behind it.                               *)
Root(item) == [item |-> item, numbers |-> <<>>]
Companion(id, n) == [id EXCEPT !.numbers = Append(@, n)]

(* hitl_terminal_action; "other" is one the job does not act on. *)
TimeoutAction == {"none", "skip", "replan", "other"}

(* own: hitl_timeout_at is set, else the age of updated_at decides. *)
(* expired: that instant has passed.                                *)
HitlRow(n) ==
    [phase |-> "Hitl", count |-> n, own |-> FALSE, action |-> "none",
     expired |-> FALSE]

Waiting == {id \in DOMAIN rows : rows[id].phase = "Hitl"}

NoCommand == [step |-> "idle"]
NoJob == [step |-> "idle", todo |-> {}]

(* Every statement refreshes updated_at, which restarts the default timeout. *)
Touched(row) == [row EXCEPT !.expired = @ /\ row.own]

Counted(row) == [row EXCEPT !.count = @ + 1]

UpdatePhase(id, phase) ==
    rows' = [rows EXCEPT ![id] = Touched([@ EXCEPT !.phase = phase])]

(* Variant: a row that exists is replaced. *)
ReplaceWaiting(id, n) ==
    rows' = [k \in DOMAIN rows \cup {id} |-> IF k = id THEN HitlRow(n) ELSE rows[k]]

(* insert_item of a row that waits: an id that exists is refused (UNIQUE). *)
InsertWaiting(id, n) ==
    rows' = IF id \in DOMAIN rows THEN rows
            ELSE [k \in DOMAIN rows \cup {id} |->
                    IF k = id THEN HitlRow(n) ELSE rows[k]]

Init ==
    /\ rows = [id \in {} |-> HitlRow(0)]
    /\ cli = [p \in Cli |-> NoCommand]
    /\ job = NoJob
    /\ commands = 0
    /\ faults = 0

-----------------------------------------------------------------------------
(* Other parts of the system open rows for humans (SpecLifecycle). *)
Open(item) ==
    /\ InsertWaiting(Root(item), 0)
    /\ UNCHANGED <<cli, job, commands, faults>>

(* Commands and faults of theirs count as well. *)
Elsewhere ==
    /\ \/ commands < MaxCommands /\ commands' = commands + 1 /\ UNCHANGED faults
       \/ faults < MaxFaults /\ faults' = faults + 1 /\ UNCHANGED commands
    /\ UNCHANGED <<rows, cli, job>>

(* Time passes the deadline of a row: of any row with a deadline of its own, *)
(* and of a waiting row by its age.                                          *)
Expire(id) ==
    /\ id \in DOMAIN rows
    /\ ~rows[id].expired
    /\ rows[id].own \/ rows[id].phase = "Hitl"
    /\ rows' = [rows EXCEPT ![id].expired = TRUE]
    /\ UNCHANGED <<cli, job, commands, faults>>

-----------------------------------------------------------------------------
(* The commands.  `command` is given by a human to an idle process. *)
Given(p, command) ==
    /\ cli[p].step = "idle"
    /\ commands < MaxCommands
    /\ commands' = commands + 1
    /\ cli' = [cli EXCEPT ![p] = command]

Ended(p) == cli' = [cli EXCEPT ![p] = NoCommand]

(* `hitl respond`: get_item; the row must be waiting. *)
RespondRead(p, id, answer) ==
    /\ id \in Waiting
    /\ Given(p, [step |-> "answer", id |-> id, answer |-> answer,
                 count |-> rows[id].count])
    /\ UNCHANGED <<rows, job, faults>>

AnsweredPhase == [done |-> "Done", retry |-> "Pending", skip |-> "Skipped"]

RespondWrite(p) ==
    /\ cli[p].step = "answer"
    /\ cli[p].answer # "replan"
    /\ UpdatePhase(cli[p].id, AnsweredPhase[cli[p].answer])
    /\ Ended(p)
    /\ UNCHANGED <<job, commands, faults>>

(* Variant: the limit is compared with the count before it is raised. *)
RespondReplanLate(p) ==
    /\ cli[p].step = "answer"
    /\ cli[p].answer = "replan"
    /\ IF cli[p].count > MaxReplan
         THEN UpdatePhase(cli[p].id, "Failed") /\ Ended(p)
         ELSE /\ UpdatePhase(cli[p].id, "Pending")
              /\ cli' = [cli EXCEPT ![p] = [step |-> "insert", id |-> @.id,
                                            count |-> @.count + 1]]
    /\ UNCHANGED <<job, commands, faults>>

(* The count of the row that was read decides; it is not written back. *)
RespondReplan(p) ==
    /\ cli[p].step = "answer"
    /\ cli[p].answer = "replan"
    /\ IF cli[p].count + 1 > MaxReplan
         THEN UpdatePhase(cli[p].id, "Failed") /\ Ended(p)
         ELSE /\ UpdatePhase(cli[p].id, "Pending")
              /\ cli' = [cli EXCEPT ![p] = [step |-> "insert", id |-> @.id,
                                            count |-> @.count + 1]]
    /\ UNCHANGED <<job, commands, faults>>

RespondInsert(p) ==
    /\ cli[p].step = "insert"
    /\ InsertWaiting(Companion(cli[p].id, cli[p].count), cli[p].count)
    /\ Ended(p)
    /\ UNCHANGED <<job, commands, faults>>

(* `hitl timeout set`: the row must be waiting when it is read. *)
TimeoutRead(p, id, action) ==
    /\ id \in Waiting
    /\ Given(p, [step |-> "timeout", id |-> id, action |-> action])
    /\ UNCHANGED <<rows, job, faults>>

TimeoutWrite(p) ==
    /\ cli[p].step = "timeout"
    /\ rows' = [rows EXCEPT ![cli[p].id] =
                  [@ EXCEPT !.own = TRUE, !.action = cli[p].action,
                            !.expired = FALSE]]
    /\ Ended(p)
    /\ UNCHANGED <<job, commands, faults>>

(* `queue retry-script`: the row must be Failed when it is read; if the *)
(* scripts succeed it becomes Done, else nothing is written.            *)
RetryScriptRead(p, id) ==
    /\ id \in DOMAIN rows
    /\ rows[id].phase = "Failed"
    /\ Given(p, [step |-> "script", id |-> id])
    /\ UNCHANGED <<rows, job, faults>>

RetryScriptWrite(p) ==
    /\ cli[p].step = "script"
    /\ UpdatePhase(cli[p].id, "Done") \/ UNCHANGED rows
    /\ Ended(p)
    /\ UNCHANGED <<job, commands, faults>>

(* `queue hitl`, `queue skip`, and `queue done` after its scripts: one      *)
(* statement that looks at no phase.                                        *)
QueueSet(id, phase) ==
    /\ id \in DOMAIN rows
    /\ phase \in {"Hitl", "Skipped", "Done", "Failed"}
    /\ commands < MaxCommands
    /\ commands' = commands + 1
    /\ UpdatePhase(id, phase)
    /\ UNCHANGED <<cli, job, faults>>

(* A command is interrupted, or a statement of it fails. *)
Abandon(p) ==
    /\ cli[p].step # "idle"
    /\ Ended(p)
    /\ UNCHANGED <<rows, job, commands, faults>>

-----------------------------------------------------------------------------
(* Variant for a negative control: a row with an action the job does not *)
(* know is left alone.                                                    *)
JobListKnown ==
    LET expired == {id \in Waiting : rows[id].expired /\ rows[id].action # "other"} IN
    /\ job.step = "idle"
    /\ expired # {}
    /\ job' = [step |-> "next",
               todo |-> {[id |-> id, action |-> rows[id].action] : id \in expired}]
    /\ UNCHANGED <<rows, cli, commands, faults>>

(* HitlTimeoutJob.execute: the expired rows are listed once ... *)
JobList ==
    LET expired == {id \in Waiting : rows[id].expired} IN
    /\ job.step = "idle"
    /\ expired # {}
    /\ job' = [step |-> "next",
               todo |-> {[id |-> id, action |-> rows[id].action] : id \in expired}]
    /\ UNCHANGED <<rows, cli, commands, faults>>

Next1(todo) == IF todo = {} THEN NoJob ELSE [step |-> "next", todo |-> todo]

(* The action of the row comes first, then that of its workspace. *)
Resolved(action) ==
    CASE action = "skip" -> {"Skipped"}
      [] action = "replan" -> {"replan"}
      [] OTHER -> Terminal

(* ... and then each is given the phase its timeout resolves to, whatever *)
(* has become of it, ...                                                  *)
JobTransition(listed) ==
    /\ job.step = "next"
    /\ listed \in job.todo
    /\ \E phase \in Resolved(listed.action) \ {"replan"} : UpdatePhase(listed.id, phase)
    /\ job' = Next1(job.todo \ {listed})
    /\ UNCHANGED <<cli, commands, faults>>

(* ... or replanned (execute_replan): increment_replan_count, ... *)
JobCount(listed) ==
    /\ job.step = "next"
    /\ listed \in job.todo
    /\ "replan" \in Resolved(listed.action)
    /\ rows' = [rows EXCEPT ![listed.id] = Touched(Counted(@))]
    /\ job' = [step |-> "counted", todo |-> job.todo \ {listed},
               id |-> listed.id, count |-> rows[listed.id].count + 1]
    /\ UNCHANGED <<cli, commands, faults>>

(* ... Failed beyond the limit, ... *)
JobExceeded ==
    /\ job.step = "counted"
    /\ job.count > MaxReplan
    /\ UpdatePhase(job.id, "Failed")
    /\ job' = Next1(job.todo)
    /\ UNCHANGED <<cli, commands, faults>>

(* ... else Pending, ... *)
JobReplanned ==
    /\ job.step = "counted"
    /\ job.count <= MaxReplan
    /\ UpdatePhase(job.id, "Pending")
    /\ job' = [job EXCEPT !.step = "insert"]
    /\ UNCHANGED <<cli, commands, faults>>

(* ... with a companion for the review of the specification. *)
JobCompanion ==
    /\ job.step = "insert"
    /\ InsertWaiting(Companion(job.id, job.count), job.count)
    /\ job' = Next1(job.todo)
    /\ UNCHANGED <<cli, commands, faults>>

(* A statement fails: the job goes on with the next row. *)
JobFault ==
    /\ job.step # "idle"
    /\ faults < MaxFaults
    /\ faults' = faults + 1
    /\ \/ job.step = "next" /\ \E listed \in job.todo : job' = Next1(job.todo \ {listed})
       \/ job.step # "next" /\ job' = Next1(job.todo)
    /\ UNCHANGED <<rows, cli, commands>>

(* The daemon is killed; the next one runs the job again. *)
Kill ==
    /\ job.step # "idle"
    /\ faults < MaxFaults
    /\ faults' = faults + 1
    /\ job' = NoJob
    /\ UNCHANGED <<rows, cli, commands>>

JobStep ==
    \/ JobList \/ JobExceeded \/ JobReplanned \/ JobCompanion
    \/ \E listed \in job.todo : JobTransition(listed) \/ JobCount(listed)

CliStep(p) ==
    \/ \E id \in Waiting, answer \in {"done", "retry", "skip", "replan"} :
         RespondRead(p, id, answer)
    \/ RespondWrite(p) \/ RespondReplan(p) \/ RespondInsert(p)
    \/ \E id \in Waiting, action \in TimeoutAction : TimeoutRead(p, id, action)
    \/ TimeoutWrite(p)
    \/ \E id \in DOMAIN rows : RetryScriptRead(p, id)
    \/ RetryScriptWrite(p)
    \/ Abandon(p)

Next ==
    \/ \E item \in Item : Open(item)
    \/ Elsewhere
    \/ \E id \in DOMAIN rows :
         \/ Expire(id)
         \/ \E phase \in QueuePhase : QueueSet(id, phase)
    \/ \E p \in Cli : CliStep(p)
    \/ JobStep
    \/ JobFault \/ Kill

Spec == Init /\ [][Next]_storeVars

(* The clock goes on and the daemon keeps running its jobs.  Nothing is *)
(* asked of humans: a command may stop half-way for ever.               *)
Fairness ==
    /\ WF_storeVars(JobStep)
    /\ WF_storeVars(\E id \in Waiting : Expire(id))

FairSpec == Spec /\ Fairness

-----------------------------------------------------------------------------
RowId ==
    [item : Item, numbers : Seq(1..MaxReplan)]

Row == [phase : QueuePhase, count : Nat, own : BOOLEAN,
        action : TimeoutAction, expired : BOOLEAN]

Command ==
    {NoCommand}
      \cup [step : {"answer"}, id : DOMAIN rows,
            answer : {"done", "retry", "skip", "replan"}, count : Nat]
      \cup [step : {"insert"}, id : DOMAIN rows, count : 1..MaxReplan]
      \cup [step : {"timeout"}, id : DOMAIN rows, action : TimeoutAction]
      \cup [step : {"script"}, id : DOMAIN rows]

Listed == [id : DOMAIN rows, action : TimeoutAction]

Job ==
    {NoJob}
      \cup [step : {"next"}, todo : SUBSET Listed]
      \cup [step : {"counted", "insert"}, todo : SUBSET Listed,
            id : DOMAIN rows, count : Nat]

TypeOK ==
    /\ DOMAIN rows \subseteq RowId
    /\ rows \in [DOMAIN rows -> Row]
    /\ cli \in [Cli -> Command]
    /\ job \in Job
    /\ commands \in Nat
    /\ faults \in Nat

LastNumber(id) ==
    IF id.numbers = <<>> THEN 0 ELSE id.numbers[Len(id.numbers)]

(* Companions of companions would multiply without end if the limit could   *)
(* be escaped.  However answers, timeouts and interruptions mix, the numbers *)
(* in an id rise and stay within the limit, and a row has used at least the  *)
(* replans in its id, ...                                                    *)
ReplanTree ==
    \A id \in DOMAIN rows :
        /\ \A k \in 1..(Len(id.numbers) - 1) : id.numbers[k] < id.numbers[k + 1]
        /\ LastNumber(id) <= rows[id].count

(* The inductive invariant behind it: a count that was read, or a companion *)
(* that is still to be inserted, is beyond the numbers of its row.          *)
CountsAhead ==
    /\ \A p \in Cli :
         /\ cli[p].step = "answer" => LastNumber(cli[p].id) <= cli[p].count
         /\ cli[p].step = "insert" => LastNumber(cli[p].id) < cli[p].count
    /\ job.step \in {"counted", "insert"} => LastNumber(job.id) < job.count
    /\ job.step = "insert" => job.count <= MaxReplan

HitlInv == TypeOK /\ ReplanTree /\ CountsAhead

(* ... so an item never has more rows than there are sets of replans: the    *)
(* people who answer are asked that often at most about it.                  *)
CompanionsBounded ==
    \A item \in Item :
        Cardinality({id \in DOMAIN rows : id.item = item}) <= 2 ^ MaxReplan

(* What was answered or expired is not asked again by itself: no row is lost *)
(* or forgets a replan, and none goes back to Hitl but by a command, however *)
(* stale the listing of the job, the row a command has read or the companion *)
(* it still inserts.                                                         *)
AskedAgainOnRequest ==
    [][\A id \in DOMAIN rows :
         /\ id \in DOMAIN rows'
         /\ rows'[id].count >= rows[id].count
         /\ rows[id].phase # "Hitl" /\ rows'[id].phase = "Hitl" =>
              commands' # commands]_storeVars

(* Nobody needs to answer: once humans give no more commands and statements *)
(* no longer fail, every row leaves Hitl, the companions that timeouts      *)
(* themselves open included.                                                *)
HitlDrains == <>[](Waiting = {})

(* "If the answer is confirmed first, the expiry is without effect": the    *)
(* job never changes the phase of a row that waits no more.                 *)
AnswerStands ==
    [][\A id \in DOMAIN rows :
         rows[id].phase # "Hitl" /\ rows'[id].phase # rows[id].phase => ~JobStep]_storeVars
=============================================================================
