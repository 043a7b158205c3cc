------------------------------ MODULE CronEngine ------------------------------
(***************************************************************************)
(* The jobs of the daemon's cron engine (belt-daemon: cron.rs, daemon.rs), *)
(* the table of custom jobs in the database (belt-infra: db.rs), the       *)
(* `belt cron` commands that change it, and the signal by which they ask   *)
(* the daemon to look at it again (belt-infra: ipc.rs).                    *)
(***************************************************************************)
EXTENDS CronSchedule, FiniteSets

CONSTANTS
    Job,           \* names of custom jobs
    Builtin,       \* names of the jobs compiled into the daemon
    BuiltinSchedule,  \* their schedules
    Expression,    \* expressions given to `cron add` and `cron update`
    Cli,           \* processes of the command line
    Oldest,        \* bound: ages of runs are told apart up to it
    MaxCommands,   \* bound: commands given by humans
    MaxFaults      \* bound: kills of the daemon and of commands, reads that fail

Name == Job \cup Builtin

ASSUME NameAssumption == Job \cap Builtin = {}
(* Intervals are not zero. *)
ASSUME ScheduleAssumption ==
    \A schedule \in Expression \cup {BuiltinSchedule[b] : b \in Builtin} :
        schedule.kind = "interval" => schedule.every \in Nat \ {0}
ASSUME CronBoundsAssumption ==
    /\ Oldest \in Nat /\ Oldest >= Day
    /\ MaxCommands \in Nat /\ MaxFaults \in Nat

VARIABLES
    table,      \* name -> row of cron_jobs
    jobs,       \* name -> job registered with the engine
    daemon,     \* what the daemon is doing
    queued,     \* signals that wait to be accepted
    clock,      \* minute of the day
    looked,     \* the daemon has begun a tick in this minute
    cli,        \* process -> the command it is executing
    commands, faults,
    missed,     \* a change no signal will tell of, or a read of the table failed
    started,    \* jobs started by a tick of this minute
    again       \* jobs that may start once more (see OncePerMinute)

tableVars == <<table, cli, commands>>
vars == <<table, jobs, daemon, queued, clock, looked, cli, commands, faults, missed,
          started, again>>

(* last_run_at of the table is NULL, or set; of an engine's job it is an age. *)
Row(expression) == [schedule |-> expression, enabled |-> TRUE, ran |-> FALSE]
Registered(schedule, enabled) == [schedule |-> schedule, enabled |-> enabled, last |-> Never]

Compiled == [b \in Builtin |-> Registered(BuiltinSchedule[b], TRUE)]

Without(f, names) == [k \in DOMAIN f \ names |-> f[k]]
With(f, k, v) == [n \in DOMAIN f \cup {k} |-> IF n = k THEN v ELSE f[n]]

Down == [step |-> "down"]
Idle == [step |-> "idle"]
NoCommand == [step |-> "idle"]

(* A tick of the engine that is `lag` minutes old, the jobs that are due *)
(* and not started yet, and the one that runs.                           *)
Ticking(due, lag) == IF due = {} THEN Idle ELSE [step |-> "tick", due |-> due, lag |-> lag]

CronInit ==
    /\ table = [n \in {} |-> Row(0)]
    /\ jobs = [n \in {} |-> Registered(0, TRUE)]
    /\ daemon = Down
    /\ queued = 0
    /\ clock = 0
    /\ looked = FALSE
    /\ cli = [p \in Cli |-> NoCommand]
    /\ commands = 0 /\ faults = 0
    /\ missed = FALSE
    /\ started = {} /\ again = {}

-----------------------------------------------------------------------------
(* The `belt cron` commands: a statement, then the signal.  `rearms` are the *)
(* jobs that may start again in the same minute because of it.               *)
Command(p, rows, rearms) ==
    /\ cli[p].step = "idle"
    /\ commands < MaxCommands
    /\ commands' = commands + 1
    /\ table' = rows
    /\ cli' = [cli EXCEPT ![p] = [step |-> "notify"]]
    /\ again' = again \cup rearms
    /\ UNCHANGED <<jobs, daemon, queued, clock, looked, faults, missed, started>>

Add(p, n, expression) ==
    /\ n \notin DOMAIN table
    /\ Command(p, With(table, n, Row(expression)), {n})

Update(p, n, expression) ==
    /\ n \in DOMAIN table
    /\ Command(p, [table EXCEPT ![n].schedule = expression], {n})

Toggle(p, n, enabled) ==
    /\ n \in DOMAIN table
    /\ Command(p, [table EXCEPT ![n].enabled = enabled], {})

Remove(p, n) ==
    /\ n \in DOMAIN table
    /\ Command(p, Without(table, {n}), {})

(* `cron trigger`: reset_cron_last_run. *)
Trigger(p, n) ==
    /\ n \in DOMAIN table
    /\ Command(p, [table EXCEPT ![n].ran = FALSE], {n})

(* signal_daemon: it fails while nobody listens, which the commands ignore. *)
Listening == daemon.step \notin {"down", "loaded"}

Notify(p) ==
    /\ cli[p].step = "notify"
    /\ cli' = [cli EXCEPT ![p] = NoCommand]
    /\ queued' = IF Listening THEN queued + 1 ELSE queued
    /\ missed' = (missed \/ ~Listening)
    /\ UNCHANGED <<table, jobs, daemon, clock, looked, commands, faults, started, again>>

(* The command is interrupted, or `cron update` finds no such script after *)
(* it has written the schedule.                                            *)
Abandon(p) ==
    /\ cli[p].step # "idle"
    /\ faults < MaxFaults
    /\ faults' = faults + 1
    /\ cli' = [cli EXCEPT ![p] = NoCommand]
    /\ missed' = (missed \/ cli[p].step = "notify")
    /\ UNCHANGED <<table, jobs, daemon, queued, clock, looked, commands, started, again>>

(* `cron run` executes the script itself; no signal follows. *)
RunScript(p, n) ==
    /\ n \in DOMAIN table
    /\ cli[p].step = "idle"
    /\ commands < MaxCommands
    /\ commands' = commands + 1
    /\ cli' = [cli EXCEPT ![p] = [step |-> "script", job |-> n]]
    /\ UNCHANGED <<table, jobs, daemon, queued, clock, looked, faults, missed, started, again>>

(* update_cron_last_run: no row, no effect. *)
Recorded(n) == IF n \in DOMAIN table THEN [table EXCEPT ![n].ran = TRUE] ELSE table

ScriptEnds(p) ==
    /\ cli[p].step = "script"
    /\ cli' = [cli EXCEPT ![p] = NoCommand]
    /\ table' \in {table, Recorded(cli[p].job)}
    /\ UNCHANGED <<jobs, daemon, queued, clock, looked, commands, faults, missed, started, again>>

-----------------------------------------------------------------------------
(* The daemon starts: built-in jobs, then load_custom_jobs; only later does *)
(* it listen.                                                               *)
Load ==
    /\ daemon.step = "down"
    /\ daemon' = [step |-> "loaded"]
    /\ jobs' = [n \in DOMAIN table \cup Builtin |->
                  IF n \in Builtin THEN Compiled[n]
                  ELSE Registered(table[n].schedule, table[n].enabled)]
    /\ missed' = FALSE
    /\ again' = Name
    /\ UNCHANGED <<tableVars, queued, clock, looked, faults, started>>

(* list_cron_jobs fails while the daemon starts: it goes on with the *)
(* built-in jobs alone.                                              *)
LoadFails ==
    /\ daemon.step = "down"
    /\ faults < MaxFaults
    /\ faults' = faults + 1
    /\ daemon' = [step |-> "loaded"]
    /\ jobs' = Compiled
    /\ missed' = TRUE
    /\ again' = Name
    /\ UNCHANGED <<tableVars, queued, clock, looked, started>>

Listen ==
    /\ daemon.step = "loaded"
    /\ daemon' = Idle
    /\ UNCHANGED <<tableVars, jobs, queued, clock, looked, faults, missed, started, again>>

(* The interval of the loop elapses; a signal that was accepted but not read *)
(* yet is dropped with the future that reads it.                             *)
BeginTick ==
    /\ daemon.step \in {"idle", "accepted"}
    /\ daemon' = [step |-> "work"]
    /\ looked' = TRUE
    /\ missed' = (missed \/ daemon.step = "accepted")
    /\ UNCHANGED <<tableVars, jobs, queued, clock, faults, started, again>>

(* IpcListener::recv: the connection is accepted ... *)
Accept ==
    /\ daemon.step = "idle"
    /\ queued > 0
    /\ queued' = queued - 1
    /\ daemon' = [step |-> "accepted"]
    /\ UNCHANGED <<tableVars, jobs, clock, looked, faults, missed, started, again>>

(* sync_custom_jobs_from_db of one job.  A new schedule makes it a new job; *)
(* a row that never ran makes the engine forget that the job did.           *)
Synced(n) ==
    IF n \in DOMAIN jobs /\ jobs[n].schedule = table[n].schedule
      THEN [jobs[n] EXCEPT !.enabled = table[n].enabled,
                           !.last = IF table[n].ran THEN @ ELSE Never]
      ELSE Registered(table[n].schedule, table[n].enabled)

(* Variant: the jobs that are gone from the table stay registered. *)
SyncKeepsRemoved ==
    /\ daemon.step = "accepted"
    /\ daemon' = [step |-> "work"]
    /\ looked' = TRUE
    /\ jobs' = [n \in DOMAIN table \cup DOMAIN jobs |->
                  IF n \in Builtin \/ n \notin DOMAIN table THEN jobs[n] ELSE Synced(n)]
    /\ missed' = FALSE
    /\ UNCHANGED <<tableVars, queued, clock, faults, started, again>>

(* ... and read: the table is looked at and a tick follows.  Built-in jobs, *)
(* and rows that bear their names, are passed over.                         *)
Sync ==
    /\ daemon.step = "accepted"
    /\ daemon' = [step |-> "work"]
    /\ looked' = TRUE
    /\ jobs' = [n \in DOMAIN table \cup Builtin |->
                  IF n \in Builtin THEN jobs[n] ELSE Synced(n)]
    /\ missed' = FALSE
    /\ UNCHANGED <<tableVars, queued, clock, faults, started, again>>

(* The table cannot be read: the jobs stay as they are, the tick follows. *)
SyncFails ==
    /\ daemon.step = "accepted"
    /\ faults < MaxFaults
    /\ faults' = faults + 1
    /\ daemon' = [step |-> "work"]
    /\ looked' = TRUE
    /\ missed' = TRUE
    /\ UNCHANGED <<tableVars, jobs, queued, clock, started, again>>

(* After the other work of a tick, which may take its time, the engine looks *)
(* at the clock once (CronEngine::tick).                                     *)
Due == {n \in DOMAIN jobs : jobs[n].enabled /\ ShouldRun(jobs[n].schedule, jobs[n].last, clock)}

EngineTick ==
    /\ daemon.step = "work"
    /\ daemon' = Ticking(Due, 0)
    /\ UNCHANGED <<tableVars, jobs, queued, clock, looked, faults, missed, started, again>>

(* A source that fails ends the tick before the engine is asked. *)
CollectFails ==
    /\ daemon.step = "work"
    /\ daemon' = Idle
    /\ UNCHANGED <<tableVars, jobs, queued, clock, looked, faults, missed, started, again>>

(* Its row has another schedule by now: the next sync makes it a new job. *)
Outdated(n) ==
    n \in DOMAIN table \ Builtin /\ table[n].schedule # jobs[n].schedule

Start(n) ==
    /\ daemon.step = "tick"
    /\ n \in daemon.due
    /\ daemon' = [step |-> "run", due |-> daemon.due \ {n}, lag |-> daemon.lag, job |-> n]
    /\ started' = IF daemon.lag = 0 THEN started \cup {n} ELSE started
    /\ again' = IF Outdated(n) THEN again ELSE again \ {n}
    /\ UNCHANGED <<tableVars, jobs, queued, clock, looked, faults, missed>>

(* The handler returns: the engine remembers when its tick began. *)
Ran == jobs' = [jobs EXCEPT ![daemon.job].last = daemon.lag]

(* Variant: a successful run is not recorded in the table. *)
RunSucceedsUnrecorded ==
    /\ daemon.step = "run"
    /\ daemon' = Ticking(daemon.due, daemon.lag)
    /\ Ran
    /\ UNCHANGED <<tableVars, queued, clock, looked, faults, missed, started, again>>

RunSucceeds ==
    /\ daemon.step = "run"
    /\ daemon' = Ticking(daemon.due, daemon.lag)
    /\ Ran
    /\ table' = IF daemon.job \in Builtin THEN table ELSE Recorded(daemon.job)
    /\ UNCHANGED <<cli, commands, queued, clock, looked, faults, missed, started, again>>

(* The script fails, or its success is not recorded. *)
RunFails ==
    /\ daemon.step = "run"
    /\ daemon' = Ticking(daemon.due, daemon.lag)
    /\ Ran
    /\ again' = again \cup {daemon.job}
    /\ UNCHANGED <<tableVars, queued, clock, looked, faults, missed, started>>

(* The daemon is stopped or killed. *)
Kill ==
    /\ daemon.step # "down"
    /\ faults < MaxFaults
    /\ faults' = faults + 1
    /\ daemon' = Down
    /\ jobs' = [n \in {} |-> Registered(0, TRUE)]
    /\ queued' = 0
    /\ UNCHANGED <<tableVars, clock, looked, missed, started, again>>

-----------------------------------------------------------------------------
Older(age) == IF age = Never \/ age = Oldest THEN age ELSE age + 1

(* The clock moves on.  The interval of the loop is shorter than a minute: *)
(* a daemon that waits has begun a tick in every one.                      *)
Minute ==
    /\ daemon.step \in {"idle", "accepted"} => looked
    /\ clock' = (clock + 1) % Day
    /\ looked' = FALSE
    /\ started' = {}
    /\ jobs' = [n \in DOMAIN jobs |-> [jobs[n] EXCEPT !.last = Older(@)]]
    /\ daemon' = IF daemon.step \in {"tick", "run"} THEN [daemon EXCEPT !.lag = Older(@)]
                 ELSE daemon
    /\ UNCHANGED <<tableVars, queued, faults, missed, again>>

CliStep(p) ==
    \/ \E n \in Name :
         \/ \E expression \in Expression : Add(p, n, expression) \/ Update(p, n, expression)
         \/ \E enabled \in BOOLEAN : Toggle(p, n, enabled)
         \/ Remove(p, n) \/ Trigger(p, n) \/ RunScript(p, n)
    \/ Notify(p) \/ Abandon(p) \/ ScriptEnds(p)

DaemonStep ==
    \/ Load \/ Listen \/ BeginTick \/ Accept \/ Sync \/ EngineTick
    \/ \E n \in Name : Start(n)
    \/ RunSucceeds \/ RunFails

CronNext ==
    \/ \E p \in Cli : CliStep(p)
    \/ DaemonStep \/ LoadFails \/ SyncFails \/ CollectFails \/ Kill
    \/ Minute

CronSpec == CronInit /\ [][CronNext]_vars

(* The clock goes on, the daemon is started again and its handlers return; *)
(* the sources do not fail in every tick.                                  *)
FairCron == CronSpec /\ WF_vars(Minute) /\ WF_vars(DaemonStep) /\ SF_vars(EngineTick)

-----------------------------------------------------------------------------
Columns(schedules) == [schedule : schedules, enabled : BOOLEAN, ran : BOOLEAN]

Age == {Never} \cup 0..Oldest

RegisteredJob(schedules) == [schedule : schedules, enabled : BOOLEAN, last : Age]

DaemonType ==
    [step : {"down", "loaded", "idle", "accepted", "work"}]
      \cup [step : {"tick"}, due : SUBSET DOMAIN jobs, lag : 0..Oldest]
      \cup [step : {"run"}, due : SUBSET DOMAIN jobs, lag : 0..Oldest, job : DOMAIN jobs]

CommandType == [step : {"idle", "notify"}] \cup [step : {"script"}, job : Name]

CronTypeOK ==
    /\ DOMAIN table \subseteq Name
    /\ table \in [DOMAIN table -> Columns(Expression)]
    /\ DOMAIN jobs \subseteq Name
    /\ jobs \in [DOMAIN jobs ->
                   RegisteredJob(Expression \cup {BuiltinSchedule[b] : b \in Builtin})]
    /\ daemon \in DaemonType
    /\ queued \in Nat
    /\ cli \in [Cli -> CommandType]
    /\ commands \in Nat /\ faults \in Nat
    /\ clock \in 0..(Day - 1)
    /\ looked \in BOOLEAN /\ missed \in BOOLEAN
    /\ started \subseteq Name /\ again \subseteq Name

(* Rows that bear the name of a built-in job, and all that commands do to    *)
(* them, leave the built-in jobs of a running daemon as they were compiled. *)
BuiltinsStay ==
    daemon.step # "down" =>
        \A b \in Builtin : /\ b \in DOMAIN jobs
                           /\ jobs[b].schedule = BuiltinSchedule[b]
                           /\ jobs[b].enabled

Agrees ==
    /\ DOMAIN jobs \ Builtin = DOMAIN table \ Builtin
    /\ \A n \in DOMAIN table \ Builtin :
         jobs[n].schedule = table[n].schedule /\ jobs[n].enabled = table[n].enabled

Told == queued > 0 \/ daemon.step = "accepted" \/ \E p \in Cli : cli[p].step = "notify"

(* However commands, ticks and restarts interleave, a running daemon has the *)
(* custom jobs of the table, with their schedules and switches, unless it is *)
(* still to be told of a change, the word of one was lost, or the table could *)
(* not be read when it was last looked at.                                   *)
SyncedUnlessMissed == daemon.step # "down" /\ ~Told /\ ~missed => Agrees

CronInv == CronTypeOK /\ BuiltinsStay /\ SyncedUnlessMissed

(* A job starts once for a minute, unless in between it was triggered, given *)
(* a schedule, added anew, failed or not recorded, or the daemon started     *)
(* again: a signal meant for another job does not run it twice.              *)
OncePerMinute ==
    [][\A n \in Name :
         Start(n) /\ daemon.lag = 0 /\ n \in started => n \in again]_vars

(* Jobs go on: a built-in job that runs in intervals is started again and   *)
(* again, and every other enabled job is whose schedule names some minute,  *)
(* if from some time on the daemon is back to waiting before the minute is  *)
(* over and no source fails while a job is due.                             *)
JobsRecur ==
    /\ \A b \in Builtin : BuiltinSchedule[b].kind = "interval" => []<><<Start(b)>>_vars
    /\ <>[][(CollectFails => Due = {}) /\ (Minute => daemon.step = "idle")]_vars =>
         \A n \in Name :
            <>[](/\ n \in DOMAIN jobs
                 /\ jobs[n].enabled
                 /\ \E now \in 0..(Day - 1) : ShouldRun(jobs[n].schedule, Never, now))
              => []<><<Start(n)>>_vars

(* Each form of a part ("*", "a", "a-b", and these with "/n"; numbers left   *)
(* out, zero and past the end included) matches the numbers it is understood *)
(* to name: on a clock of Largest + 1 minutes, every n-th from its start to  *)
(* its end, and no other.  No state bears on it but the minute from which    *)
(* the clock goes round once: one look suffices, as the first daemon loads.  *)
FieldsMeanWhatTheySay ==
    daemon.step = "loaded" /\ commands = 0 /\ faults = 0 =>
        \A part \in Part(Missing..Largest + 1), later \in 0..Largest :
            LET now == (clock + later) % (Largest + 1)
            IN PartMatches(part, now, Largest) <=> now \in Denoted(part, Largest)

(* "This is cancel-safe": a signal that was delivered makes the daemon look *)
(* at the table.                                                            *)
DeliveredIsHandled == queued > 0 ~> (Agrees \/ daemon.step = "down")
=============================================================================
