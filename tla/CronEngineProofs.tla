--------------------------- MODULE CronEngineProofs ---------------------------
(***************************************************************************)
(* Proofs about CronEngine: what its jobs have to do with the table, that   *)
(* none of them runs twice for a minute, and what a cron field matches.    *)
(***************************************************************************)
EXTENDS CronEngine, TLAPS

Schedules == Expression \cup {BuiltinSchedule[b] : b \in Builtin}

(* A job that may not start again in this minute is registered as the table *)
(* has it, ...                                                              *)
SettledSchedule ==
    daemon.step # "down" =>
        \A n \in DOMAIN table \ (Builtin \cup again) :
            n \in DOMAIN jobs /\ jobs[n].schedule = table[n].schedule

(* ... and if it has started, it is running or nothing will forget that it ran. *)
Remembered(n) ==
    /\ n \in DOMAIN jobs => jobs[n].last = 0
    /\ n \in DOMAIN table \ Builtin => table[n].ran

NotDueAgain ==
    daemon.step # "down" =>
        \A n \in started \ again :
            /\ daemon.step \in {"tick", "run"} => n \notin daemon.due
            /\ (daemon.step = "run" /\ daemon.job = n) \/ Remembered(n)

(* While a tick goes on into another minute nothing starts for that minute. *)
LateTick ==
    daemon.step \in {"tick", "run"} /\ daemon.lag # 0 => started = {}

StartsOnce == SettledSchedule /\ NotDueAgain /\ LateTick

IInv == CronInv /\ StartsOnce
-----------------------------------------------------------------------------
(* The functions the engine is made of. *)
LEMMA OlderType == \A age \in Age : Older(age) \in Age
BY CronBoundsAssumption DEF Older, Age, Never

LEMMA OlderLag == \A lag \in 0..Oldest : Older(lag) \in 0..Oldest
BY CronBoundsAssumption DEF Older, Never

LEMMA NextMinute == clock \in 0..(Day - 1) => (clock + 1) % Day \in 0..(Day - 1)
BY TimeAssumption

LEMMA WithTable ==
    ASSUME CronTypeOK, NEW n \in Name, NEW expression \in Expression
    PROVE  /\ DOMAIN With(table, n, Row(expression)) = DOMAIN table \cup {n}
           /\ With(table, n, Row(expression)) \in
                [DOMAIN With(table, n, Row(expression)) -> Columns(Expression)]
<1> DEFINE rows == With(table, n, Row(expression))
<1>1. Row(expression) \in Columns(Expression)
  BY DEF Row, Columns
<1>2. DOMAIN rows = DOMAIN table \cup {n}
  BY DEF With
<1>3. \A k \in DOMAIN rows : rows[k] \in Columns(Expression)
  BY <1>1, <1>2 DEF With, CronTypeOK
<1>4. rows = [k \in DOMAIN rows |-> rows[k]]
  BY <1>2 DEF With
<1> HIDE DEF rows
<1>5. rows \in [DOMAIN rows -> Columns(Expression)]
  BY <1>3, <1>4
<1>. QED
  BY <1>2, <1>5 DEF rows

LEMMA RecordedTable ==
    ASSUME CronTypeOK, NEW n
    PROVE  /\ DOMAIN Recorded(n) = DOMAIN table
           /\ Recorded(n) \in [DOMAIN table -> Columns(Expression)]
           /\ \A k \in DOMAIN table :
                 /\ Recorded(n)[k].schedule = table[k].schedule
                 /\ Recorded(n)[k].enabled = table[k].enabled
                 /\ table[k].ran => Recorded(n)[k].ran
                 /\ k = n => Recorded(n)[k].ran
<1>1. table \in [DOMAIN table -> Columns(Expression)]
  BY DEF CronTypeOK
<1>. QED
  BY <1>1 DEF Recorded, Columns

LEMMA SyncedType ==
    ASSUME CronTypeOK, NEW n \in DOMAIN table
    PROVE  /\ Synced(n) \in RegisteredJob(Schedules)
           /\ Synced(n).schedule = table[n].schedule
           /\ Synced(n).enabled = table[n].enabled
<1>1. table[n] \in Columns(Expression)
  BY DEF CronTypeOK
<1>2. n \in DOMAIN jobs => jobs[n] \in RegisteredJob(Schedules)
  BY DEF CronTypeOK, Schedules
<1>. QED
  BY <1>1, <1>2 DEF Synced, Registered, RegisteredJob, Columns, Age, Never, Schedules

(* The registered jobs after a handler has returned. *)
LEMMA RanJobs ==
    ASSUME CronTypeOK, daemon.step = "run", Ran
    PROVE  /\ DOMAIN jobs' = DOMAIN jobs
           /\ jobs' \in [DOMAIN jobs -> RegisteredJob(Schedules)]
           /\ \A k \in DOMAIN jobs : /\ jobs'[k].schedule = jobs[k].schedule
                                     /\ jobs'[k].enabled = jobs[k].enabled
                                     /\ k # daemon.job => jobs'[k] = jobs[k]
           /\ jobs'[daemon.job].last = daemon.lag
           /\ daemon.job \in DOMAIN jobs
           /\ daemon.due \subseteq DOMAIN jobs
           /\ daemon.lag \in 0..Oldest
<1>1. daemon.job \in DOMAIN jobs /\ daemon.lag \in 0..Oldest /\ daemon.due \subseteq DOMAIN jobs
  BY DEF CronTypeOK, DaemonType
<1>2. jobs \in [DOMAIN jobs -> RegisteredJob(Schedules)]
  BY DEF CronTypeOK, Schedules
<1>3. jobs[daemon.job] \in RegisteredJob(Schedules)
  BY <1>1, <1>2
<1>4. daemon.lag \in Age
  BY <1>1 DEF Age
<1>5. [jobs[daemon.job] EXCEPT !.last = daemon.lag] \in RegisteredJob(Schedules)
  BY <1>3, <1>4 DEF RegisteredJob
<1>6. jobs' = [jobs EXCEPT ![daemon.job] = [jobs[daemon.job] EXCEPT !.last = daemon.lag]]
  BY DEF Ran
<1>. QED
  BY <1>1, <1>2, <1>3, <1>5, <1>6 DEF RegisteredJob

(* The registered jobs a minute later. *)
LEMMA MinuteJobs ==
    ASSUME CronTypeOK, Minute
    PROVE  /\ DOMAIN jobs' = DOMAIN jobs
           /\ jobs' \in [DOMAIN jobs -> RegisteredJob(Schedules)]
           /\ \A k \in DOMAIN jobs : /\ jobs'[k].schedule = jobs[k].schedule
                                     /\ jobs'[k].enabled = jobs[k].enabled
<1>1. jobs \in [DOMAIN jobs -> RegisteredJob(Schedules)]
  BY DEF CronTypeOK, Schedules
<1>2. ASSUME NEW k \in DOMAIN jobs
      PROVE  /\ [jobs[k] EXCEPT !.last = Older(jobs[k].last)] \in RegisteredJob(Schedules)
             /\ [jobs[k] EXCEPT !.last = Older(jobs[k].last)].schedule = jobs[k].schedule
             /\ [jobs[k] EXCEPT !.last = Older(jobs[k].last)].enabled = jobs[k].enabled
  <2>1. jobs[k] \in RegisteredJob(Schedules)
    BY <1>1
  <2>2. Older(jobs[k].last) \in Age
    BY <2>1, OlderType DEF RegisteredJob
  <2>. QED
    BY <2>1, <2>2 DEF RegisteredJob
<1>3. jobs' = [k \in DOMAIN jobs |-> [jobs[k] EXCEPT !.last = Older(jobs[k].last)]]
  BY DEF Minute
<1>. QED
  BY <1>2, <1>3

(* No job is due that ran in this minute. *)
LEMMA NotDueNow ==
    ASSUME NEW schedule \in Schedules, NEW now \in Nat
    PROVE  ~ShouldRun(schedule, 0, now)
BY ScheduleAssumption DEF ShouldRun, Schedules, Never
-----------------------------------------------------------------------------
(* Types. *)
LEMMA TickingType ==
    ASSUME NEW due, due \subseteq DOMAIN jobs', NEW lag \in 0..Oldest
    PROVE  Ticking(due, lag) \in DaemonType'
BY DEF Ticking, Idle, DaemonType

LEMMA CommandType1 ==
    ASSUME CronTypeOK, NEW p \in Cli, NEW rows, NEW rearms,
           DOMAIN rows \subseteq Name, rows \in [DOMAIN rows -> Columns(Expression)],
           rearms \subseteq Name, Command(p, rows, rearms)
    PROVE  CronTypeOK'
<1>1. cli' \in [Cli -> CommandType]
  BY DEF Command, CronTypeOK, CommandType
<1>2. commands' \in Nat
  BY DEF Command, CronTypeOK
<1>. QED
  BY <1>1, <1>2 DEF Command, CronTypeOK, DaemonType

LEMMA CliType ==
    ASSUME CronTypeOK, NEW p \in Cli, CliStep(p)
    PROVE  CronTypeOK'
<1>0. table \in [DOMAIN table -> Columns(Expression)] /\ DOMAIN table \subseteq Name
  BY DEF CronTypeOK
<1>1. ASSUME NEW n \in Name, NEW expression \in Expression, Add(p, n, expression)
      PROVE  CronTypeOK'
  <2> DEFINE rows == With(table, n, Row(expression))
  <2>0. DOMAIN rows = DOMAIN table \cup {n} /\ rows \in [DOMAIN rows -> Columns(Expression)]
    BY WithTable, Zenon
  <2>1. DOMAIN rows \subseteq Name /\ rows \in [DOMAIN rows -> Columns(Expression)]
    BY <1>0, <2>0
  <2>2. Command(p, rows, {n})
    BY <1>1 DEF Add
  <2> HIDE DEF rows
  <2>. QED
    BY <2>1, <2>2, CommandType1
<1>2. ASSUME NEW n \in Name, NEW expression \in Expression, Update(p, n, expression)
      PROVE  CronTypeOK'
  <2> DEFINE rows == [table EXCEPT ![n].schedule = expression]
  <2>1. DOMAIN rows = DOMAIN table /\ rows \in [DOMAIN table -> Columns(Expression)]
    BY <1>0, <1>2 DEF Columns, Update
  <2>2. Command(p, rows, {n})
    BY <1>2 DEF Update
  <2> HIDE DEF rows
  <2>. QED
    BY <1>0, <2>1, <2>2, CommandType1
<1>3. ASSUME NEW n \in Name, NEW enabled \in BOOLEAN, Toggle(p, n, enabled)
      PROVE  CronTypeOK'
  <2> DEFINE rows == [table EXCEPT ![n].enabled = enabled]
  <2>1. DOMAIN rows = DOMAIN table /\ rows \in [DOMAIN table -> Columns(Expression)]
    BY <1>0, <1>3 DEF Columns, Toggle
  <2>2. Command(p, rows, {})
    BY <1>3 DEF Toggle
  <2> HIDE DEF rows
  <2>. QED
    BY <1>0, <2>1, <2>2, CommandType1
<1>4. ASSUME NEW n \in Name, Remove(p, n)
      PROVE  CronTypeOK'
  <2> DEFINE rows == Without(table, {n})
  <2>1. DOMAIN rows \subseteq Name /\ rows \in [DOMAIN rows -> Columns(Expression)]
    BY <1>0 DEF Without
  <2>2. Command(p, rows, {})
    BY <1>4 DEF Remove
  <2> HIDE DEF rows
  <2>. QED
    BY <2>1, <2>2, CommandType1
<1>5. ASSUME NEW n \in Name, Trigger(p, n)
      PROVE  CronTypeOK'
  <2> DEFINE rows == [table EXCEPT ![n].ran = FALSE]
  <2>1. DOMAIN rows = DOMAIN table /\ rows \in [DOMAIN table -> Columns(Expression)]
    BY <1>0, <1>5 DEF Columns, Trigger
  <2>2. Command(p, rows, {n})
    BY <1>5 DEF Trigger
  <2> HIDE DEF rows
  <2>. QED
    BY <1>0, <2>1, <2>2, CommandType1
<1>6. ASSUME NEW n \in Name, RunScript(p, n)
      PROVE  CronTypeOK'
  BY <1>6 DEF RunScript, CronTypeOK, CommandType, DaemonType
<1>7. CASE Notify(p)
  BY <1>7 DEF Notify, NoCommand, CronTypeOK, CommandType, DaemonType
<1>8. CASE Abandon(p)
  BY <1>8 DEF Abandon, NoCommand, CronTypeOK, CommandType, DaemonType
<1>9. CASE ScriptEnds(p)
  <2>1. DOMAIN table' = DOMAIN table /\ table' \in [DOMAIN table -> Columns(Expression)]
    BY <1>0, <1>9, RecordedTable DEF ScriptEnds
  <2>. QED
    BY <1>9, <2>1 DEF ScriptEnds, NoCommand, CronTypeOK, CommandType, DaemonType
<1>. QED
  BY <1>1, <1>2, <1>3, <1>4, <1>5, <1>6, <1>7, <1>8, <1>9 DEF CliStep

LEMMA DaemonStepType ==
    ASSUME CronTypeOK, BuiltinsStay, DaemonStep
    PROVE  CronTypeOK'
<1>1. CASE Load
  <2>1. \A n \in DOMAIN table \cup Builtin :
          (IF n \in Builtin THEN Compiled[n]
           ELSE Registered(table[n].schedule, table[n].enabled)) \in RegisteredJob(Schedules)
    BY DEF Compiled, Registered, RegisteredJob, Age, Schedules, CronTypeOK, Columns
  <2>2. jobs' \in [DOMAIN table \cup Builtin -> RegisteredJob(Schedules)]
    BY <1>1, <2>1 DEF Load
  <2>. QED
    BY <1>1, <2>2 DEF Load, CronTypeOK, DaemonType, tableVars, Name, Schedules
<1>2. CASE Listen
  BY <1>2 DEF Listen, Idle, CronTypeOK, DaemonType, tableVars
<1>3. CASE BeginTick
  BY <1>3 DEF BeginTick, CronTypeOK, DaemonType, tableVars
<1>4. CASE Accept
  BY <1>4 DEF Accept, CronTypeOK, DaemonType, tableVars
<1>5. CASE Sync
  <2>1. Builtin \subseteq DOMAIN jobs
    BY <1>5 DEF Sync, BuiltinsStay
  <2>2. \A n \in DOMAIN table \cup Builtin :
          (IF n \in Builtin THEN jobs[n] ELSE Synced(n)) \in RegisteredJob(Schedules)
    BY <2>1, SyncedType DEF CronTypeOK, Schedules
  <2>3. jobs' \in [DOMAIN table \cup Builtin -> RegisteredJob(Schedules)]
    BY <1>5, <2>2 DEF Sync
  <2>. QED
    BY <1>5, <2>3 DEF Sync, CronTypeOK, DaemonType, tableVars, Name, Schedules
<1>6. CASE EngineTick
  <2>1. Due \subseteq DOMAIN jobs' /\ 0 \in 0..Oldest
    BY <1>6, CronBoundsAssumption DEF EngineTick, Due
  <2>2. daemon' \in DaemonType'
    BY <1>6, <2>1, TickingType DEF EngineTick
  <2>. QED
    BY <1>6, <2>2 DEF EngineTick, CronTypeOK, tableVars
<1>7. ASSUME NEW n \in Name, Start(n)
      PROVE  CronTypeOK'
  <2>1. daemon.due \subseteq DOMAIN jobs /\ daemon.lag \in 0..Oldest
    BY <1>7 DEF Start, CronTypeOK, DaemonType
  <2>2. daemon' \in DaemonType'
    BY <1>7, <2>1 DEF Start, DaemonType
  <2>. QED
    BY <1>7, <2>2 DEF Start, CronTypeOK, tableVars
<1>8. CASE RunSucceeds
  <2>1. daemon' \in DaemonType'
    BY <1>8, RanJobs, TickingType DEF RunSucceeds
  <2>2. DOMAIN table' = DOMAIN table /\ table' \in [DOMAIN table -> Columns(Expression)]
    BY <1>8, RecordedTable DEF RunSucceeds, CronTypeOK
  <2>3. DOMAIN jobs' = DOMAIN jobs /\ jobs' \in [DOMAIN jobs -> RegisteredJob(Schedules)]
    BY <1>8, RanJobs DEF RunSucceeds
  <2>. QED
    BY <1>8, <2>1, <2>2, <2>3 DEF RunSucceeds, CronTypeOK, Schedules
<1>9. CASE RunFails
  <2>1. daemon' \in DaemonType'
    BY <1>9, RanJobs, TickingType DEF RunFails
  <2>2. DOMAIN jobs' = DOMAIN jobs /\ jobs' \in [DOMAIN jobs -> RegisteredJob(Schedules)]
    BY <1>9, RanJobs DEF RunFails
  <2>3. daemon.job \in DOMAIN jobs
    BY <1>9, RanJobs DEF RunFails
  <2>. QED
    BY <1>9, <2>1, <2>2, <2>3 DEF RunFails, CronTypeOK, Schedules, tableVars
<1>. QED
  BY <1>1, <1>2, <1>3, <1>4, <1>5, <1>6, <1>7, <1>8, <1>9 DEF DaemonStep

LEMMA KillType ==
    ASSUME CronTypeOK, Kill
    PROVE  CronTypeOK'
BY DEF Kill, Down, CronTypeOK, DaemonType, tableVars, RegisteredJob

LEMMA CollectFailsType ==
    ASSUME CronTypeOK, CollectFails
    PROVE  CronTypeOK'
BY DEF CollectFails, Idle, CronTypeOK, DaemonType, tableVars

LEMMA FailedReadType ==
    ASSUME CronTypeOK, LoadFails \/ SyncFails
    PROVE  CronTypeOK'
<1>1. CASE LoadFails
  <2>1. \A b \in Builtin : Registered(BuiltinSchedule[b], TRUE) \in RegisteredJob(Schedules)
    BY DEF Registered, RegisteredJob, Age, Schedules
  <2>2. jobs' \in [Builtin -> RegisteredJob(Schedules)]
    BY <1>1, <2>1 DEF LoadFails, Compiled
  <2>. QED
    BY <1>1, <2>2 DEF LoadFails, CronTypeOK, DaemonType, tableVars, Name, Schedules
<1>2. CASE SyncFails
  BY <1>2 DEF SyncFails, CronTypeOK, DaemonType, tableVars
<1>. QED
  BY <1>1, <1>2

LEMMA MinuteType ==
    ASSUME CronTypeOK, Minute
    PROVE  CronTypeOK'
<1>1. DOMAIN jobs' = DOMAIN jobs /\ jobs' \in [DOMAIN jobs -> RegisteredJob(Schedules)]
  BY MinuteJobs
<1>2. clock' \in 0..(Day - 1)
  BY NextMinute DEF Minute, CronTypeOK
<1>3. daemon' \in DaemonType'
  <2>1. CASE daemon.step \in {"tick", "run"}
    <3>1. daemon \in [step : {"tick"}, due : SUBSET DOMAIN jobs, lag : 0..Oldest]
            \cup [step : {"run"}, due : SUBSET DOMAIN jobs, lag : 0..Oldest, job : DOMAIN jobs]
      BY <2>1 DEF CronTypeOK, DaemonType
    <3>2. Older(daemon.lag) \in 0..Oldest
      BY <3>1, OlderLag
    <3>3. daemon' = [daemon EXCEPT !.lag = Older(daemon.lag)]
      BY <2>1 DEF Minute
    <3>. QED
      BY <1>1, <3>1, <3>2, <3>3 DEF DaemonType
  <2>2. CASE daemon.step \notin {"tick", "run"}
    BY <1>1, <2>2 DEF Minute, CronTypeOK, DaemonType
  <2>. QED
    BY <2>1, <2>2
<1>. QED
  BY <1>1, <1>2, <1>3 DEF Minute, CronTypeOK, Schedules, tableVars

-----------------------------------------------------------------------------
(* Built-in jobs. *)
LEMMA BuiltinsStayStep ==
    ASSUME CronTypeOK, BuiltinsStay, CronNext
    PROVE  BuiltinsStay'
<1>1. ASSUME UNCHANGED jobs, daemon.step = "down" => daemon'.step = "down"
      PROVE  BuiltinsStay'
  BY <1>1 DEF BuiltinsStay
<1>2. ASSUME DOMAIN jobs' = DOMAIN jobs, daemon.step # "down",
             \A k \in DOMAIN jobs : /\ jobs'[k].schedule = jobs[k].schedule
                                    /\ jobs'[k].enabled = jobs[k].enabled
      PROVE  BuiltinsStay'
  BY <1>2 DEF BuiltinsStay
<1>3. ASSUME NEW p \in Cli, CliStep(p)
      PROVE  UNCHANGED <<jobs, daemon>>
  BY <1>3 DEF CliStep, Add, Update, Toggle, Remove, Trigger, RunScript, Command, Notify, Abandon,
              ScriptEnds
<1>4. CASE Load \/ LoadFails
  BY <1>4 DEF Load, LoadFails, BuiltinsStay, Compiled, Registered
<1>5. CASE Sync
  BY <1>5 DEF Sync, BuiltinsStay
<1>6. CASE \/ Listen \/ BeginTick \/ Accept \/ EngineTick \/ CollectFails \/ SyncFails
           \/ \E n \in Name : Start(n)
  BY <1>1, <1>6 DEF Listen, BeginTick, Accept, EngineTick, CollectFails, SyncFails, Start, Idle
<1>7. CASE RunSucceeds \/ RunFails
  <2>1. daemon.step = "run" /\ Ran
    BY <1>7 DEF RunSucceeds, RunFails
  <2>2. /\ DOMAIN jobs' = DOMAIN jobs
        /\ \A k \in DOMAIN jobs : /\ jobs'[k].schedule = jobs[k].schedule
                                  /\ jobs'[k].enabled = jobs[k].enabled
    BY <2>1, RanJobs
  <2>. QED
    BY <1>2, <2>1, <2>2
<1>8. CASE Kill
  BY <1>8 DEF Kill, BuiltinsStay, Down
<1>9. CASE Minute
  <2>1. CASE daemon.step = "down"
    BY <1>9, <2>1 DEF Minute, BuiltinsStay
  <2>2. CASE daemon.step # "down"
    BY <1>2, <1>9, <2>2, MinuteJobs
  <2>. QED
    BY <2>1, <2>2
<1>. QED
  BY <1>1, <1>3, <1>4, <1>5, <1>6, <1>7, <1>8, <1>9 DEF CronNext, DaemonStep

-----------------------------------------------------------------------------
(* The custom jobs and their rows. *)
LEMMA AgreesKept ==
    ASSUME Agrees, DOMAIN table' = DOMAIN table, DOMAIN jobs' = DOMAIN jobs,
           \A n \in DOMAIN table : /\ table'[n].schedule = table[n].schedule
                                   /\ table'[n].enabled = table[n].enabled,
           \A n \in DOMAIN jobs : /\ jobs'[n].schedule = jobs[n].schedule
                                  /\ jobs'[n].enabled = jobs[n].enabled
    PROVE  Agrees'
BY DEF Agrees

LEMMA CommandTold ==
    ASSUME CronTypeOK, NEW p \in Cli, NEW rows, NEW rearms, Command(p, rows, rearms)
    PROVE  SyncedUnlessMissed'
<1>1. cli'[p].step = "notify"
  BY DEF Command, CronTypeOK
<1>. QED
  BY <1>1 DEF SyncedUnlessMissed, Told

LEMMA CliSynced ==
    ASSUME CronTypeOK, SyncedUnlessMissed, NEW p \in Cli, CliStep(p)
    PROVE  SyncedUnlessMissed'
<1>1. ASSUME NEW n \in Name, NEW expression \in Expression,
             Add(p, n, expression) \/ Update(p, n, expression)
      PROVE  SyncedUnlessMissed'
  BY <1>1, CommandTold DEF Add, Update
<1>2. ASSUME NEW n \in Name,
             (\E enabled \in BOOLEAN : Toggle(p, n, enabled)) \/ Remove(p, n) \/ Trigger(p, n)
      PROVE  SyncedUnlessMissed'
  BY <1>2, CommandTold DEF Toggle, Remove, Trigger
<1>3. ASSUME NEW n \in Name, RunScript(p, n)
      PROVE  SyncedUnlessMissed'
  <2>1. \A q \in Cli : cli[q].step = "notify" => cli'[q].step = "notify"
    BY <1>3 DEF RunScript, CronTypeOK
  <2>2. Told => Told'
    BY <1>3, <2>1 DEF RunScript, Told
  <2>3. Agrees => Agrees'
    BY <1>3 DEF RunScript, Agrees
  <2>. QED
    BY <1>3, <2>2, <2>3 DEF RunScript, SyncedUnlessMissed
<1>4. CASE Notify(p)
  <2>1. CASE Listening
    BY <1>4, <2>1 DEF Notify, SyncedUnlessMissed, Told, CronTypeOK
  <2>2. CASE ~Listening
    BY <1>4, <2>2 DEF Notify, SyncedUnlessMissed
  <2>. QED
    BY <2>1, <2>2
<1>5. CASE Abandon(p)
  <2>1. CASE cli[p].step = "notify"
    BY <1>5, <2>1 DEF Abandon, SyncedUnlessMissed
  <2>2. CASE cli[p].step # "notify"
    <3>1. \A q \in Cli : cli[q].step = "notify" => cli'[q].step = "notify"
      BY <1>5, <2>2 DEF Abandon, CronTypeOK
    <3>2. Told => Told'
      BY <1>5, <3>1 DEF Abandon, Told
    <3>3. Agrees => Agrees'
      BY <1>5 DEF Abandon, Agrees
    <3>. QED
      BY <1>5, <2>2, <3>2, <3>3 DEF Abandon, SyncedUnlessMissed
  <2>. QED
    BY <2>1, <2>2
<1>6. CASE ScriptEnds(p)
  <2>1. \A q \in Cli : cli[q].step = "notify" => cli'[q].step = "notify"
    BY <1>6 DEF ScriptEnds, CronTypeOK
  <2>2. Told => Told'
    BY <1>6, <2>1 DEF ScriptEnds, Told
  <2>3. Agrees => Agrees'
    BY <1>6, AgreesKept, RecordedTable DEF ScriptEnds
  <2>. QED
    BY <1>6, <2>2, <2>3 DEF ScriptEnds, SyncedUnlessMissed
<1>. QED
  BY <1>1, <1>2, <1>3, <1>4, <1>5, <1>6 DEF CliStep

LEMMA SyncedUnlessMissedStep ==
    ASSUME CronTypeOK, BuiltinsStay, SyncedUnlessMissed, CronNext
    PROVE  SyncedUnlessMissed'
<1>1. ASSUME NEW p \in Cli, CliStep(p)
      PROVE  SyncedUnlessMissed'
  BY <1>1, CliSynced
<1>2. CASE Load
  BY <1>2 DEF Load, SyncedUnlessMissed, Agrees, Registered, tableVars
<1>3. CASE Listen
  BY <1>3 DEF Listen, Idle, SyncedUnlessMissed, Agrees, Told, tableVars
<1>4. CASE BeginTick
  BY <1>4 DEF BeginTick, SyncedUnlessMissed, Agrees, Told, tableVars
<1>5. CASE Accept
  BY <1>5 DEF Accept, SyncedUnlessMissed, Told
<1>6. CASE Sync
  <2>1. \A n \in DOMAIN table : /\ Synced(n).schedule = table[n].schedule
                                /\ Synced(n).enabled = table[n].enabled
    BY SyncedType
  <2>. QED
    BY <1>6, <2>1 DEF Sync, SyncedUnlessMissed, Agrees, tableVars
<1>7. CASE EngineTick
  BY <1>7 DEF EngineTick, SyncedUnlessMissed, Agrees, Told, tableVars
<1>8. ASSUME NEW n \in Name, Start(n)
      PROVE  SyncedUnlessMissed'
  BY <1>8 DEF Start, SyncedUnlessMissed, Agrees, Told, tableVars
<1>9. CASE RunSucceeds
  <2>0. daemon.step = "run" /\ Ran
    BY <1>9 DEF RunSucceeds
  <2>2. /\ DOMAIN jobs' = DOMAIN jobs
        /\ \A k \in DOMAIN jobs : /\ jobs'[k].schedule = jobs[k].schedule
                                  /\ jobs'[k].enabled = jobs[k].enabled
    BY <2>0, RanJobs
  <2>3. /\ DOMAIN table' = DOMAIN table
        /\ \A n \in DOMAIN table : /\ table'[n].schedule = table[n].schedule
                                   /\ table'[n].enabled = table[n].enabled
    BY <1>9, RecordedTable DEF RunSucceeds
  <2>1. Agrees => Agrees'
    BY <2>2, <2>3, AgreesKept
  <2>. QED
    BY <1>9, <2>1 DEF RunSucceeds, SyncedUnlessMissed, Told
<1>10. CASE RunFails
  <2>0. daemon.step = "run" /\ Ran
    BY <1>10 DEF RunFails
  <2>2. /\ DOMAIN jobs' = DOMAIN jobs
        /\ \A k \in DOMAIN jobs : /\ jobs'[k].schedule = jobs[k].schedule
                                  /\ jobs'[k].enabled = jobs[k].enabled
    BY <2>0, RanJobs
  <2>1. Agrees => Agrees'
    BY <1>10, <2>2, AgreesKept DEF RunFails, tableVars
  <2>. QED
    BY <1>10, <2>1 DEF RunFails, SyncedUnlessMissed, Told, tableVars
<1>11. CASE Kill
  BY <1>11 DEF Kill, Down, SyncedUnlessMissed
<1>12. CASE Minute
  <2>1. Agrees => Agrees'
    BY <1>12, AgreesKept, MinuteJobs DEF Minute, tableVars
  <2>2. daemon'.step = daemon.step
    BY <1>12 DEF Minute, CronTypeOK, DaemonType
  <2>. QED
    BY <1>12, <2>1, <2>2 DEF Minute, SyncedUnlessMissed, Told, tableVars
<1>13. CASE CollectFails
  BY <1>13 DEF CollectFails, Idle, SyncedUnlessMissed, Agrees, Told, tableVars
<1>14. CASE LoadFails \/ SyncFails
  BY <1>14 DEF LoadFails, SyncFails, SyncedUnlessMissed
<1>. QED
  BY <1>1, <1>2, <1>3, <1>4, <1>5, <1>6, <1>7, <1>8, <1>9, <1>10, <1>11, <1>12, <1>13, <1>14
     DEF CronNext, DaemonStep

-----------------------------------------------------------------------------
(* Once in a minute. *)
LEMMA TableStartsOnce ==
    ASSUME StartsOnce, UNCHANGED <<jobs, daemon, started>>, again \subseteq again',
           \A k \in DOMAIN table' \ again' :
              /\ k \in DOMAIN table
              /\ table'[k].schedule = table[k].schedule
              /\ table[k].ran => table'[k].ran
    PROVE  StartsOnce'
<1>1. SettledSchedule'
  BY DEF StartsOnce, SettledSchedule
<1>2. NotDueAgain'
  <2> SUFFICES ASSUME daemon.step # "down", NEW n \in started \ again'
               PROVE  /\ daemon.step \in {"tick", "run"} => n \notin daemon.due
                      /\ (daemon.step = "run" /\ daemon.job = n) \/ Remembered(n)'
    BY DEF NotDueAgain
  <2>1. n \in started \ again
    OBVIOUS
  <2>2. /\ daemon.step \in {"tick", "run"} => n \notin daemon.due
        /\ (daemon.step = "run" /\ daemon.job = n) \/ Remembered(n)
    BY <2>1 DEF StartsOnce, NotDueAgain
  <2>3. Remembered(n) => Remembered(n)'
    BY DEF Remembered
  <2>. QED
    BY <2>2, <2>3
<1>3. LateTick'
  BY DEF StartsOnce, LateTick
<1>. QED
  BY <1>1, <1>2, <1>3 DEF StartsOnce

LEMMA CliStartsOnce ==
    ASSUME CronTypeOK, StartsOnce, NEW p \in Cli, CliStep(p)
    PROVE  StartsOnce'
<1>0. table \in [DOMAIN table -> Columns(Expression)]
  BY DEF CronTypeOK
<1> DEFINE Kept == \A k \in DOMAIN table' \ again' : /\ k \in DOMAIN table
                                                     /\ table'[k].schedule = table[k].schedule
                                                     /\ table[k].ran => table'[k].ran
<1>1. UNCHANGED <<jobs, daemon, started>> /\ again \subseteq again'
  BY DEF CliStep, Add, Update, Toggle, Remove, Trigger, RunScript, Command, Notify, Abandon,
         ScriptEnds
<1>2. ASSUME NEW n \in Name, NEW expression \in Expression, Add(p, n, expression)
      PROVE  Kept
  BY <1>2 DEF Add, Command, With
<1>3. ASSUME NEW n \in Name, NEW expression \in Expression, Update(p, n, expression)
      PROVE  Kept
  BY <1>0, <1>3 DEF Update, Command, Columns
<1>4. ASSUME NEW n \in Name, NEW enabled \in BOOLEAN, Toggle(p, n, enabled)
      PROVE  Kept
  BY <1>0, <1>4 DEF Toggle, Command, Columns
<1>5. ASSUME NEW n \in Name, Remove(p, n)
      PROVE  Kept
  BY <1>5 DEF Remove, Command, Without
<1>6. ASSUME NEW n \in Name, Trigger(p, n)
      PROVE  Kept
  BY <1>0, <1>6 DEF Trigger, Command, Columns
<1>7. ASSUME NEW n \in Name, RunScript(p, n)
      PROVE  Kept
  BY <1>7 DEF RunScript
<1>8. ASSUME Notify(p) \/ Abandon(p)
      PROVE  Kept
  BY <1>8 DEF Notify, Abandon
<1>9. ASSUME ScriptEnds(p)
      PROVE  Kept
  BY <1>9, RecordedTable DEF ScriptEnds
<1>10. Kept
  BY <1>2, <1>3, <1>4, <1>5, <1>6, <1>7, <1>8, <1>9 DEF CliStep
<1>. QED
  BY <1>1, <1>10, TableStartsOnce

(* What the two conjuncts about rows and runs say of one job. *)
LEMMA WhatHasStarted ==
    ASSUME StartsOnce, daemon.step # "down", daemon.step # "run", NEW n \in started \ again
    PROVE  /\ Remembered(n)
           /\ daemon.step = "tick" => n \notin daemon.due
BY DEF StartsOnce, NotDueAgain

LEMMA SyncStartsOnce ==
    ASSUME CronTypeOK, BuiltinsStay, StartsOnce, Sync
    PROVE  StartsOnce'
<1>1. SettledSchedule'
  BY SyncedType DEF SettledSchedule, Sync, tableVars
<1>2. NotDueAgain'
  <2> SUFFICES ASSUME NEW n \in started \ again
               PROVE  Remembered(n)'
    BY DEF NotDueAgain, Sync
  <2>1. Remembered(n)
    BY WhatHasStarted DEF Sync
  <2>2. ASSUME n \in DOMAIN jobs'
        PROVE  jobs'[n].last = 0
    <3>1. CASE n \in Builtin
      BY <2>1, <3>1 DEF Sync, BuiltinsStay, Remembered
    <3>2. CASE n \notin Builtin
      <4>1. n \in DOMAIN table \ Builtin
        BY <2>2, <3>2 DEF Sync
      <4>2. n \in DOMAIN jobs /\ jobs[n].schedule = table[n].schedule
        BY <4>1 DEF Sync, StartsOnce, SettledSchedule
      <4>3. table[n].ran /\ jobs[n].last = 0
        BY <2>1, <4>1, <4>2 DEF Remembered
      <4>4. jobs[n] \in RegisteredJob(Schedules)
        BY <4>2 DEF CronTypeOK, Schedules
      <4>5. Synced(n).last = 0
        BY <4>2, <4>3, <4>4 DEF Synced, RegisteredJob
      <4>. QED
        BY <4>1, <4>5 DEF Sync
    <3>. QED
      BY <3>1, <3>2
  <2>3. table' = table
    BY DEF Sync, tableVars
  <2>. QED
    BY <2>1, <2>2, <2>3 DEF Remembered
<1>3. LateTick'
  BY DEF Sync, LateTick
<1>. QED
  BY <1>1, <1>2, <1>3 DEF StartsOnce

LEMMA EngineTickStartsOnce ==
    ASSUME CronTypeOK, StartsOnce, EngineTick
    PROVE  StartsOnce'
<1>1. SettledSchedule'
  BY DEF SettledSchedule, StartsOnce, EngineTick, tableVars
<1>2. NotDueAgain'
  <2> SUFFICES ASSUME NEW n \in started \ again
               PROVE  n \notin Due /\ Remembered(n)'
    BY DEF NotDueAgain, EngineTick, Ticking, Idle
  <2>1. Remembered(n)
    BY WhatHasStarted DEF EngineTick
  <2>2. ASSUME n \in DOMAIN jobs
        PROVE  ~ShouldRun(jobs[n].schedule, jobs[n].last, clock)
    <3>1. jobs[n].last = 0
      BY <2>1, <2>2 DEF Remembered
    <3>2. jobs[n].schedule \in Schedules
      BY <2>2 DEF CronTypeOK, RegisteredJob, Schedules
    <3>3. clock \in Nat
      BY TimeAssumption DEF CronTypeOK
    <3>. QED
      BY <3>1, <3>2, <3>3, NotDueNow
  <2>. QED
    BY <2>1, <2>2 DEF Due, EngineTick, Remembered, tableVars
<1>3. LateTick'
  BY DEF EngineTick, LateTick, Ticking, Idle
<1>. QED
  BY <1>1, <1>2, <1>3 DEF StartsOnce

LEMMA StartStartsOnce ==
    ASSUME CronTypeOK, StartsOnce, NEW n \in Name, Start(n)
    PROVE  StartsOnce'
<1>0. n \in DOMAIN jobs
  BY DEF Start, CronTypeOK, DaemonType
<1>1. SettledSchedule'
  BY <1>0 DEF SettledSchedule, StartsOnce, Start, Outdated, tableVars
<1>2. NotDueAgain'
  <2> SUFFICES ASSUME NEW k \in started' \ again'
               PROVE  k \notin daemon'.due /\ (k = n \/ Remembered(k)')
    BY DEF NotDueAgain, Start
  <2>1. CASE k = n
    BY <2>1 DEF Start
  <2>2. CASE k # n
    <3>1. k \in started \ again
      BY <2>2 DEF Start
    <3>2. Remembered(k) /\ k \notin daemon.due
      BY <3>1, WhatHasStarted DEF Start
    <3>. QED
      BY <3>2 DEF Start, Remembered, tableVars
  <2>. QED
    BY <2>1, <2>2
<1>3. LateTick'
  BY DEF Start, LateTick, StartsOnce
<1>. QED
  BY <1>1, <1>2, <1>3 DEF StartsOnce

LEMMA RunStartsOnce ==
    ASSUME CronTypeOK, StartsOnce, RunSucceeds \/ RunFails
    PROVE  StartsOnce'
<1>0. daemon.step = "run" /\ Ran
  BY DEF RunSucceeds, RunFails
<1>1. /\ DOMAIN jobs' = DOMAIN jobs
      /\ \A k \in DOMAIN jobs : jobs'[k].schedule = jobs[k].schedule
      /\ \A k \in DOMAIN jobs : k # daemon.job => jobs'[k] = jobs[k]
      /\ jobs'[daemon.job].last = daemon.lag
  BY <1>0, RanJobs
<1>2. /\ DOMAIN table' = DOMAIN table
      /\ \A k \in DOMAIN table : /\ table'[k].schedule = table[k].schedule
                                 /\ table[k].ran => table'[k].ran
  BY RecordedTable DEF RunSucceeds, RunFails, tableVars
<1>3. started' = started /\ again \subseteq again' /\ daemon' = Ticking(daemon.due, daemon.lag)
  BY DEF RunSucceeds, RunFails
<1>4. SettledSchedule'
  BY <1>0, <1>1, <1>2, <1>3 DEF SettledSchedule, StartsOnce
<1>5. NotDueAgain'
  <2> SUFFICES ASSUME NEW k \in started \ again'
               PROVE  k \notin daemon.due /\ Remembered(k)'
    BY <1>3 DEF NotDueAgain, Ticking, Idle
  <2>1. k \notin daemon.due /\ (k = daemon.job \/ Remembered(k))
    BY <1>0, <1>3 DEF StartsOnce, NotDueAgain
  <2>2. daemon.lag = 0
    BY <1>0, <1>3 DEF StartsOnce, LateTick
  <2>3. CASE k = daemon.job
    <3>1. RunSucceeds
      BY <2>3 DEF RunFails
    <3>2. k \in DOMAIN table \ Builtin => table'[k].ran
      BY <2>3, <3>1, RecordedTable DEF RunSucceeds
    <3>. QED
      BY <1>1, <1>2, <2>1, <2>2, <2>3, <3>2 DEF Remembered
  <2>4. CASE k # daemon.job
    BY <1>1, <1>2, <2>1, <2>4 DEF Remembered
  <2>. QED
    BY <2>3, <2>4
<1>6. LateTick'
  BY <1>0, <1>3 DEF LateTick, StartsOnce, Ticking, Idle
<1>. QED
  BY <1>4, <1>5, <1>6 DEF StartsOnce

LEMMA MinuteStartsOnce ==
    ASSUME CronTypeOK, StartsOnce, Minute
    PROVE  StartsOnce'
<1>1. daemon'.step = daemon.step
  BY DEF Minute, CronTypeOK, DaemonType
<1>2. /\ DOMAIN jobs' = DOMAIN jobs
      /\ \A k \in DOMAIN jobs : jobs'[k].schedule = jobs[k].schedule
  BY MinuteJobs
<1>3. SettledSchedule'
  BY <1>1, <1>2 DEF SettledSchedule, StartsOnce, Minute, tableVars
<1>. QED
  BY <1>3 DEF StartsOnce, NotDueAgain, LateTick, Minute

LEMMA StartsOnceStep ==
    ASSUME CronTypeOK, BuiltinsStay, StartsOnce, CronNext
    PROVE  StartsOnce'
<1>1. CASE Load \/ LoadFails
  BY <1>1
  DEF Load, LoadFails, CronTypeOK, StartsOnce, SettledSchedule, NotDueAgain, LateTick, tableVars
<1>2. CASE Listen \/ BeginTick \/ Accept \/ SyncFails \/ CollectFails
  <2>1. /\ UNCHANGED <<table, jobs, started, again>>
        /\ daemon.step \notin {"down", "tick", "run"}
        /\ daemon'.step \notin {"down", "tick", "run"}
    BY <1>2 DEF Listen, BeginTick, Accept, SyncFails, CollectFails, Idle, tableVars
  <2>. QED
    BY <2>1 DEF StartsOnce, SettledSchedule, NotDueAgain, LateTick, Remembered
<1>3. CASE Kill
  BY <1>3 DEF Kill, Down, StartsOnce, SettledSchedule, NotDueAgain, LateTick
<1>. QED
  BY <1>1, <1>2, <1>3, CliStartsOnce, SyncStartsOnce, EngineTickStartsOnce, StartStartsOnce,
     RunStartsOnce, MinuteStartsOnce
     DEF CronNext, DaemonStep

-----------------------------------------------------------------------------
LEMMA InitIInv == CronInit => IInv
<1> SUFFICES ASSUME CronInit
             PROVE  IInv
  OBVIOUS
<1>1. CronTypeOK
  <2>1. table \in [DOMAIN table -> Columns(Expression)] /\ DOMAIN table = {}
    BY DEF CronInit
  <2>2. jobs \in [DOMAIN jobs -> RegisteredJob(Schedules)] /\ DOMAIN jobs = {}
    BY DEF CronInit
  <2>3. daemon \in DaemonType /\ cli \in [Cli -> CommandType]
    BY DEF CronInit, DaemonType, Down, NoCommand, CommandType
  <2>4. clock \in 0..(Day - 1)
    BY TimeAssumption DEF CronInit
  <2>. QED
    BY <2>1, <2>2, <2>3, <2>4 DEF CronInit, CronTypeOK, Schedules
<1>2. BuiltinsStay /\ SyncedUnlessMissed /\ StartsOnce
  BY DEF CronInit, Down, BuiltinsStay, SyncedUnlessMissed, StartsOnce, SettledSchedule,
         NotDueAgain, LateTick
<1>. QED
  BY <1>1, <1>2 DEF IInv, CronInv

LEMMA NextIInv == IInv /\ [CronNext]_vars => IInv'
<1> SUFFICES ASSUME IInv, [CronNext]_vars
             PROVE  IInv'
  OBVIOUS
<1>1. CASE CronNext
  <2>1. CronTypeOK'
    BY <1>1, CliType, DaemonStepType, FailedReadType, CollectFailsType, KillType, MinuteType
    DEF IInv, CronInv, CronNext
  <2>2. BuiltinsStay' /\ SyncedUnlessMissed' /\ StartsOnce'
    BY <1>1, BuiltinsStayStep, SyncedUnlessMissedStep, StartsOnceStep DEF IInv, CronInv
  <2>. QED
    BY <2>1, <2>2 DEF IInv, CronInv
<1>2. CASE UNCHANGED vars
  <2>1. CronTypeOK'
    BY <1>2 DEF vars, IInv, CronInv, CronTypeOK, DaemonType
  <2>2. BuiltinsStay' /\ SyncedUnlessMissed'
    BY <1>2 DEF vars, IInv, CronInv, BuiltinsStay, SyncedUnlessMissed, Agrees, Told
  <2>3. StartsOnce'
    BY <1>2 DEF vars, IInv, StartsOnce, SettledSchedule, NotDueAgain, LateTick, Remembered
  <2>. QED
    BY <2>1, <2>2, <2>3 DEF IInv, CronInv
<1>. QED
  BY <1>1, <1>2

LEMMA CronInductive == CronSpec => []IInv
BY InitIInv, NextIInv, PTL DEF CronSpec

(* For every number of jobs, commands and minutes: a running daemon has the *)
(* custom jobs of the table unless the word of a change is under way or was *)
(* lost or the table could not be read, and its built-in jobs are left alone. *)
THEOREM JobsFollowTheTable == CronSpec => []CronInv
<1>1. IInv => CronInv
  BY DEF IInv
<1>. QED
  BY <1>1, CronInductive, PTL

(* No job starts twice for a minute unless something armed it again. *)
THEOREM JobsStartOnce == CronSpec => OncePerMinute
<1> DEFINE Once == \A n \in Name : Start(n) /\ daemon.lag = 0 /\ n \in started => n \in again
<1>1. IInv => [Once]_vars
  BY DEF IInv, StartsOnce, NotDueAgain, Start
<1>. QED
  BY <1>1, CronInductive, PTL DEF OncePerMinute
-----------------------------------------------------------------------------
(* What is left of n when every by-th is taken is none iff n is one of them. *)
LEMMA MultipleOfStep ==
    ASSUME NEW n \in Nat, NEW by \in Nat \ {0}
    PROVE  n % by = 0 <=> \E k \in 0..n : n = k * by
<1>1. ASSUME n % by = 0 PROVE \E k \in 0..n : n = k * by
  <2> DEFINE k == n \div by
  <2>1. k \in Nat /\ n = (by * k) + (n % by)
    OBVIOUS
  <2>2. n = k * by
    BY <1>1, <2>1
  <2>3. k <= n
    <3> HIDE DEF k
    <3>. QED
      BY <2>1, <2>2
  <2>. QED
    BY <2>1, <2>2, <2>3
<1>2. ASSUME NEW k \in 0..n, n = k * by PROVE n % by = 0
  BY <1>2
<1>. QED
  BY <1>1, <1>2

Natural == {n \in Int : n >= Missing}

(* Every form of a part matches what it denotes, whatever its numbers and   *)
(* however long the clock.                                                   *)
LEMMA PartMeaning ==
    ASSUME NEW max \in Nat, NEW part \in Part(Natural), NEW value \in 0..max
    PROVE  PartMatches(part, value, max) <=> value \in Denoted(part, max)
<1> DEFINE first == IF part.base = "any" THEN 0 ELSE Number(part.from, 0)
           last == IF part.base = "range" THEN Number(part.to, max) ELSE max
<1>1. /\ part.base \in {"any", "value", "range"} /\ part.slash \in BOOLEAN
      /\ part.from \in Natural /\ part.to \in Natural /\ part.by \in Natural
  BY DEF Part
<1>2. first \in Nat /\ last \in Nat
  BY <1>1 DEF Number, Natural, Missing
<1>3. CASE part.slash
  <2>1. PartMatches(part, value, max) <=>
           part.by > 0 /\ value \in first..last /\ (value - first) % part.by = 0
    BY <1>3, Zenon DEF PartMatches
  <2>2. value \in Denoted(part, max) <=>
           /\ ~(part.by <= 0)
           /\ \E k \in 0..max : value = first + k * part.by
           /\ value \in first..last
    <3>1. (CASE part.base = "range" -> Number(part.to, max)
             [] part.base = "value" /\ ~part.slash -> first
             [] OTHER -> max) = last
      BY <1>1, <1>3, Zenon
    <3>. QED
      BY <1>3, <3>1, Zenon DEF Denoted
  <2>3. ASSUME part.by > 0, value \in first..last
        PROVE  (value - first) % part.by = 0 <=>
                  \E k \in 0..max : value = first + k * part.by
    <3> HIDE DEF first, last
    <3>1. part.by \in Nat \ {0} /\ value - first \in Nat /\ value - first <= max
      BY <1>1, <1>2, <2>3 DEF Natural
    <3>2. (value - first) % part.by = 0 <=>
             \E k \in 0..(value - first) : value - first = k * part.by
      BY <3>1, MultipleOfStep
    <3>3. ASSUME NEW k \in 0..max, value = first + k * part.by
          PROVE  k \in 0..(value - first) /\ value - first = k * part.by
      <4>1. value - first = k * part.by
        BY <3>3, <3>1, <1>2
      <4>2. k <= k * part.by
        BY <3>1
      <4>. QED
        BY <4>1, <4>2, <3>1
    <3>4. ASSUME NEW k \in 0..(value - first), value - first = k * part.by
          PROVE  k \in 0..max /\ value = first + k * part.by
      BY <3>4, <3>1, <1>2
    <3>. QED
      BY <3>2, <3>3, <3>4
  <2>. QED
    BY <1>1, <2>1, <2>2, <2>3 DEF Natural
<1>4. CASE ~part.slash
  <2>1. CASE part.base = "any"
    <3>1. PartMatches(part, value, max) /\ first = 0
      BY <1>4, <2>1, Zenon DEF PartMatches
    <3>2. value \in Denoted(part, max) <=>
             ~(1 <= 0) /\ (\E k \in 0..max : value = 0 + k * 1) /\ value \in 0..max
      BY <1>4, <2>1, Zenon DEF Denoted
    <3>3. value = 0 + value * 1
      OBVIOUS
    <3>. QED
      BY <3>1, <3>2, <3>3
  <2>2. CASE part.base = "range"
    <3>1. PartMatches(part, value, max) <=> value \in first..last
      BY <1>4, <2>2, Zenon DEF PartMatches
    <3>2. value \in Denoted(part, max) <=>
             /\ ~(1 <= 0)
             /\ \E k \in 0..max : value = first + k * 1
             /\ value \in first..last
      BY <1>4, <2>2, Zenon DEF Denoted
    <3>3. ASSUME value \in first..last
          PROVE  value - first \in 0..max /\ value = first + (value - first) * 1
      BY <1>2, <3>3
    <3>. QED
      BY <3>1, <3>2, <3>3
  <2>3. CASE part.base = "value"
    <3>1. PartMatches(part, value, max) <=> part.from = value
      BY <1>4, <2>3, Zenon DEF PartMatches
    <3>2. value \in Denoted(part, max) <=>
             /\ ~(1 <= 0) /\ part.from # Missing
             /\ \E k \in 0..max : value = first + k * 1
             /\ value \in first..first
      BY <1>4, <2>3, Zenon DEF Denoted
    <3>3. part.from # Missing => first = part.from
      BY <2>3 DEF Number
    <3>4. value # Missing /\ value = value + 0 * 1
      BY DEF Missing
    <3>. QED
      BY <1>1, <1>2, <3>1, <3>2, <3>3, <3>4
  <2>. QED
    BY <1>1, <2>1, <2>2, <2>3
<1>. QED
  BY <1>3, <1>4

(* Each part of a cron field matches the numbers it is understood to name,  *)
(* and no other, on a clock of any length and at any minute of it.          *)
THEOREM FieldsMatchWhatTheyName == CronSpec => []FieldsMeanWhatTheySay
<1>1. CronTypeOK => FieldsMeanWhatTheySay
  <2> SUFFICES ASSUME CronTypeOK, NEW part \in Part(Missing..Largest + 1),
                      NEW later \in 0..Largest
               PROVE  LET now == (clock + later) % (Largest + 1)
                      IN PartMatches(part, now, Largest) <=> now \in Denoted(part, Largest)
    BY DEF FieldsMeanWhatTheySay
  <2>1. part \in Part(Natural)
    BY TimeAssumption DEF Part, Natural, Missing
  <2>2. (clock + later) % (Largest + 1) \in 0..Largest
    BY TimeAssumption DEF CronTypeOK
  <2>. QED
    BY <2>1, <2>2, PartMeaning, TimeAssumption
<1>. QED
  BY <1>1, JobsFollowTheTable, PTL DEF CronInv
=============================================================================
