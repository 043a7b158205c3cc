----------------------------- MODULE CronSchedule -----------------------------
(***************************************************************************)
(* When a cron job is due (belt-daemon: cron.rs).  Time is counted in      *)
(* minutes of a day; a run is remembered by its age.  Of the five fields   *)
(* of an expression the minute and the hour are kept: the others are       *)
(* matched in the same way.                                                *)
(***************************************************************************)
EXTENDS Integers

CONSTANTS
    Hour,      \* minutes of an hour, 60 in the code
    Day,       \* minutes of a day
    Largest    \* bound: numbers in the fields compared with their meaning

ASSUME TimeAssumption ==
    Hour \in Nat \ {0} /\ Day \in Nat \ {0} /\ Day % Hour = 0 /\ Largest \in Nat

(* A number that was left out, or is none. *)
Missing == -1
Never == -1

Number(n, default) == IF n = Missing THEN default ELSE n

(* A part of a field: "*", a value or a range, with a step behind a slash or *)
(* without one.                                                              *)
Part(n) ==
    [base : {"any", "value", "range"}, from : n, to : n, slash : BOOLEAN, by : n]

(* Variant: steps are counted from zero. *)
PartMatchesFromZero(part, value, max) ==
    LET first == IF part.base = "any" THEN 0 ELSE Number(part.from, 0)
        last == IF part.base = "range" THEN Number(part.to, max) ELSE max
    IN IF part.slash
         THEN part.by > 0 /\ value \in first..last /\ value % part.by = 0
         ELSE CASE part.base = "any" -> TRUE
                [] part.base = "range" -> value \in first..last
                [] OTHER -> part.from = value

(* cron_part_matches *)
PartMatches(part, value, max) ==
    LET first == IF part.base = "any" THEN 0 ELSE Number(part.from, 0)
        last == IF part.base = "range" THEN Number(part.to, max) ELSE max
    IN IF part.slash
         THEN part.by > 0 /\ value \in first..last /\ (value - first) % part.by = 0
         ELSE CASE part.base = "any" -> TRUE
                [] part.base = "range" -> value \in first..last
                [] OTHER -> part.from = value

FieldMatches(field, value, max) == \E part \in field : PartMatches(part, value, max)

(* cron_expression_matches *)
ExpressionMatches(expression, now) ==
    /\ FieldMatches(expression.minute, now % Hour, Hour - 1)
    /\ FieldMatches(expression.hour, now \div Hour, (Day \div Hour) - 1)

(* Variant: the minutes are compared without the hours. *)
ShouldRunByMinute(schedule, age, now) ==
    CASE schedule.kind = "interval" -> age = Never \/ age >= schedule.every
      [] schedule.kind = "daily" -> now >= schedule.at /\ (age = Never \/ age > now)
      [] OTHER -> ExpressionMatches(schedule, now) /\ (age = Never \/ age % Hour # 0)

(* CronSchedule::should_run.  A daily job has not run today if its last run *)
(* is older than the day; an expression runs once in a minute.              *)
ShouldRun(schedule, age, now) ==
    CASE schedule.kind = "interval" -> age = Never \/ age >= schedule.every
      [] schedule.kind = "daily" -> now >= schedule.at /\ (age = Never \/ age > now)
      [] OTHER -> ExpressionMatches(schedule, now) /\ age # 0

-----------------------------------------------------------------------------
(* What a part of a cron field denotes, said by counting. *)
Denoted(part, max) ==
    LET first == IF part.base = "any" THEN 0 ELSE Number(part.from, 0)
        last == CASE part.base = "range" -> Number(part.to, max)
                  [] part.base = "value" /\ ~part.slash -> first
                  [] OTHER -> max
        by == IF part.slash THEN part.by ELSE 1
    IN IF by <= 0 \/ (part.base = "value" /\ ~part.slash /\ part.from = Missing)
         THEN {}
         ELSE {first + k * by : k \in 0..max} \cap (first..last) \cap (0..max)
=============================================================================
