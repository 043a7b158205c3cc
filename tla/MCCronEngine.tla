----------------------------- MODULE MCCronEngine -----------------------------
(* A small instance of CronEngine for TLC: an hour of two minutes, which is *)
(* a day as well; a built-in job that runs daily and one in intervals.      *)
EXTENDS CronEngine

CONSTANTS j1, daily, interval, c1

Any == [base |-> "any", from |-> Missing, to |-> Missing, slash |-> FALSE, by |-> Missing]
Value(n) == [Any EXCEPT !.base = "value", !.from = n]
Every(n) == [Any EXCEPT !.slash = TRUE, !.by = n]

(* "1 *": one minute of every hour; "*/1 0": every minute of the first. *)
MCExpression ==
    {[kind |-> "expression", minute |-> {Value(1)}, hour |-> {Any}],
     [kind |-> "expression", minute |-> {Every(1)}, hour |-> {Value(0)}]}

MCBuiltinSchedule ==
    [b \in Builtin |->
       IF b = daily THEN [kind |-> "daily", at |-> 1] ELSE [kind |-> "interval", every |-> 2]]
=============================================================================
