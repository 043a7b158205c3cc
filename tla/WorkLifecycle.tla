---------------------------- MODULE WorkLifecycle ----------------------------
(***************************************************************************)
(* What the daemon promises about each piece of work, without its queue,   *)
(* its slots, its loop or its tasks: the abstract specification BeltDaemon *)
(* implements.                                                             *)
(***************************************************************************)
EXTENDS Naturals, FiniteSets

CONSTANTS Work,    \* the pieces of work
          Limit    \* how many may execute at once

VARIABLE status    \* work -> where it is

Status == {"absent", "waiting", "executing", "completed", "human"}

With(s) == {w \in Work : status[w] = s}

Init == status = [w \in Work |-> "absent"]

(* All of moved, and nothing else, goes to the status s. *)
Move(moved, s) == status' = [w \in Work |-> IF w \in moved THEN s ELSE status[w]]

Arrive(w) == status[w] = "absent" /\ Move({w}, "waiting")

Start(w) ==
    /\ status[w] = "waiting"
    /\ Cardinality(With("executing")) < Limit
    /\ Move({w}, "executing")

(* Execution ends with a result to judge, a retry, a human, or nothing. *)
Finish(w) ==
    /\ status[w] = "executing"
    /\ \E s \in {"completed", "waiting", "human", "absent"} : Move({w}, s)

(* Work is judged only after it was executed, or handed over before it is. *)
HandOver ==
    \E moved \in (SUBSET With("waiting")) \cup (SUBSET With("completed")) :
        moved # {} /\ Move(moved, "human")

Close(w) == status[w] = "completed" /\ Move({w}, "absent")

(* The process is restarted and knows of no work. *)
Forget == Move(Work, "absent")

Next ==
    \/ \E w \in Work : Arrive(w) \/ Start(w) \/ Finish(w) \/ Close(w)
    \/ HandOver
    \/ Forget

Spec == Init /\ [][Next]_status
=============================================================================
