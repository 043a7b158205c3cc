----------------------------- MODULE QueuePhases -----------------------------
(***************************************************************************)
(* The phases of a queue item and the transitions between them             *)
(* (belt-core: phase.rs, state_machine.rs, queue.rs).                      *)
(***************************************************************************)

QueuePhase == {"Pending", "Ready", "Running", "Completed",
               "Done", "Hitl", "Failed", "Skipped"}

(* is_valid_transition: the table of the 17 pairs an item may move along. *)
ValidTransitions ==
    {<<"Pending", "Ready">>,
     <<"Ready", "Running">>, <<"Ready", "Done">>, <<"Ready", "Hitl">>,
     <<"Running", "Completed">>, <<"Running", "Skipped">>,
     <<"Running", "Failed">>, <<"Running", "Pending">>,
     <<"Completed", "Done">>, <<"Completed", "Hitl">>,
     <<"Completed", "Failed">>,
     <<"Hitl", "Done">>, <<"Hitl", "Skipped">>, <<"Hitl", "Failed">>,
     <<"Hitl", "Pending">>,
     <<"Failed", "Done">>, <<"Failed", "Skipped">>}

(* The phase after `let _ = transit(item, to)`: a move outside the table is *)
(* an error the callers discard, and the item keeps its phase.              *)
Transit(from, to) == IF <<from, to>> \in ValidTransitions THEN to ELSE from
=============================================================================
