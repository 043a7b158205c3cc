-------------------------- MODULE ConcurrencyTracker --------------------------
(***************************************************************************)
(* The two-level slot counter of the daemon (belt-daemon: concurrency.rs). *)
(* A daemon serves one workspace, so per_workspace has at most one entry:  *)
(* `workspace` is its count (0 when the entry is absent).  Every release   *)
(* saturates at 0 instead of underflowing.                                 *)
(***************************************************************************)
EXTENDS Integers

CONSTANTS MaxTotal,      \* daemon.max_concurrent
          WsLimit        \* workspace.concurrency

ASSUME LimitsAssumption == MaxTotal \in Nat /\ WsLimit \in Nat

Tracker == [workspace : Nat, total : Nat, evaluates : Nat]

NewTracker == [workspace |-> 0, total |-> 0, evaluates |-> 0]

SaturatingPred(n) == IF n = 0 THEN 0 ELSE n - 1

CanSpawn(t) == t.total < MaxTotal

(* Variant for a negative control: one task too many. *)
CanSpawnOneMore(t) == CanSpawn(t) /\ t.workspace <= WsLimit

CanSpawnInWorkspace(t) == CanSpawn(t) /\ t.workspace < WsLimit

Track(t) == [t EXCEPT !.workspace = @ + 1, !.total = @ + 1]

Release(t) == [t EXCEPT !.workspace = SaturatingPred(@),
                        !.total = SaturatingPred(@)]

TrackEvaluate(t) == [t EXCEPT !.evaluates = @ + 1, !.total = @ + 1]

(* Variant: the evaluator's slot is given back to the workspace as well. *)
ReleaseEvaluateTwice(t) == [t EXCEPT !.evaluates = SaturatingPred(@),
                                     !.workspace = @ - 1,
                                     !.total = SaturatingPred(@)]

ReleaseEvaluate(t) == [t EXCEPT !.evaluates = SaturatingPred(@),
                                !.total = SaturatingPred(@)]
=============================================================================
