--------------------------- MODULE EscalationPolicy ---------------------------
(***************************************************************************)
(* The escalation policy of a workspace (belt-core: escalation.rs): what   *)
(* the n-th failure of a work leads to.  The numbered rules are a function *)
(* from failure counts to actions; the separate `terminal` action of a     *)
(* human-in-the-loop timeout is not read by the daemon loop.               *)
(***************************************************************************)
EXTENDS Naturals, FiniteSets

CONSTANT Policy       \* failure count -> action, a function on a finite set

EscalationAction ==
    {"retry", "retry_with_comment", "skip", "hitl", "replan"}

ASSUME PolicyAssumption ==
    /\ IsFiniteSet(DOMAIN Policy)
    /\ DOMAIN Policy \subseteq Nat
    /\ Policy \in [DOMAIN Policy -> EscalationAction]

(* The rules whose count has been reached. *)
Reached(count) == {k \in DOMAIN Policy : k <= count}

(* Variant for a negative control: the smallest count reached wins. *)
ResolveFirst(count) ==
    IF Reached(count) = {}
    THEN "retry"
    ELSE Policy[CHOOSE k \in Reached(count) : \A j \in Reached(count) : k <= j]

(* Variant: the last rule wins, reached or not. *)
ResolveLast(count) ==
    IF DOMAIN Policy = {}
    THEN "retry"
    ELSE Policy[CHOOSE k \in DOMAIN Policy : \A j \in DOMAIN Policy : j <= k]

(* resolve: the rule with the greatest count reached, Retry without one. *)
Resolve(count) ==
    IF Reached(count) = {}
    THEN "retry"
    ELSE Policy[CHOOSE k \in Reached(count) : \A j \in Reached(count) : j <= k]
=============================================================================
