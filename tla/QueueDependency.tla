--------------------------- MODULE QueueDependency ---------------------------
(***************************************************************************)
(* The dependencies between queue items in the database (belt-infra:       *)
(* db.rs; `belt queue dependency add | remove`).  An insertion is preceded *)
(* by a search for a cycle.  Every command is a process with a connection  *)
(* of its own and no transaction, so between the SELECTs of its search and *)
(* the INSERT other commands may add and remove rows.                      *)
(***************************************************************************)
EXTENDS FiniteSets, Naturals

CONSTANTS
    Item,        \* work_ids
    Process,     \* processes that add dependencies
    MaxDeps      \* bound: rows of the table

ASSUME BoundAssumption == MaxDeps \in Nat

VARIABLES
    deps,        \* rows of queue_dependencies: <<work_id, depends_on>>
    search,      \* process -> the add_queue_dependency it is executing
    \* what only properties read
    lasting,     \* process -> rows there ever since its search began
    seen,        \* process -> rows there at some time since its search began
    raced        \* rows whose command was overtaken by another insertion

observers == <<lasting, seen, raced>>
vars == <<deps, search, observers>>

Idle == [active |-> FALSE]

(* detect_cycle(target = work, start = after).  The SELECT has no ORDER BY, *)
(* so the stack is the set of the nodes on it: any may be the next.         *)
Search == [active : {TRUE}, work : Item, after : Item,
           stack : SUBSET Item, visited : SUBSET Item]

DependsOn(rows, n) == {d \in Item : <<n, d>> \in rows}

Init ==
    /\ deps = {}
    /\ search = [p \in Process |-> Idle]
    /\ lasting = [p \in Process |-> {}]
    /\ seen = [p \in Process |-> {}]
    /\ raced = {}

(* The command of p is over. *)
Ended(p) == search' = [search EXCEPT ![p] = Idle]

Forgotten(p) ==
    /\ lasting' = [lasting EXCEPT ![p] = {}]
    /\ seen' = [seen EXCEPT ![p] = {}]

(* A dependency of an item on itself is refused at once. *)
BeginAdd(p, work, after) ==
    /\ ~search[p].active
    /\ work # after
    /\ search' = [search EXCEPT ![p] =
                    [active |-> TRUE, work |-> work, after |-> after,
                     stack |-> {after}, visited |-> {}]]
    /\ lasting' = [lasting EXCEPT ![p] = deps]
    /\ seen' = [seen EXCEPT ![p] = deps]
    /\ UNCHANGED <<deps, raced>>

(* Variant for a negative control: the children of a node are read, but *)
(* only one of them is followed.                                        *)
VisitOneChild(p, n) ==
    /\ search[p].active
    /\ n \in search[p].stack
    /\ n # search[p].work
    /\ LET s == search[p]
           open == DependsOn(deps, n) \ (s.visited \cup {n})
       IN search' =
            [search EXCEPT
               ![p].visited = @ \cup {n},
               ![p].stack = (@ \ {n}) \cup
                              IF n \in s.visited \/ open = {} THEN {}
                              ELSE {CHOOSE d \in open : TRUE}]
    /\ UNCHANGED <<deps, observers>>

(* One turn of the loop: a node is popped; if it was not visited before its *)
(* dependencies are read and those not visited are pushed.                  *)
Visit(p, n) ==
    /\ search[p].active
    /\ n \in search[p].stack
    /\ n # search[p].work
    /\ LET s == search[p] IN
         search' =
           [search EXCEPT
              ![p].visited = @ \cup {n},
              ![p].stack = (@ \ {n}) \cup
                             IF n \in s.visited THEN {}
                             ELSE DependsOn(deps, n) \ (s.visited \cup {n})]
    /\ UNCHANGED <<deps, observers>>

(* Variant: a dependency that is known already counts as a cycle. *)
RejectKnown(p) ==
    /\ search[p].active
    /\ search[p].stack \cap ({search[p].work} \cup DependsOn(deps, search[p].work)) # {}
    /\ Ended(p) /\ Forgotten(p)
    /\ UNCHANGED <<deps, raced>>

(* The popped node is the work itself: CircularDependency. *)
Reject(p) ==
    /\ search[p].active
    /\ search[p].work \in search[p].stack
    /\ Ended(p) /\ Forgotten(p)
    /\ UNCHANGED <<deps, raced>>

(* Nothing is left to visit: INSERT OR IGNORE.  The row is a raced one if   *)
(* the table holds a row by now that was not there when the search began.   *)
Insert(p) ==
    LET row == <<search[p].work, search[p].after>> IN
    /\ search[p].active
    /\ search[p].stack = {}
    /\ deps' = deps \cup {row}
    /\ Cardinality(deps') <= MaxDeps
    /\ Ended(p)
    /\ lasting' = [lasting EXCEPT ![p] = {}]
    /\ seen' = [q \in Process |-> IF q # p /\ search[q].active THEN seen[q] \cup {row}
                                  ELSE {}]
    /\ raced' = IF row \in deps \/ deps \subseteq lasting[p] THEN raced
                ELSE raced \cup {row}

(* The command is interrupted, or a statement fails (the database is locked *)
(* by another process): nothing was written.                                *)
Abandon(p) ==
    /\ search[p].active
    /\ Ended(p) /\ Forgotten(p)
    /\ UNCHANGED <<deps, raced>>

(* One DELETE, by any process. *)
Remove(dep) ==
    /\ dep \in deps
    /\ deps' = deps \ {dep}
    /\ lasting' = [p \in Process |-> lasting[p] \ {dep}]
    /\ raced' = raced \ {dep}
    /\ UNCHANGED <<search, seen>>

Next ==
    \/ \E p \in Process :
         \/ \E work, after \in Item : BeginAdd(p, work, after)
         \/ \E n \in Item : Visit(p, n)
         \/ Reject(p) \/ Insert(p) \/ Abandon(p)
    \/ \E dep \in deps : Remove(dep)

Spec == Init /\ [][Next]_vars

-----------------------------------------------------------------------------
TypeOK ==
    /\ deps \subseteq Item \X Item
    /\ search \in [Process -> {Idle} \cup Search]
    /\ lasting \in [Process -> SUBSET deps]
    /\ seen \in [Process -> SUBSET (Item \X Item)]
    /\ raced \subseteq deps

(* Every set of items has one that waits for none of the set. *)
NoCircleIn(rows) ==
    \A S \in SUBSET Item :
        S # {} => \E n \in S : S \cap DependsOn(rows, n) = {}

(* What the search relies on: whatever is added and removed while it goes   *)
(* on, no row that was there all the time is overlooked, and the work is    *)
(* not among the visited nodes.  An empty stack therefore means that the    *)
(* visited nodes are closed under those rows.                               *)
SearchCovers ==
    \A p \in Process : search[p].active =>
        /\ search[p].work # search[p].after
        /\ search[p].work \notin search[p].visited
        /\ search[p].after \in search[p].visited \cup search[p].stack
        /\ \A n \in search[p].visited :
             DependsOn(lasting[p], n) \subseteq search[p].visited \cup search[p].stack

SearchInv == TypeOK /\ SearchCovers

(* Every circle has a row of a command that another one overtook.  However  *)
(* many processes add and remove dependencies, and wherever they stop, the  *)
(* rows whose commands were not overtaken form no circle: it takes two      *)
(* commands that search at the same time.                                   *)
CirclesNeedARace == NoCircleIn(deps \ raced)

(* What n leads to through rows: the least set with n closed under them. *)
LeadsTo(rows, n) ==
    {m \in Item : \A S \in SUBSET Item :
        n \in S /\ (\A k \in S : DependsOn(rows, k) \subseteq S) => m \in S}

(* A dependency is refused only for a path from what it should wait for     *)
(* back to the work, each row of which was there at some time while the     *)
(* command ran: all when it began, unless others have added some since.     *)
RefusedForAPath ==
    [][\A p \in Process :
         Reject(p) => search[p].work \in LeadsTo(seen[p], search[p].after)]_vars

(* The inductive invariant behind it: all a search has found could be       *)
(* reached through the rows it may have met.                                *)
SeenWasReachable ==
    \A p \in Process : search[p].active =>
        /\ deps \subseteq seen[p]
        /\ search[p].stack \subseteq LeadsTo(seen[p], search[p].after)

-----------------------------------------------------------------------------
(* What the documentation says of the search and the code does not do.      *)

(* db.rs: the check before the insertion prevents circular dependencies     *)
(* that could cause runtime deadlocks.  No items wait for each other in a   *)
(* circle: the gate of the daemon would keep each of them Ready for ever.   *)
NoWaitingCycle == NoCircleIn(deps)
=============================================================================
