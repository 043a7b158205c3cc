------------------------ MODULE QueueDependencyProofs ------------------------
(***************************************************************************)
(* Proofs about QueueDependency, for any number of processes that add and   *)
(* remove dependencies: what a search has found, that a circle takes a row  *)
(* whose command was overtaken, and what a refusal rests on.  Nothing is    *)
(* assumed of Process; that no items wait in a circle is false of the code  *)
(* (NoWaitingCycle) and not claimed.                                        *)
(***************************************************************************)
EXTENDS QueueDependency, TLAPS

(* The table, the searches and the observers keep their types. *)
LEMMA InitType == Init => TypeOK
BY DEF Init, TypeOK, Idle

LEMMA NextType == TypeOK /\ [Next]_vars => TypeOK'
<1> SUFFICES ASSUME TypeOK, [Next]_vars PROVE TypeOK'
  OBVIOUS
<1> USE DEF TypeOK
<1>1. ASSUME NEW p \in Process, NEW work \in Item, NEW after \in Item,
             BeginAdd(p, work, after)
      PROVE  TypeOK'
  <2>1. [active |-> TRUE, work |-> work, after |-> after, stack |-> {after},
         visited |-> {}] \in Search
    BY DEF Search
  <2>. QED
    BY <1>1, <2>1 DEF BeginAdd
<1>2. ASSUME NEW p \in Process, NEW n \in Item, Visit(p, n) PROVE TypeOK'
  <2>1. search[p] \in Search
    BY <1>2 DEF Visit, Idle
  <2>2. search'[p] \in Search
    BY <1>2, <2>1 DEF Visit, Search, DependsOn
  <2>. QED
    BY <1>2, <2>2 DEF Visit, observers
<1>3. ASSUME NEW p \in Process, Reject(p) \/ Abandon(p) PROVE TypeOK'
  BY <1>3 DEF Reject, Abandon, Ended, Forgotten
<1>4. ASSUME NEW p \in Process, Insert(p) PROVE TypeOK'
  <2>1. search[p] \in Search
    BY <1>4 DEF Insert, Idle
  <2> DEFINE row == <<search[p].work, search[p].after>>
  <2>2. row \in Item \X Item
    BY <2>1 DEF Search
  <2>3. deps' = deps \cup {row} /\ raced' \subseteq raced \cup {row}
    BY <1>4 DEF Insert
  <2>4. search' \in [Process -> {Idle} \cup Search]
    BY <1>4 DEF Insert, Ended
  <2>5. lasting' \in [Process -> SUBSET deps']
    BY <1>4, <2>3 DEF Insert
  <2>6. seen' \in [Process -> SUBSET (Item \X Item)]
    BY <1>4, <2>2 DEF Insert
  <2>. QED
    BY <2>2, <2>3, <2>4, <2>5, <2>6
<1>5. ASSUME NEW dep \in deps, Remove(dep) PROVE TypeOK'
  BY <1>5 DEF Remove
<1>6. CASE UNCHANGED vars
  BY <1>6 DEF vars, observers
<1>. QED
  BY <1>1, <1>2, <1>3, <1>4, <1>5, <1>6 DEF Next

-----------------------------------------------------------------------------
LEMMA InitCovers == Init => SearchInv
BY InitType DEF Init, SearchInv, SearchCovers, Idle

LEMMA NextCovers == SearchInv /\ [Next]_vars => SearchInv'
<1> SUFFICES ASSUME SearchInv, [Next]_vars PROVE SearchInv'
  OBVIOUS
<1> USE DEF SearchInv
<1>t. TypeOK'
  BY NextType
<1>1. ASSUME NEW p \in Process, NEW work \in Item, NEW after \in Item,
             BeginAdd(p, work, after)
      PROVE  SearchCovers'
  BY <1>1 DEF BeginAdd, TypeOK, SearchCovers
<1>2. ASSUME NEW p \in Process, NEW n \in Item, Visit(p, n) PROVE SearchCovers'
  <2>1. /\ lasting' = lasting
        /\ search[p].active /\ n \in search[p].stack /\ n # search[p].work
    BY <1>2 DEF Visit, observers
  <2>2. search[p] \in Search
    BY <2>1 DEF TypeOK, Idle
  <2>3. /\ search'[p].work = search[p].work
        /\ search'[p].after = search[p].after
        /\ search'[p].active
        /\ search'[p].visited = search[p].visited \cup {n}
        /\ search'[p].stack = (search[p].stack \ {n}) \cup
              IF n \in search[p].visited THEN {}
              ELSE DependsOn(deps, n) \ (search[p].visited \cup {n})
        /\ \A q \in Process : q # p => search'[q] = search[q]
    BY <1>2, <2>2 DEF Visit, TypeOK, Search
  <2>4. /\ search[p].work # search[p].after
        /\ search[p].work \notin search[p].visited
        /\ search[p].after \in search[p].visited \cup search[p].stack
        /\ \A k \in search[p].visited :
             DependsOn(lasting[p], k) \subseteq search[p].visited \cup search[p].stack
    BY <2>1 DEF SearchCovers
  <2>5. DependsOn(lasting[p], n) \subseteq DependsOn(deps, n)
    BY DEF TypeOK, DependsOn
  <2>6. \A k \in search'[p].visited :
           DependsOn(lasting[p], k) \subseteq search'[p].visited \cup search'[p].stack
    BY <2>3, <2>4, <2>5
  <2>7. ASSUME NEW q \in Process, search'[q].active
        PROVE  /\ search'[q].work # search'[q].after
               /\ search'[q].work \notin search'[q].visited
               /\ search'[q].after \in search'[q].visited \cup search'[q].stack
               /\ \A k \in search'[q].visited :
                    DependsOn(lasting[q], k) \subseteq search'[q].visited \cup search'[q].stack
    <3>1. CASE q = p
      BY <3>1, <2>1, <2>3, <2>4, <2>6
    <3>2. CASE q # p
      BY <3>2, <2>3, <2>7 DEF SearchCovers
    <3>. QED
      BY <3>1, <3>2
  <2>. QED
    BY <2>1, <2>7 DEF SearchCovers
<1>3. ASSUME NEW p \in Process, Reject(p) \/ Abandon(p) \/ Insert(p)
      PROVE  SearchCovers'
  <2>1. /\ search'[p] = Idle
        /\ \A q \in Process : q # p => search'[q] = search[q] /\ lasting'[q] = lasting[q]
    BY <1>3 DEF Reject, Abandon, Insert, Ended, Forgotten, TypeOK
  <2>. QED
    BY <2>1 DEF SearchCovers, Idle
<1>4. ASSUME search' = search, \A p \in Process : lasting'[p] \subseteq lasting[p]
      PROVE  SearchCovers'
  <2>1. \A p \in Process : lasting'[p] \subseteq lasting[p]
    BY <1>4
  <2>2. \A p \in Process, n \in Item : DependsOn(lasting'[p], n) \subseteq DependsOn(lasting[p], n)
    BY <2>1 DEF DependsOn
  <2>3. ASSUME NEW p \in Process, search[p].active
        PROVE  search[p].visited \subseteq Item
    <3>1. search[p] \in Search
      BY <2>3 DEF TypeOK, Idle
    <3>. QED
      BY <3>1 DEF Search
  <2>. QED
    BY <1>4, <2>2, <2>3 DEF SearchCovers
<1>r. ASSUME NEW dep \in deps, Remove(dep) PROVE SearchCovers'
  BY <1>4, <1>r DEF Remove, TypeOK
<1>5. CASE UNCHANGED vars
  BY <1>t, <1>4, <1>5 DEF vars, observers
<1>. QED
  BY <1>t, <1>1, <1>2, <1>3, <1>r, <1>5 DEF Next

(* The search of db.rs misses nothing that was there all the time it ran,   *)
(* however many processes add and remove dependencies between its SELECTs.  *)
THEOREM SearchMissesNothing == Spec => []SearchInv
BY InitCovers, NextCovers, PTL DEF Spec

-----------------------------------------------------------------------------
(* Adding an edge from outside a closed set into it closes no circle. *)
LEMMA EdgeIntoClosedSet ==
    ASSUME NEW rows, rows \subseteq Item \X Item, NoCircleIn(rows),
           NEW work \in Item, NEW after \in Item,
           NEW R \in SUBSET Item, after \in R, work \notin R,
           \A n \in R : DependsOn(rows, n) \subseteq R
    PROVE  NoCircleIn(rows \cup {<<work, after>>})
<1> DEFINE more == rows \cup {<<work, after>>}
<1> SUFFICES ASSUME NEW S \in SUBSET Item, S # {}
             PROVE  \E n \in S : S \cap DependsOn(more, n) = {}
  BY DEF NoCircleIn
<1>1. \A n \in Item : n # work => DependsOn(more, n) = DependsOn(rows, n)
  BY DEF DependsOn
<1>2. DependsOn(more, work) = DependsOn(rows, work) \cup {after}
  BY DEF DependsOn
<1> HIDE DEF more
<1>3. CASE S \cap R # {}
  <2>1. PICK n \in S \cap R : (S \cap R) \cap DependsOn(rows, n) = {}
    BY <1>3 DEF NoCircleIn
  <2>2. DependsOn(rows, n) \subseteq R
    BY <2>1
  <2>. QED
    BY <1>1, <2>1, <2>2
<1>4. CASE S \cap R = {}
  <2>1. PICK n \in S : S \cap DependsOn(rows, n) = {}
    BY DEF NoCircleIn
  <2>2. after \notin S
    BY <1>4
  <2>. QED
    BY <1>1, <1>2, <2>1, <2>2
<1>. QED
  BY <1>3, <1>4

(* Fewer rows make no circle. *)
LEMMA FewerRows ==
    ASSUME NEW rows, NEW fewer \in SUBSET rows, NoCircleIn(rows)
    PROVE  NoCircleIn(fewer)
<1>1. \A n \in Item : DependsOn(fewer, n) \subseteq DependsOn(rows, n)
  BY DEF DependsOn
<1>. QED
  BY <1>1 DEF NoCircleIn

(* What an insertion adds to the rows whose commands were not overtaken: a  *)
(* row into the set its search has visited, or nothing.                     *)
LEMMA InsertClosesNoCircle ==
    ASSUME SearchInv, CirclesNeedARace, NEW p \in Process, Insert(p)
    PROVE  CirclesNeedARace'
<1> DEFINE row == <<search[p].work, search[p].after>>
<1>1. search[p] \in Search
  BY DEF Insert, SearchInv, TypeOK, Idle
<1>2. /\ search[p].work \in Item /\ search[p].after \in Item
      /\ search[p].visited \in SUBSET Item
  BY <1>1 DEF Search
<1>3. /\ search[p].after \in search[p].visited
      /\ search[p].work \notin search[p].visited
      /\ \A n \in search[p].visited :
           DependsOn(lasting[p], n) \subseteq search[p].visited
  BY DEF Insert, SearchInv, SearchCovers
<1>4. /\ deps' = deps \cup {row}
      /\ raced' = IF row \in deps \/ deps \subseteq lasting[p] THEN raced
                  ELSE raced \cup {row}
  BY DEF Insert
<1>5. deps \subseteq Item \X Item /\ raced \subseteq deps
  BY DEF SearchInv, TypeOK
<1>6. CASE deps' \ raced' \subseteq deps \ raced
  BY <1>6, FewerRows DEF CirclesNeedARace
<1>7. CASE row \notin deps /\ deps \subseteq lasting[p]
  <2> DEFINE rows == deps \ raced
  <2>1. \A n \in search[p].visited : DependsOn(rows, n) \subseteq search[p].visited
    BY <1>3, <1>7 DEF DependsOn
  <2>2. rows \subseteq Item \X Item /\ NoCircleIn(rows)
    BY <1>5 DEF CirclesNeedARace
  <2>3. deps' \ raced' = rows \cup {row}
    BY <1>4, <1>5, <1>7
  <2> HIDE DEF rows
  <2>4. NoCircleIn(rows \cup {row})
    BY <1>2, <1>3, <2>1, <2>2, EdgeIntoClosedSet
  <2>. QED
    BY <2>3, <2>4 DEF CirclesNeedARace
<1>8. CASE row \in deps \/ ~(deps \subseteq lasting[p])
  BY <1>4, <1>6, <1>8
<1>. QED
  BY <1>7, <1>8

(* However many processes add and remove dependencies, and wherever they    *)
(* are interrupted: rows whose commands were not overtaken by another       *)
(* insertion form no circle.  It takes two searches at the same time.       *)
THEOREM CirclesTakeARace == Spec => []CirclesNeedARace
<1> DEFINE Inv == SearchInv /\ CirclesNeedARace
<1>1. Init => Inv
  BY InitCovers DEF Init, CirclesNeedARace, NoCircleIn, DependsOn
<1>2. Inv /\ [Next]_vars => Inv'
  <2> SUFFICES ASSUME Inv, [Next]_vars PROVE CirclesNeedARace'
    BY NextCovers
  <2>1. ASSUME NEW p \in Process, Insert(p) PROVE CirclesNeedARace'
    BY <2>1, InsertClosesNoCircle
  <2>2. ASSUME deps' \ raced' \subseteq deps \ raced PROVE CirclesNeedARace'
    BY <2>2, FewerRows DEF CirclesNeedARace
  <2>3. ASSUME NEW dep \in deps, Remove(dep) PROVE CirclesNeedARace'
    BY <2>2, <2>3 DEF Remove
  <2>4. ASSUME NEW p \in Process, NEW work \in Item, NEW after \in Item,
               BeginAdd(p, work, after)
        PROVE  CirclesNeedARace'
    BY <2>2, <2>4 DEF BeginAdd
  <2>5. ASSUME NEW p \in Process, NEW n \in Item, Visit(p, n) PROVE CirclesNeedARace'
    BY <2>2, <2>5 DEF Visit, observers
  <2>6. ASSUME NEW p \in Process, Reject(p) \/ Abandon(p) PROVE CirclesNeedARace'
    BY <2>2, <2>6 DEF Reject, Abandon
  <2>7. CASE UNCHANGED vars
    BY <2>2, <2>7 DEF vars, observers
  <2>. QED
    BY <2>1, <2>3, <2>4, <2>5, <2>6, <2>7 DEF Next
<1>. QED
  BY <1>1, <1>2, PTL DEF Spec

-----------------------------------------------------------------------------
LEMMA LeadsToStart ==
    ASSUME NEW rows, NEW n \in Item PROVE n \in LeadsTo(rows, n)
BY DEF LeadsTo

LEMMA LeadsToNext ==
    ASSUME NEW rows, NEW n \in Item, NEW k \in LeadsTo(rows, n),
           NEW m \in DependsOn(rows, k)
    PROVE  m \in LeadsTo(rows, n)
<1>1. m \in Item /\ k \in Item
  BY DEF DependsOn, LeadsTo
<1>. QED
  BY <1>1 DEF LeadsTo

(* More rows lead further. *)
LEMMA LeadsToGrows ==
    ASSUME NEW rows, NEW more, rows \subseteq more, NEW n \in Item
    PROVE  LeadsTo(rows, n) \subseteq LeadsTo(more, n)
<1> SUFFICES ASSUME NEW m \in LeadsTo(rows, n), NEW S \in SUBSET Item, n \in S,
                    \A k \in S : DependsOn(more, k) \subseteq S
             PROVE  m \in S
  BY DEF LeadsTo
<1>1. \A k \in S : DependsOn(rows, k) \subseteq S
  BY DEF DependsOn
<1>. QED
  BY <1>1 DEF LeadsTo

PathInv == TypeOK /\ SeenWasReachable

LEMMA InitPath == Init => PathInv
BY InitType DEF Init, PathInv, SeenWasReachable, Idle

LEMMA NextPath == PathInv /\ [Next]_vars => PathInv'
<1> SUFFICES ASSUME PathInv, [Next]_vars PROVE SeenWasReachable'
  BY NextType DEF PathInv
<1> USE DEF PathInv
<1>1. ASSUME NEW p \in Process, NEW work \in Item, NEW after \in Item,
             BeginAdd(p, work, after)
      PROVE  SeenWasReachable'
  <2>1. /\ deps' = deps
        /\ seen'[p] = deps /\ search'[p].after = after /\ search'[p].stack = {after}
        /\ \A q \in Process : q # p => search'[q] = search[q] /\ seen'[q] = seen[q]
    BY <1>1 DEF BeginAdd, TypeOK
  <2>2. after \in LeadsTo(deps, after)
    BY LeadsToStart
  <2>3. ASSUME NEW q \in Process, search'[q].active
        PROVE  /\ deps' \subseteq seen'[q]
               /\ search'[q].stack \subseteq LeadsTo(seen'[q], search'[q].after)
    <3>1. CASE q = p
      BY <3>1, <2>1, <2>2
    <3>2. CASE q # p
      BY <3>2, <2>1, <2>3 DEF SeenWasReachable
    <3>. QED
      BY <3>1, <3>2
  <2>. QED
    BY <2>3 DEF SeenWasReachable
<1>2. ASSUME NEW p \in Process, NEW n \in Item, Visit(p, n)
      PROVE  SeenWasReachable'
  <2>1. search[p].active /\ n \in search[p].stack /\ deps' = deps /\ seen' = seen
    BY <1>2 DEF Visit, observers
  <2>2. search[p] \in Search
    BY <2>1 DEF TypeOK, Idle
  <2>3. /\ search'[p].after = search[p].after
        /\ search'[p].stack \subseteq search[p].stack \cup DependsOn(deps, n)
        /\ \A q \in Process : q # p => search'[q] = search[q]
    BY <1>2, <2>2 DEF Visit, TypeOK, Search
  <2>4. search[p].after \in Item
    BY <2>2 DEF Search
  <2>5. /\ deps \subseteq seen[p]
        /\ search[p].stack \subseteq LeadsTo(seen[p], search[p].after)
    BY <2>1 DEF SeenWasReachable
  <2>6. DependsOn(deps, n) \subseteq DependsOn(seen[p], n)
    BY <2>5 DEF DependsOn
  <2>7. DependsOn(seen[p], n) \subseteq LeadsTo(seen[p], search[p].after)
    BY <2>1, <2>4, <2>5, LeadsToNext
  <2>8. search'[p].stack \subseteq LeadsTo(seen[p], search[p].after)
    BY <2>3, <2>5, <2>6, <2>7
  <2>9. ASSUME NEW q \in Process, search'[q].active
        PROVE  /\ deps' \subseteq seen'[q]
               /\ search'[q].stack \subseteq LeadsTo(seen'[q], search'[q].after)
    <3>1. CASE q = p
      BY <3>1, <2>1, <2>3, <2>5, <2>8
    <3>2. CASE q # p
      BY <3>2, <2>1, <2>3, <2>9 DEF SeenWasReachable
    <3>. QED
      BY <3>1, <3>2
  <2>. QED
    BY <2>9 DEF SeenWasReachable
<1>3. ASSUME NEW p \in Process, Reject(p) \/ Abandon(p)
      PROVE  SeenWasReachable'
  <2>1. /\ deps' = deps /\ search'[p] = Idle
        /\ \A q \in Process : q # p => search'[q] = search[q] /\ seen'[q] = seen[q]
    BY <1>3 DEF Reject, Abandon, Ended, Forgotten, TypeOK
  <2>. QED
    BY <2>1 DEF SeenWasReachable, Idle
<1>4. ASSUME NEW p \in Process, Insert(p) PROVE SeenWasReachable'
  <2> DEFINE row == <<search[p].work, search[p].after>>
  <2>1. /\ deps' = deps \cup {row} /\ search'[p] = Idle
        /\ \A q \in Process : q # p => search'[q] = search[q]
        /\ \A q \in Process : q # p /\ search[q].active => seen'[q] = seen[q] \cup {row}
    BY <1>4 DEF Insert, Ended, TypeOK
  <2>2. ASSUME NEW q \in Process, q # p, search[q].active
        PROVE  /\ deps' \subseteq seen'[q]
               /\ search'[q].stack \subseteq LeadsTo(seen'[q], search'[q].after)
    <3>1. search[q] \in Search
      BY <2>2 DEF TypeOK, Idle
    <3>2. search[q].after \in Item
      BY <3>1 DEF Search
    <3>3. /\ deps \subseteq seen[q]
          /\ search[q].stack \subseteq LeadsTo(seen[q], search[q].after)
      BY <2>2 DEF SeenWasReachable
    <3>4. seen'[q] = seen[q] \cup {row} /\ search'[q] = search[q]
      BY <2>1, <2>2
    <3>5. seen[q] \subseteq seen'[q]
      BY <3>4
    <3>6. LeadsTo(seen[q], search[q].after) \subseteq LeadsTo(seen'[q], search[q].after)
      BY <3>2, <3>5, LeadsToGrows
    <3>. QED
      BY <2>1, <3>3, <3>4, <3>6
  <2>. QED
    BY <2>1, <2>2 DEF SeenWasReachable, Idle
<1>5. ASSUME NEW dep \in deps, Remove(dep) PROVE SeenWasReachable'
  BY <1>5 DEF Remove, SeenWasReachable
<1>6. CASE UNCHANGED vars
  BY <1>6 DEF vars, observers, SeenWasReachable
<1>. QED
  BY <1>1, <1>2, <1>3, <1>4, <1>5, <1>6 DEF Next

(* A refusal is never made up: each row of the path it rests on was in the  *)
(* table at some time since its command began, whoever changes the table    *)
(* between the SELECTs.                                                     *)
THEOREM RefusalsHaveAPath == Spec => RefusedForAPath
<1> DEFINE Honest == \A p \in Process :
                        Reject(p) => search[p].work \in LeadsTo(seen[p], search[p].after)
<1>1. PathInv => Honest
  BY DEF PathInv, SeenWasReachable, Reject
<1>2. PathInv /\ [Next]_vars => [Honest]_vars
  BY <1>1
<1>. QED
  BY InitPath, NextPath, <1>2, PTL DEF Spec, RefusedForAPath
=============================================================================
