-------------------------- MODULE SpecLifecycleProofs --------------------------
(***************************************************************************)
(* The specs and their reviews only take steps that HitlStore has, so what *)
(* is proved of its rows holds with specs, gap issues and kills as well.   *)
(***************************************************************************)
EXTENDS SpecLifecycle, HitlStoreProofs, FiniteSetTheorems

(* What the steps of the job and of the commands do to their own state. *)
LEMMA GapSpecType ==
    ASSUME gap \in GapType, gap.step \notin {"idle", "next"}
    PROVE  gap.spec \in SpecId
BY DEF GapType

LEMMA GapLists ==
    ASSUME gap \in GapType
    PROVE  gap.gaps \in SUBSET SpecId /\ gap.covered \in SUBSET SpecId
BY DEF GapType

LEMMA GapAtType ==
    ASSUME gap \in GapType, NEW s \in SpecId,
           NEW step \in {"search", "other", "create", "issues", "completing", "test", "tell"},
           GapAt(step, s)
    PROVE  gap' \in GapType /\ gap'.step = step /\ gap'.spec = s
BY GapLists DEF GapAt, GapType

LEMMA GapRestType ==
    ASSUME gap \in GapType, NEW s, GapRest(s)
    PROVE  gap' \in GapType /\ gap'.step \in {"idle", "next"}
<1>1. gap.gaps \ {s} \in SUBSET SpecId /\ gap.covered \ {s} \in SUBSET SpecId
  BY GapLists
<1>2. NoGap \in GapType /\ NoGap.step = "idle"
  BY DEF NoGap, GapType
<1>. QED
  BY <1>1, <1>2 DEF GapRest, GapType

LEMMA SpecCommandSpec ==
    ASSUME LifecycleTypeOK, NEW p \in Cli, specCli[p].step # "idle"
    PROVE  specCli[p].spec \in SpecId
BY DEF LifecycleTypeOK, SpecCommandType, Nothing

LEMMA ThenType ==
    ASSUME LifecycleTypeOK, NEW p \in Cli, NEW rest \in SpecCommandType, Then(p, rest)
    PROVE  specCli' \in [Cli -> SpecCommandType]
BY DEF LifecycleTypeOK, Then

LEMMA NothingType == Nothing \in SpecCommandType
BY DEF SpecCommandType

(* The issues open for a gap are finitely many; fewer of them open does not *)
(* raise their number, one more raises it by one at most.                   *)
LEMMA OpenFinite ==
    ASSUME NEW s \in SpecId
    PROVE  IsFiniteSet(OpenGapIssues(s)) /\ Cardinality(OpenGapIssues(s)) \in Nat
<1>1. OpenGapIssues(s) \subseteq Issue /\ IsFiniteSet(Issue)
  BY IssueAssumption DEF OpenGapIssues
<1>. QED
  BY <1>1, FS_Subset, FS_CardinalityType

LEMMA FewerOpen ==
    ASSUME NEW s \in SpecId, OpenGapIssues(s)' \subseteq OpenGapIssues(s)
    PROVE  /\ Cardinality(OpenGapIssues(s)') <= Cardinality(OpenGapIssues(s))
           /\ Cardinality(OpenGapIssues(s)') \in Nat
<1>1. IsFiniteSet(OpenGapIssues(s)')
  BY OpenFinite, FS_Subset
<1>. QED
  BY <1>1, OpenFinite, FS_Subset, FS_CardinalityType

(* A step that opens no gap issue, counts no search as failed and does not *)
(* reach the creation of an issue keeps both bounds.                       *)
LEMMA NothingOpened ==
    ASSUME LifecycleInv, missed' = missed,
           \A s \in SpecId : OpenGapIssues(s)' \subseteq OpenGapIssues(s),
           gap' = gap \/ gap'.step # "create"
    PROVE  OneOpenGapIssue' /\ NoneSeenAtCreate'
<1>1. missed \in Nat /\ gap \in GapType
  BY DEF LifecycleInv, LifecycleTypeOK
<1>2. \A s \in SpecId : Cardinality(OpenGapIssues(s)) \in Nat
  BY OpenFinite
<1>3. OneOpenGapIssue'
  BY <1>1, <1>2, FewerOpen DEF LifecycleInv, OneOpenGapIssue
<1>4. CASE gap' = gap /\ gap.step = "create"
  <2>1. PICK s \in SpecId : s = gap.spec
    BY <1>1, <1>4, GapSpecType
  <2>2. Cardinality(OpenGapIssues(s)) <= missed
    BY <1>4, <2>1 DEF LifecycleInv, NoneSeenAtCreate
  <2>3. Cardinality(OpenGapIssues(s)') <= missed
    BY <1>1, <1>2, <2>2, FewerOpen
  <2>4. gap'.spec = s /\ missed' = missed
    BY <1>4, <2>1
  <2>5. OpenGapIssues(s)' = {n \in Issue : issues'[gap'.spec][n] = "open"}
    BY <2>4 DEF OpenGapIssues
  <2>. QED
    BY <1>3, <2>3, <2>4, <2>5 DEF NoneSeenAtCreate, OpenGapIssues
<1>5. CASE ~(gap' = gap /\ gap.step = "create")
  BY <1>3, <1>5 DEF NoneSeenAtCreate
<1>. QED
  BY <1>4, <1>5

(* Steps that write one column keep its type. *)
LEMMA IssueSetOK ==
    ASSUME LifecycleTypeOK, NEW s \in SpecId, NEW n \in Number,
           NEW v \in {"none", "open", "closed"}, n \notin Issue \/ v # "open",
           issues' = [issues EXCEPT ![s][n] = v]
    PROVE  /\ issues' \in [SpecId -> [Number -> {"none", "open", "closed"}]]
           /\ \A t \in SpecId : OpenGapIssues(t)' \subseteq OpenGapIssues(t)
<1>1. issues \in [SpecId -> [Number -> {"none", "open", "closed"}]]
         /\ Issue \subseteq Number
  BY DEF LifecycleTypeOK, Number
<1>2. issues' \in [SpecId -> [Number -> {"none", "open", "closed"}]]
  BY <1>1
<1>3. ASSUME NEW t \in SpecId, NEW m \in Issue, issues'[t][m] = "open"
      PROVE  issues[t][m] = "open"
  BY <1>1, <1>3
<1>. QED
  BY <1>2, <1>3 DEF OpenGapIssues

LEMMA StatusSetOK ==
    ASSUME LifecycleTypeOK, NEW s \in SpecId, NEW v \in SpecStatus,
           status' = [status EXCEPT ![s] = v]
    PROVE  status' \in [SpecId -> SpecStatus \cup {"none"}]
BY DEF LifecycleTypeOK

LEMMA LinksSetOK ==
    ASSUME LifecycleTypeOK, NEW s \in SpecId, NEW v \in SUBSET Number,
           links' = [links EXCEPT ![s] = v]
    PROVE  links' \in [SpecId -> SUBSET Number]
BY DEF LifecycleTypeOK

LEMMA DecomposedSetOK ==
    ASSUME LifecycleTypeOK, NEW s \in SpecId, NEW v \in SUBSET Child,
           decomposed' = [decomposed EXCEPT ![s] = v]
    PROVE  decomposed' \in [SpecId -> SUBSET Child]
BY DEF LifecycleTypeOK

LEMMA LinkIssueOK ==
    ASSUME LifecycleTypeOK, NEW s \in SpecId, NEW n \in Number, LinkIssue(s, n)
    PROVE  links' \in [SpecId -> SUBSET Number]
<1>1. CASE UNCHANGED links
  BY <1>1 DEF LifecycleTypeOK
<1>2. CASE links' = [links EXCEPT ![s] = @ \cup {n}]
  BY <1>2 DEF LifecycleTypeOK
<1>. QED
  BY <1>1, <1>2 DEF LinkIssue

LEMMA NumbersApart ==
    0 \in Number /\ 0 \notin Issue
      /\ \A n \in Child : n \in Number /\ n \notin Issue
BY IssueAssumption, ChildAssumption DEF Number

(* The commands keep the types and open no gap issue: those that add a spec ... *)
LEMMA AddStepOK ==
    ASSUME LifecycleInv, NEW p \in Cli,
           \/ \E s \in SpecId, conflict \in Overlap : AddSpec(p, s, conflict)
           \/ AddReview(p) \/ AddActivate(p) \/ AddParent(p) \/ AddLink(p)
    PROVE  LifecycleInv'
<1>1. LifecycleTypeOK
  BY DEF LifecycleInv
<1>2. ASSUME NEW s \in SpecId, NEW conflict \in Overlap, AddSpec(p, s, conflict)
      PROVE  LifecycleTypeOK'
  <2>1. [step |-> IF conflict = "none" THEN "activate" ELSE "review",
         spec |-> s, conflict |-> conflict] \in SpecCommandType
    BY DEF SpecCommandType
  <2>2. specCli' \in [Cli -> SpecCommandType]
    BY <1>1, <1>2, <2>1, ThenType DEF AddSpec, SpecGiven
  <2>3. status' \in [SpecId -> SpecStatus \cup {"none"}]
    BY <1>1, <1>2, StatusSetOK DEF AddSpec, SpecStatus
  <2>. QED
    BY <1>1, <1>2, <2>2, <2>3 DEF AddSpec, SpecGiven, SpecCommand, LifecycleTypeOK
<1>3. ASSUME NEW step \in {"review", "activate", "parent", "link"},
             specCli[p].step \in {"review", "activate", "parent", "link"}
      PROVE  [specCli[p] EXCEPT !.step = step] \in SpecCommandType
  <2>1. specCli[p] \in [step : {"review", "activate", "parent", "link"}, spec : SpecId,
                         conflict : Overlap]
    BY <1>1, <1>3 DEF LifecycleTypeOK, SpecCommandType, Nothing
  <2>2. [specCli[p] EXCEPT !.step = step] \in
          [step : {"review", "activate", "parent", "link"}, spec : SpecId, conflict : Overlap]
    BY <2>1
  <2>. QED
    BY <2>2 DEF SpecCommandType
<1>4. ASSUME AddReview(p) PROVE LifecycleTypeOK'
  <2>1. specCli' \in [Cli -> SpecCommandType]
    BY <1>1, <1>3, <1>4, ThenType DEF AddReview
  <2>. QED
    BY <1>1, <1>4, <2>1 DEF AddReview, LifecycleTypeOK
<1>5. ASSUME AddActivate(p) PROVE LifecycleTypeOK'
  <2>1. specCli' \in [Cli -> SpecCommandType]
    BY <1>1, <1>3, <1>5, ThenType DEF AddActivate
  <2>2. status' \in [SpecId -> SpecStatus \cup {"none"}]
    BY <1>1, <1>5, SpecCommandSpec, StatusSetOK DEF AddActivate, SpecStatus
  <2>. QED
    BY <1>1, <1>5, <2>1, <2>2 DEF AddActivate, LifecycleTypeOK
<1>6. ASSUME AddParent(p)
      PROVE  LifecycleTypeOK' /\ \A s \in SpecId : OpenGapIssues(s)' \subseteq OpenGapIssues(s)
  <2>1. specCli' \in [Cli -> SpecCommandType]
    BY <1>1, <1>3, <1>6, ThenType, NothingType DEF AddParent
  <2>2. /\ issues' \in [SpecId -> [Number -> {"none", "open", "closed"}]]
        /\ \A s \in SpecId : OpenGapIssues(s)' \subseteq OpenGapIssues(s)
    <3>1. CASE issues' = issues
      BY <1>1, <3>1 DEF LifecycleTypeOK, OpenGapIssues
    <3>2. CASE issues' # issues
      BY <1>1, <1>6, <3>2, SpecCommandSpec, IssueSetOK, NumbersApart DEF AddParent
    <3>. QED
      BY <3>1, <3>2
  <2>. QED
    BY <1>1, <1>6, <2>1, <2>2 DEF AddParent, LifecycleTypeOK
<1>7. ASSUME AddLink(p) PROVE LifecycleTypeOK'
  <2>1. specCli[p].spec \in SpecId
    BY <1>1, <1>7, SpecCommandSpec DEF AddLink
  <2>2. [step |-> "children", spec |-> specCli[p].spec, children |-> {}, unlinked |-> {}]
          \in SpecCommandType
    BY <2>1 DEF SpecCommandType
  <2>3. specCli' \in [Cli -> SpecCommandType]
    BY <1>1, <1>7, <2>2, ThenType, NothingType DEF AddLink
  <2>4. links' \in [SpecId -> SUBSET Number]
    BY <1>1, <1>7, <2>1, LinkIssueOK, NumbersApart DEF AddLink
  <2>. QED
    BY <1>1, <1>7, <2>3, <2>4 DEF AddLink, LifecycleTypeOK
<1>8. /\ LifecycleTypeOK' /\ missed' = missed /\ gap' = gap
      /\ \A s \in SpecId : OpenGapIssues(s)' \subseteq OpenGapIssues(s)
  BY <1>2, <1>4, <1>5, <1>6, <1>7 DEF AddSpec, SpecGiven, SpecCommand, AddReview, AddActivate,
     AddParent, AddLink, OpenGapIssues
<1>. QED
  BY <1>8, NothingOpened DEF LifecycleInv

(* ... those that decompose it or update it ... *)
LEMMA ChildrenStepOK ==
    ASSUME LifecycleInv, NEW p \in Cli,
           \/ \E n \in Child : AddChild(p, n) \/ AddChildLink(p, n)
           \/ AddStore(p)
           \/ (\E s \in SpecId : UpdateRead(p, s)) \/ UpdateWrite(p)
    PROVE  LifecycleInv'
<1>1. LifecycleTypeOK
  BY DEF LifecycleInv
<1>2. ASSUME specCli[p].step \in {"children", "linking"}
      PROVE  /\ specCli[p] \in [step : {"children", "linking"}, spec : SpecId,
                               children : SUBSET Child, unlinked : SUBSET Child]
  BY <1>1, <1>2 DEF LifecycleTypeOK, SpecCommandType, Nothing
<1>3. ASSUME NEW n \in Child, AddChild(p, n)
      PROVE  LifecycleTypeOK' /\ \A s \in SpecId : OpenGapIssues(s)' \subseteq OpenGapIssues(s)
  <2>1. [specCli[p] EXCEPT !.children = @ \cup {n}, !.unlinked = @ \cup {n}] \in SpecCommandType
    BY <1>2, <1>3 DEF AddChild, SpecCommandType
  <2>2. specCli' \in [Cli -> SpecCommandType]
    BY <1>1, <1>3, <2>1, ThenType DEF AddChild
  <2>3. /\ issues' \in [SpecId -> [Number -> {"none", "open", "closed"}]]
        /\ \A s \in SpecId : OpenGapIssues(s)' \subseteq OpenGapIssues(s)
    BY <1>1, <1>2, <1>3, IssueSetOK, NumbersApart DEF AddChild
  <2>. QED
    BY <1>1, <1>3, <2>2, <2>3 DEF AddChild, LifecycleTypeOK
<1>4. ASSUME NEW n \in Child, AddChildLink(p, n)
      PROVE  LifecycleTypeOK'
  <2>1. [specCli[p] EXCEPT !.step = "linking", !.unlinked = @ \ {n}] \in SpecCommandType
    BY <1>2, <1>4 DEF AddChildLink, SpecCommandType
  <2>2. specCli' \in [Cli -> SpecCommandType]
    BY <1>1, <1>4, <2>1, ThenType DEF AddChildLink
  <2>3. links' \in [SpecId -> SUBSET Number]
    BY <1>1, <1>2, <1>4, LinkIssueOK, NumbersApart DEF AddChildLink
  <2>. QED
    BY <1>1, <1>4, <2>2, <2>3 DEF AddChildLink, LifecycleTypeOK
<1>5. ASSUME AddStore(p) PROVE LifecycleTypeOK'
  <2>1. specCli' \in [Cli -> SpecCommandType]
    BY <1>1, <1>5, ThenType, NothingType DEF AddStore
  <2>2. decomposed' \in [SpecId -> SUBSET Child]
    BY <1>1, <1>2, <1>5, DecomposedSetOK DEF AddStore
  <2>3. covered' \subseteq SpecId
    BY <1>1, <1>2, <1>5 DEF AddStore, LifecycleTypeOK
  <2>. QED
    BY <1>1, <1>5, <2>1, <2>2, <2>3 DEF AddStore, LifecycleTypeOK
<1>6. ASSUME NEW s \in SpecId, UpdateRead(p, s)
      PROVE  LifecycleTypeOK'
  <2>1. [step |-> "update", spec |-> s, decomposed |-> decomposed[s]] \in SpecCommandType
    BY <1>1 DEF LifecycleTypeOK, SpecCommandType
  <2>2. specCli' \in [Cli -> SpecCommandType]
    BY <1>1, <1>6, <2>1, ThenType DEF UpdateRead, SpecGiven
  <2>. QED
    BY <1>1, <1>6, <2>2 DEF UpdateRead, SpecGiven, SpecCommand, LifecycleTypeOK
<1>7. ASSUME UpdateWrite(p) PROVE LifecycleTypeOK'
  <2>1. specCli[p].spec \in SpecId /\ specCli[p].decomposed \in SUBSET Child
    BY <1>1, <1>7 DEF UpdateWrite, LifecycleTypeOK, SpecCommandType, Nothing
  <2>2. specCli' \in [Cli -> SpecCommandType]
    BY <1>1, <1>7, ThenType, NothingType DEF UpdateWrite
  <2>3. decomposed' \in [SpecId -> SUBSET Child]
    BY <1>1, <1>7, <2>1, DecomposedSetOK DEF UpdateWrite
  <2>4. covered' \subseteq SpecId
    BY <1>1, <1>7 DEF UpdateWrite, LifecycleTypeOK
  <2>. QED
    BY <1>1, <1>7, <2>2, <2>3, <2>4 DEF UpdateWrite, LifecycleTypeOK
<1>8. /\ LifecycleTypeOK' /\ missed' = missed /\ gap' = gap
      /\ \A s \in SpecId : OpenGapIssues(s)' \subseteq OpenGapIssues(s)
  BY <1>3, <1>4, <1>5, <1>6, <1>7 DEF AddChild, AddChildLink, AddStore, UpdateRead, UpdateWrite,
     SpecGiven, SpecCommand, OpenGapIssues
<1>. QED
  BY <1>8, NothingOpened DEF LifecycleInv

(* ... and the others. *)
LEMMA OtherCommandOK ==
    ASSUME HitlInv, LifecycleInv, NEW p \in Cli,
           \/ \E s \in SpecId, to \in SpecStatus : StatusRead(p, s, to)
           \/ StatusWrite(p) \/ SpecAbandon(p) \/ Respond(p)
    PROVE  LifecycleInv'
<1>1. LifecycleTypeOK
  BY DEF LifecycleInv
<1>2. ASSUME NEW s \in SpecId, NEW to \in SpecStatus, StatusRead(p, s, to)
      PROVE  LifecycleTypeOK'
  <2>1. [step |-> "status", spec |-> s, to |-> to] \in SpecCommandType
    BY DEF SpecCommandType
  <2>2. specCli' \in [Cli -> SpecCommandType]
    BY <1>1, <1>2, <2>1, ThenType DEF StatusRead, SpecGiven
  <2>. QED
    BY <1>1, <1>2, <2>2 DEF StatusRead, SpecGiven, SpecCommand, LifecycleTypeOK
<1>3. ASSUME StatusWrite(p) PROVE LifecycleTypeOK'
  <2>1. specCli' \in [Cli -> SpecCommandType]
    BY <1>1, <1>3, ThenType, NothingType DEF StatusWrite
  <2>2. specCli[p].spec \in SpecId /\ specCli[p].to \in SpecStatus
    BY <1>1, <1>3 DEF StatusWrite, LifecycleTypeOK, SpecCommandType, Nothing
  <2>3. status' \in [SpecId -> SpecStatus \cup {"none"}]
    BY <1>1, <1>3, <2>2, StatusSetOK DEF StatusWrite
  <2>. QED
    BY <1>1, <1>3, <2>1, <2>3 DEF StatusWrite, LifecycleTypeOK
<1>4. ASSUME SpecAbandon(p) PROVE LifecycleTypeOK'
  <2>1. specCli' \in [Cli -> SpecCommandType]
    BY <1>1, <1>4, ThenType, NothingType DEF SpecAbandon
  <2>. QED
    BY <1>1, <1>4, <2>1 DEF SpecAbandon, LifecycleTypeOK
<1>5. ASSUME Respond(p) PROVE LifecycleTypeOK'
  <2>1. specCli' \in [Cli -> SpecCommandType]
    <3>1. CASE cli[p].id.item[1] = "completion"
      <4>1. cli[p] \in Command /\ cli[p].step = "answer" /\ cli[p].answer # "replan"
        BY <1>5 DEF Respond, RespondWrite, HitlInv, TypeOK
      <4>2. cli[p].id \in RowId /\ cli[p].answer \in {"done", "retry", "skip"}
        BY <4>1 DEF Command, NoCommand, HitlInv, TypeOK
      <4>3. cli[p].id.item[2] \in SpecId
        BY <4>2, ReviewAssumption DEF RowId, ReviewItem
      <4>4. Verdict[cli[p].answer] \in SpecStatus
        BY <4>2 DEF Verdict, SpecStatus
      <4>5. [step |-> "status", spec |-> cli[p].id.item[2], to |-> Verdict[cli[p].answer]]
              \in SpecCommandType
        BY <4>3, <4>4 DEF SpecCommandType
      <4>. QED
        BY <1>1, <1>5, <3>1, <4>5, ThenType DEF Respond
    <3>2. CASE cli[p].id.item[1] # "completion"
      BY <1>1, <1>5, <3>2 DEF Respond, LifecycleTypeOK
    <3>. QED
      BY <3>1, <3>2
  <2>. QED
    BY <1>1, <1>5, <2>1 DEF Respond, LifecycleTypeOK
<1>6. /\ LifecycleTypeOK' /\ missed' = missed /\ gap' = gap
      /\ \A s \in SpecId : OpenGapIssues(s)' \subseteq OpenGapIssues(s)
  BY <1>2, <1>3, <1>4, <1>5 DEF StatusRead, SpecGiven, SpecCommand, StatusWrite, SpecAbandon,
     Respond, OpenGapIssues
<1>. QED
  BY <1>6, NothingOpened DEF LifecycleInv

(* What happens to the specs outside of commands and job. *)
LEMMA WorldOK ==
    ASSUME LifecycleInv,
           \/ SourcesChange
           \/ \E s \in SpecId : Implement(s)
           \/ \E s \in SpecId, n \in Number : CloseIssue(s, n) \/ Link(s, n)
    PROVE  LifecycleInv'
<1>1. LifecycleTypeOK
  BY DEF LifecycleInv
<1>2. ASSUME SourcesChange \/ \E s \in SpecId : Implement(s)
      PROVE  LifecycleTypeOK' /\ issues' = issues
  BY <1>1, <1>2 DEF SourcesChange, Implement, LifecycleTypeOK
<1>3. ASSUME NEW s \in SpecId, NEW n \in Number, CloseIssue(s, n)
      PROVE  LifecycleTypeOK' /\ \A t \in SpecId : OpenGapIssues(t)' \subseteq OpenGapIssues(t)
  BY <1>1, <1>3, IssueSetOK DEF CloseIssue, LifecycleTypeOK
<1>4. ASSUME NEW s \in SpecId, NEW n \in Number, Link(s, n)
      PROVE  LifecycleTypeOK' /\ issues' = issues
  <2>1. links' \in [SpecId -> SUBSET Number]
    BY <1>1, <1>4 DEF Link, LifecycleTypeOK
  <2>. QED
    BY <1>1, <1>4, <2>1 DEF Link, SpecCommand, LifecycleTypeOK
<1>5. /\ LifecycleTypeOK' /\ missed' = missed /\ gap' = gap
      /\ \A s \in SpecId : OpenGapIssues(s)' \subseteq OpenGapIssues(s)
  BY <1>2, <1>3, <1>4 DEF SourcesChange, Implement, CloseIssue, Link, SpecCommand, OpenGapIssues
<1>. QED
  BY <1>5, NothingOpened DEF LifecycleInv

(* The job opens an issue where it has seen none. *)
LEMMA GapCreateOK ==
    ASSUME LifecycleInv, NEW n \in Issue, GapCreate(n)
    PROVE  LifecycleInv'
<1>1. LifecycleTypeOK /\ gap \in GapType /\ missed \in Nat
  BY DEF LifecycleInv, LifecycleTypeOK
<1>2. PICK t \in SpecId : t = gap.spec
  BY <1>1, GapSpecType DEF GapCreate
<1>3. issues' \in [SpecId -> [Number -> {"none", "open", "closed"}]]
  BY <1>1, <1>2 DEF GapCreate, LifecycleTypeOK
<1>4. gap' \in GapType /\ gap'.step = "link"
  BY <1>1, <1>2, GapLists DEF GapCreate, GapType
<1>5. LifecycleTypeOK' /\ NoneSeenAtCreate'
  BY <1>1, <1>3, <1>4 DEF GapCreate, LifecycleTypeOK, NoneSeenAtCreate
<1>6. ASSUME NEW s \in SpecId
      PROVE  Cardinality(OpenGapIssues(s)') <= 1 + missed
  <2>1. CASE s = t
    <3>1. OpenGapIssues(s)' = OpenGapIssues(s) \cup {n}
      BY <1>1, <1>2, <2>1 DEF GapCreate, OpenGapIssues, LifecycleTypeOK, Number
    <3>2. Cardinality(OpenGapIssues(s)) <= missed
      BY <1>2, <2>1 DEF GapCreate, LifecycleInv, NoneSeenAtCreate
    <3>3. IsFiniteSet(OpenGapIssues(s)) /\ Cardinality(OpenGapIssues(s)) \in Nat
      BY OpenFinite
    <3>4. Cardinality(OpenGapIssues(s) \cup {n}) \in
            {Cardinality(OpenGapIssues(s)), Cardinality(OpenGapIssues(s)) + 1}
      BY <3>3, FS_AddElement
    <3>. QED
      BY <1>1, <3>1, <3>2, <3>3, <3>4
  <2>2. CASE s # t
    <3>1. OpenGapIssues(s)' = OpenGapIssues(s)
      BY <1>1, <1>2, <2>2 DEF GapCreate, OpenGapIssues, LifecycleTypeOK
    <3>. QED
      BY <3>1 DEF LifecycleInv, OneOpenGapIssue
  <2>. QED
    BY <2>1, <2>2
<1>7. OneOpenGapIssue'
  BY <1>6 DEF OneOpenGapIssue, GapCreate
<1>. QED
  BY <1>5, <1>7 DEF LifecycleInv

(* A search that finds none, or fails, leads to the creation of an issue. *)
LEMMA GapSearchOK ==
    ASSUME LifecycleInv, GapSearch \/ GapSearchFails
    PROVE  LifecycleInv'
<1>1. LifecycleTypeOK /\ gap \in GapType /\ missed \in Nat
  BY DEF LifecycleInv, LifecycleTypeOK
<1>2. PICK t \in SpecId : t = gap.spec
  BY <1>1, GapSpecType DEF GapSearch, GapSearchFails
<1>3. issues' = issues /\ missed' \in {missed, missed + 1}
  BY DEF GapSearch, GapSearchFails, Faulty, Fault, OnlyGap
<1>4. \A s \in SpecId : /\ OpenGapIssues(s)' = OpenGapIssues(s)
                        /\ Cardinality(OpenGapIssues(s)) \in Nat
                        /\ Cardinality(OpenGapIssues(s)) <= 1 + missed
  BY <1>3, OpenFinite DEF OpenGapIssues, LifecycleInv, OneOpenGapIssue
<1>5. OneOpenGapIssue'
  BY <1>1, <1>3, <1>4 DEF OneOpenGapIssue
<1>6. CASE GapRest(gap.spec) /\ GapSearch
  <2>1. gap' \in GapType /\ gap'.step # "create"
    BY <1>1, <1>6, GapRestType
  <2>. QED
    BY <1>1, <1>5, <1>6, <2>1 DEF GapSearch, OnlyGap, LifecycleInv, LifecycleTypeOK,
       NoneSeenAtCreate
<1>7. CASE GapAt("create", gap.spec) /\ Cardinality(OpenGapIssues(t)) <= missed'
  <2>1. gap' \in GapType /\ gap'.spec = t
    BY <1>1, <1>2, <1>7, GapAtType
  <2>2. OpenGapIssues(t) = {n \in Issue : issues'[gap'.spec][n] = "open"}
    BY <1>3, <2>1 DEF OpenGapIssues
  <2>3. NoneSeenAtCreate'
    BY <1>7, <2>2 DEF NoneSeenAtCreate, OpenGapIssues
  <2>4. missed' \in Nat /\ UNCHANGED <<status, covered, sources, issues, links, decomposed,
     specCli>>
    BY <1>1, <1>3 DEF GapSearch, GapSearchFails, Faulty, Fault, OnlyGap
  <2>5. LifecycleTypeOK'
    BY <1>1, <2>1, <2>4 DEF LifecycleTypeOK
  <2>. QED
    BY <1>5, <2>3, <2>5 DEF LifecycleInv
<1>8. ASSUME GapSearch, OpenGapIssues(gap.spec) = {}
      PROVE  Cardinality(OpenGapIssues(t)) <= missed'
  BY <1>1, <1>2, <1>8, FS_EmptySet DEF GapSearch, OnlyGap
<1>9. ASSUME GapSearchFails
      PROVE  Cardinality(OpenGapIssues(t)) <= missed'
  BY <1>1, <1>4, <1>9 DEF GapSearchFails
<1>. QED
  BY <1>6, <1>7, <1>8, <1>9 DEF GapSearch, GapSearchFails

(* Every other step of the job, its faults and kills included. *)
LEMMA GapOtherOK ==
    ASSUME LifecycleInv,
           \/ GapStart \/ GapSearchOther \/ GapSkip \/ GapLink \/ GapFault \/ GapKill
           \/ \E s \in SpecId : GapCheck(s) \/ CoveredCheck(s) \/ CheckFails(s)
           \/ CoveredIssues \/ CoveredCompleting \/ CoveredReview \/ CoveredRevert \/ CoveredTell
    PROVE  LifecycleInv'
<1>1. LifecycleTypeOK /\ gap \in GapType
  BY DEF LifecycleInv, LifecycleTypeOK
<1>2. gap.step \notin {"idle", "next"} => gap.spec \in SpecId
  BY <1>1, GapSpecType
<1>3. NoGap \in GapType /\ NoGap.step = "idle"
  BY DEF NoGap, GapType
<1>4. gap' \in GapType /\ gap'.step # "create"
  <2>1. CASE GapStart
    BY <2>1 DEF GapStart, GapType
  <2>2. CASE GapKill
    BY <1>3, <2>2 DEF GapKill
  <2>3. CASE GapLink
    BY <1>1, <2>3, GapRestType DEF GapLink
  <2>4. CASE \E s \in SpecId : GapCheck(s) \/ CoveredCheck(s) \/ CheckFails(s)
    BY <1>1, <2>4, GapRestType, GapAtType DEF GapCheck, CoveredCheck, CheckFails
  <2>5. CASE CoveredIssues \/ CoveredCompleting \/ CoveredRevert
    BY <1>1, <1>2, <2>5, GapRestType, GapAtType DEF CoveredIssues, CoveredCompleting, CoveredRevert
  <2>6. CASE CoveredReview \/ CoveredTell
    BY <1>1, <2>6, GapRestType DEF CoveredReview, CoveredTell
  <2>7. CASE GapFault
    BY <1>1, <1>2, <2>7, GapRestType, GapAtType DEF GapFault
  <2>8. CASE GapSearchOther \/ GapSkip
    BY <1>1, <1>2, <2>8, GapRestType, GapAtType DEF GapSearchOther, GapSkip
  <2>. QED
    BY <2>1, <2>2, <2>3, <2>4, <2>5, <2>6, <2>7, <2>8
<1>5. status' \in [SpecId -> SpecStatus \cup {"none"}]
  <2>1. CASE CoveredCompleting \/ CoveredRevert
    BY <1>1, <1>2, <2>1, StatusSetOK DEF CoveredCompleting, CoveredRevert, SpecStatus
  <2>2. CASE ~(CoveredCompleting \/ CoveredRevert)
    BY <1>1, <2>2 DEF GapStart, GapSearchOther, GapSkip, GapLink, GapFault, GapKill, GapCheck,
       CoveredCheck, CheckFails, OnlyGap,
       Faulty, Fault, CoveredIssues, CoveredReview, CoveredTell, LifecycleTypeOK
  <2>. QED
    BY <2>1, <2>2
<1>6. links' \in [SpecId -> SUBSET Number]
  <2>1. CASE GapLink
    <3>1. gap.issue \in Issue
      BY <1>1, <2>1 DEF GapLink, GapType
    <3>. QED
      BY <1>1, <1>2, <2>1, <3>1 DEF GapLink, LifecycleTypeOK, Number
  <2>2. CASE ~GapLink
    BY <1>1, <2>2 DEF GapStart, GapSearchOther, GapSkip, GapFault, GapKill, GapCheck,
       CoveredCheck, CheckFails, OnlyGap,
       Faulty, Fault, CoveredIssues, CoveredCompleting, CoveredReview, CoveredRevert, CoveredTell,
       LifecycleTypeOK
  <2>. QED
    BY <2>1, <2>2
<1>7. UNCHANGED <<covered, sources, issues, decomposed, specCli, missed>>
  BY DEF GapStart, GapSearchOther, GapSkip, GapLink, GapFault, GapKill, GapCheck, CoveredCheck,
     CheckFails, OnlyGap, Faulty, Fault,
     CoveredIssues, CoveredCompleting, CoveredReview, CoveredRevert, CoveredTell
<1>8. LifecycleTypeOK'
  BY <1>1, <1>4, <1>5, <1>6, <1>7 DEF LifecycleTypeOK
<1>9. \A s \in SpecId : OpenGapIssues(s)' \subseteq OpenGapIssues(s)
  BY <1>7 DEF OpenGapIssues
<1>. QED
  BY <1>4, <1>7, <1>8, <1>9, NothingOpened DEF LifecycleInv

(* One step of the composition is a step of HitlStore, or none. *)
LEMMA StepIsStoreStep ==
    ASSUME LifecycleTypeOK, [LifecycleNext]_vars
    PROVE  [Next]_storeVars
<1>1. CASE UNCHANGED vars
  BY <1>1 DEF vars
<1>2. ASSUME SourcesChange \/ \E s \in SpecId : Implement(s)
      PROVE  [Next]_storeVars
  BY <1>2 DEF SourcesChange, Implement
<1>3. ASSUME NEW s \in SpecId, NEW n \in Number, CloseIssue(s, n) \/ Link(s, n)
      PROVE  [Next]_storeVars
  BY <1>3 DEF CloseIssue, Link, SpecCommand, Next, Elsewhere
<1>4. ASSUME NEW p \in Cli, HitlStep(p)
      PROVE  [Next]_storeVars
  BY <1>4 DEF HitlStep, CliStep, Next
<1>5. ASSUME NEW kind \in {"conflict", "completion", "test_failure"}, NEW s \in SpecId,
             Open(<<kind, s>>)
      PROVE  Next
  <2>1. <<kind, s>> \in Item
    BY ReviewAssumption DEF ReviewItem
  <2>. QED
    BY <1>5, <2>1 DEF Next
<1>6. ASSUME NEW p \in Cli, SpecStep(p)
      PROVE  [Next]_storeVars
  <2>1. ASSUME NEW s \in SpecId, NEW conflict, AddSpec(p, s, conflict)
        PROVE  Next
    BY <2>1 DEF AddSpec, SpecGiven, SpecCommand, Next, Elsewhere
  <2>2. ASSUME AddReview(p)
        PROVE  Next
    <3>1. specCli[p].spec \in SpecId /\ Open(<<"conflict", specCli[p].spec>>)
      BY <2>2, SpecCommandSpec DEF AddReview
    <3>. QED
      BY <3>1, <1>5
  <2>3. ASSUME AddActivate(p) \/ AddParent(p) \/ AddStore(p) \/ (\E n \in Child : AddChild(p, n))
                 \/ UpdateWrite(p) \/ StatusWrite(p) \/ SpecAbandon(p)
        PROVE  UNCHANGED storeVars
    BY <2>3 DEF AddActivate, AddParent, AddChild, AddStore, UpdateWrite, StatusWrite, SpecAbandon
  <2>4. ASSUME NEW s \in SpecId, UpdateRead(p, s) \/ \E to \in SpecStatus : StatusRead(p, s, to)
        PROVE  Next
    BY <2>4 DEF UpdateRead, StatusRead, SpecGiven, SpecCommand, Next, Elsewhere
  <2>6. ASSUME AddLink(p) \/ \E n \in Child : AddChildLink(p, n)
        PROVE  [Next]_storeVars
    BY <2>6 DEF AddLink, AddChildLink, LinkIssue, Fault, Next, Elsewhere
  <2>5. ASSUME Respond(p)
        PROVE  Next
    BY <2>5 DEF Respond, CliStep, Next
  <2>. QED
    BY <1>6, <2>1, <2>2, <2>3, <2>4, <2>5, <2>6 DEF SpecStep
<1>7. ASSUME NEW id \in DOMAIN rows, Expire(id) \/ \E phase \in QueuePhase : QueueSet(id, phase)
      PROVE  Next
  BY <1>7 DEF Next
<1>8. CASE TimeoutStep \/ JobFault \/ Kill
  BY <1>8 DEF TimeoutStep, Next
<1>9. CASE GapStep
  <2>1. CASE CoveredReview \/ CoveredTell
    <3>1. gap.spec \in SpecId
      BY <2>1, GapSpecType DEF CoveredReview, CoveredTell, LifecycleTypeOK
    <3>. QED
      BY <2>1, <3>1, <1>5 DEF CoveredReview, CoveredTell
  <2>2. CASE ~(CoveredReview \/ CoveredTell)
    BY <1>9, <2>2 DEF GapStep, GapStart, GapSearch, GapSearchOther, GapSkip, GapLink,
       GapCreate, GapCheck, CoveredCheck,
       OnlyGap, CoveredIssues, CoveredCompleting, CoveredRevert
  <2>. QED
    BY <2>1, <2>2
<1>10. CASE GapSearchFails \/ GapFault \/ GapKill \/ \E s \in SpecId : CheckFails(s)
  BY <1>10 DEF GapSearchFails, GapFault, GapKill, CheckFails, Faulty, Fault, Next, Elsewhere
<1>. QED
  BY <1>1, <1>2, <1>3, <1>4, <1>6, <1>7, <1>8, <1>9, <1>10 DEF LifecycleNext

LEMMA LifecycleInitOK == LifecycleInit => HitlInv /\ LifecycleInv
<1> SUFFICES ASSUME LifecycleInit PROVE HitlInv /\ LifecycleInv
  OBVIOUS
<1>1. HitlInv
  BY InitOK DEF LifecycleInit
<1>2. LifecycleTypeOK
  BY DEF LifecycleInit, LifecycleTypeOK, SpecCommandType, GapType, NoGap
<1>3. \A s \in SpecId : OpenGapIssues(s) = {}
  BY DEF LifecycleInit, OpenGapIssues, Number
<1>4. OneOpenGapIssue /\ NoneSeenAtCreate
  <2>1. missed = 0 /\ gap.step = "idle"
    BY DEF LifecycleInit, NoGap
  <2>2. \A s \in SpecId : Cardinality(OpenGapIssues(s)) = 0
    BY <1>3, FS_EmptySet
  <2>. QED
    BY <2>1, <2>2 DEF OneOpenGapIssue, NoneSeenAtCreate
<1>. QED
  BY <1>1, <1>2, <1>4 DEF LifecycleInv

LEMMA LifecycleNextOK ==
    HitlInv /\ LifecycleInv /\ [LifecycleNext]_vars => HitlInv' /\ LifecycleInv'
<1> SUFFICES ASSUME HitlInv, LifecycleInv, [LifecycleNext]_vars
             PROVE  HitlInv' /\ LifecycleInv'
  OBVIOUS
<1>1. HitlInv'
  BY StepIsStoreStep, NextOK DEF LifecycleInv
<1>2. CASE UNCHANGED specVars
  <2>1. LifecycleTypeOK' /\ UNCHANGED <<issues, gap, missed>>
    BY <1>2 DEF specVars, LifecycleInv, LifecycleTypeOK
  <2>2. \A s \in SpecId : OpenGapIssues(s)' \subseteq OpenGapIssues(s)
    BY <2>1 DEF OpenGapIssues
  <2>. QED
    BY <1>1, <2>1, <2>2, NothingOpened DEF LifecycleInv
<1>3. ASSUME NEW p \in Cli, HitlStep(p) \/ SpecStep(p)
      PROVE  LifecycleInv'
  BY <1>2, <1>3, AddStepOK, ChildrenStepOK, OtherCommandOK DEF HitlStep, SpecStep
<1>4. ASSUME GapStep \/ GapSearchFails \/ GapFault \/ GapKill \/ \E s \in SpecId : CheckFails(s)
      PROVE  LifecycleInv'
  BY <1>4, GapSearchOK, GapCreateOK, GapOtherOK DEF GapStep
<1>. QED
  BY <1>1, <1>2, <1>3, <1>4, WorldOK DEF LifecycleNext, TimeoutStep, vars

(* At most one issue is open for a gap, but for searches that failed, in     *)
(* every reachable state and for any number of specs, issues and processes. *)
THEOREM OneIssuePerGap == LifecycleSpec => []LifecycleInv
<1>1. LifecycleSpec => [](HitlInv /\ LifecycleInv)
  BY LifecycleInitOK, LifecycleNextOK, PTL DEF LifecycleSpec
<1>. QED
  BY <1>1, PTL

(* The lifecycle of specs implements HitlStore: its reviews are opened,    *)
(* answered and expired by steps of HitlStore only.                        *)
THEOREM LifecycleImplementsHitlStore == LifecycleSpec => ReviewsAreHitlRows
<1>1. LifecycleInit => Init
  BY DEF LifecycleInit
<1>2. LifecycleInv /\ [LifecycleNext]_vars => [Next]_storeVars
  BY StepIsStoreStep DEF LifecycleInv
<1>. QED
  BY <1>1, <1>2, OneIssuePerGap, PTL DEF LifecycleSpec, ReviewsAreHitlRows, Spec

(* The reviews of specs are rows that replans cannot multiply either. *)
THEOREM ReviewsStayBounded == LifecycleSpec => []HitlInv
<1>. QED
  BY LifecycleImplementsHitlStore, ReplansStayBounded, PTL DEF ReviewsAreHitlRows

(* A spec never has more reviews than the answers to them may ask for, and  *)
(* neither gap detection, which inserts reviews, nor a kill in the middle   *)
(* of it puts an answered one before a human again.                         *)
THEOREM ReviewsAreAskedOnRequest == LifecycleSpec => []CompanionsBounded /\ AskedAgainOnRequest
<1>. QED
  BY LifecycleImplementsHitlStore, QuestionsAreBounded, NothingIsAskedAgainByItself, PTL
  DEF ReviewsAreHitlRows
=============================================================================
