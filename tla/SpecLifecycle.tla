----------------------------- MODULE SpecLifecycle -----------------------------
(***************************************************************************)
(* Specs, the issues opened for them, and their reviews by humans          *)
(* (belt-core: spec.rs; belt-daemon: cron.rs, GapDetectionJob; belt-cli:   *)
(* `belt spec`).  The reviews are rows of HitlStore, answered and expired  *)
(* there; what an answer means for the spec is written here.               *)
(***************************************************************************)
EXTENDS HitlStore

CONSTANTS
    SpecId,
    Overlap,          \* overlaps of an added spec with others
    Issue,            \* numbers of the gap issues that may be opened for a spec
    Child             \* numbers of the issues it may be decomposed into

ASSUME OverlapAssumption == Overlap \subseteq {"none", "module", "file"}
ASSUME IssueAssumption == Issue \subseteq Nat \ {0} /\ IsFiniteSet(Issue)
ASSUME ChildAssumption == Child \subseteq Nat \ ({0} \cup Issue)

(* The issues of a spec on GitHub; 0 is the parent issue. *)
Number == {0} \cup Issue \cup Child

VARIABLES
    status,      \* spec -> its status; "none" before it is added
    covered,     \* specs whose content the code covers
    sources,     \* the workspace has source files to compare the specs with
    issues,      \* spec -> number -> its state on GitHub
    links,       \* spec -> numbers of the issues linked to it (spec_links)
    decomposed,  \* spec -> numbers of the issues it was decomposed into
    specCli,     \* process -> what is left of its command
    gap,         \* the run of GapDetectionJob
    missed       \* searches for an issue that failed

specVars == <<status, covered, sources, issues, links, decomposed, specCli, gap, missed>>
vars == <<storeVars, specVars>>

(* The rows a spec may have.  A conflict's source_id is "spec:{id}", that of *)
(* the others the id of the spec itself.                                     *)
ReviewItem == {"conflict", "completion", "test_failure"} \X SpecId
ASSUME ReviewAssumption == Item = ReviewItem

SpecStatus == {"draft", "active", "paused", "completing", "completed", "archived"}

ValidSpecTransitions ==
    {<<"draft", "active">>, <<"active", "paused">>, <<"active", "completing">>,
     <<"paused", "active">>, <<"completing", "completed">>,
     <<"completing", "active">>, <<"draft", "archived">>, <<"active", "archived">>,
     <<"paused", "archived">>, <<"completing", "archived">>,
     <<"completed", "archived">>, <<"archived", "active">>}

(* has_open_items_for_source: companions inherit the source_id. *)
HasOpenItems(s) ==
    \E id \in DOMAIN rows :
        /\ id.item \in {"completion", "test_failure"} \X {s}
        /\ rows[id].phase \notin {"Done", "Skipped"}

AllClosed(s) == \A n \in links[s] \cup decomposed[s] : issues[s][n] = "closed"

OpenGapIssues(s) == {n \in Issue : issues[s][n] = "open"}

Nothing == [step |-> "idle"]
NoGap == [step |-> "idle", gaps |-> {}, covered |-> {}]

LifecycleInit ==
    /\ Init
    /\ status = [s \in SpecId |-> "none"]
    /\ covered = {}
    /\ sources \in BOOLEAN
    /\ issues = [s \in SpecId |-> [n \in Number |-> "none"]]
    /\ links = [s \in SpecId |-> {}]
    /\ decomposed = [s \in SpecId |-> {}]
    /\ specCli = [p \in Cli |-> Nothing]
    /\ gap = NoGap
    /\ missed = 0

-----------------------------------------------------------------------------
(* The world outside: the code comes to cover a spec, source files appear *)
(* or go away, an issue is closed.                                        *)
Implement(s) ==
    /\ status[s] # "none"
    /\ s \notin covered
    /\ covered' = covered \cup {s}
    /\ UNCHANGED <<storeVars, status, sources, issues, links, decomposed, specCli, gap, missed>>

SourcesChange ==
    /\ sources' = ~sources
    /\ UNCHANGED <<storeVars, status, covered, issues, links, decomposed, specCli, gap, missed>>

(* A bound: numbers are left for the next issue and for the searches that *)
(* may still fail.                                                        *)
CloseIssue(s, n) ==
    /\ issues[s][n] = "open"
    /\ n \in Issue => Cardinality({m \in Issue : issues[s][m] = "none"}) > MaxFaults - faults
    /\ issues' = [issues EXCEPT ![s][n] = "closed"]
    /\ UNCHANGED <<storeVars, status, covered, sources, links, decomposed, specCli, gap, missed>>

-----------------------------------------------------------------------------
(* The `belt spec` commands. *)
Then(p, rest) == specCli' = [specCli EXCEPT ![p] = rest]

SpecCommand ==
    /\ commands < MaxCommands
    /\ commands' = commands + 1
    /\ UNCHANGED <<rows, cli, job, faults, missed>>

SpecGiven(p, rest) ==
    /\ cli[p].step = "idle"
    /\ specCli[p].step = "idle"
    /\ SpecCommand
    /\ Then(p, rest)

(* `spec add`: the spec is inserted as a draft.  A conflict with another    *)
(* spec, of SpecId or not, opens a review; only one over a file keeps the   *)
(* spec a draft.                                                            *)
AddSpec(p, s, conflict) ==
    /\ status[s] = "none"
    /\ SpecGiven(p, [step |-> IF conflict = "none" THEN "activate" ELSE "review",
                     spec |-> s, conflict |-> conflict])
    /\ status' = [status EXCEPT ![s] = "draft"]
    /\ UNCHANGED <<covered, sources, issues, links, decomposed, gap>>

AddReview(p) ==
    LET c == specCli[p] IN
    /\ c.step = "review"
    /\ Open(<<"conflict", c.spec>>)
    /\ Then(p, [c EXCEPT !.step = IF c.conflict = "file" THEN "parent" ELSE "activate"])
    /\ UNCHANGED <<status, covered, sources, issues, links, decomposed, gap, missed>>

AddActivate(p) ==
    LET c == specCli[p] IN
    /\ c.step = "activate"
    /\ status' = [status EXCEPT ![c.spec] = "active"]
    /\ Then(p, [c EXCEPT !.step = "parent"])
    /\ UNCHANGED <<storeVars, covered, sources, issues, links, decomposed, gap, missed>>

(* The parent issue is created on GitHub, or creating it fails ... *)
AddParent(p) ==
    LET c == specCli[p] IN
    /\ c.step = "parent"
    /\ \/ /\ issues' = [issues EXCEPT ![c.spec][0] = "open"]
          /\ Then(p, [c EXCEPT !.step = "link"])
       \/ /\ Then(p, Nothing)
          /\ UNCHANGED issues
    /\ UNCHANGED <<storeVars, status, covered, sources, links, decomposed, gap, missed>>

(* A statement fails. *)
Fault ==
    /\ faults < MaxFaults
    /\ faults' = faults + 1
    /\ UNCHANGED <<rows, cli, job, commands>>

(* An issue is linked; a link that cannot be stored is only warned of. *)
LinkIssue(s, n) ==
    \/ links' = [links EXCEPT ![s] = @ \cup {n}] /\ UNCHANGED storeVars
    \/ Fault /\ UNCHANGED links

(* ... and linked.  Then the spec is decomposed, if it has acceptance *)
(* criteria and the user confirms: ...                                *)
AddLink(p) ==
    LET c == specCli[p] IN
    /\ c.step = "link"
    /\ LinkIssue(c.spec, 0)
    /\ \/ Then(p, [step |-> "children", spec |-> c.spec, children |-> {}, unlinked |-> {}])
       \/ Then(p, Nothing)
    /\ UNCHANGED <<status, covered, sources, issues, decomposed, gap, missed>>

(* ... child issues are created, those that can be, ... *)
AddChild(p, n) ==
    LET c == specCli[p] IN
    /\ c.step = "children"
    /\ issues[c.spec][n] = "none"
    /\ issues' = [issues EXCEPT ![c.spec][n] = "open"]
    /\ Then(p, [c EXCEPT !.children = @ \cup {n}, !.unlinked = @ \cup {n}])
    /\ UNCHANGED <<storeVars, status, covered, sources, links, decomposed, gap, missed>>

(* ... linked one after the other ... *)
AddChildLink(p, n) ==
    LET c == specCli[p] IN
    /\ c.step \in {"children", "linking"}
    /\ n \in c.unlinked
    /\ LinkIssue(c.spec, n)
    /\ Then(p, [c EXCEPT !.step = "linking", !.unlinked = @ \ {n}])
    /\ UNCHANGED <<status, covered, sources, issues, decomposed, gap, missed>>

(* ... and stored with the spec, which is written as the command knows it:   *)
(* the code may cover the content this brings back or not.                   *)
AddStore(p) ==
    LET c == specCli[p] IN
    /\ c.step = "linking"
    /\ c.unlinked = {}
    /\ decomposed' = [decomposed EXCEPT ![c.spec] = c.children]
    /\ covered' \in {covered \cup {c.spec}, covered \ {c.spec}}
    /\ Then(p, Nothing)
    /\ UNCHANGED <<storeVars, status, sources, issues, links, gap, missed>>

(* `spec update`: the spec is read and written whole, with its decomposition. *)
UpdateRead(p, s) ==
    /\ status[s] # "none"
    /\ SpecGiven(p, [step |-> "update", spec |-> s, decomposed |-> decomposed[s]])
    /\ UNCHANGED <<status, covered, sources, issues, links, decomposed, gap>>

UpdateWrite(p) ==
    LET c == specCli[p] IN
    /\ c.step = "update"
    /\ covered' \in {covered, covered \ {c.spec}}
    /\ decomposed' = [decomposed EXCEPT ![c.spec] = c.decomposed]
    /\ Then(p, Nothing)
    /\ UNCHANGED <<storeVars, status, sources, issues, links, gap, missed>>

(* `spec pause | resume | complete | remove`: the status that is read must *)
(* allow the one that is then written.  `complete` goes one step on, and    *)
(* `remove` refuses completed specs although the table would archive them.  *)
Requested(from) ==
    {to \in {"paused", "active", "completing", "completed", "archived"} :
        <<from, to>> \in ValidSpecTransitions \ {<<"completed", "archived">>}}

StatusRead(p, s, to) ==
    /\ status[s] # "none"
    /\ to \in Requested(status[s])
    /\ SpecGiven(p, [step |-> "status", spec |-> s, to |-> to])
    /\ UNCHANGED <<status, covered, sources, issues, links, decomposed, gap>>

StatusWrite(p) ==
    LET c == specCli[p] IN
    /\ c.step = "status"
    /\ status' = [status EXCEPT ![c.spec] = c.to]
    /\ Then(p, Nothing)
    /\ UNCHANGED <<storeVars, covered, sources, issues, links, decomposed, gap, missed>>

(* `spec link | unlink`: one statement each. *)
Link(s, n) ==
    /\ issues[s][n] # "none"
    /\ SpecCommand
    /\ links' = [links EXCEPT ![s] = IF n \in @ THEN @ \ {n} ELSE @ \cup {n}]
    /\ UNCHANGED <<status, covered, sources, issues, decomposed, specCli, gap>>

(* A command is interrupted. *)
SpecAbandon(p) ==
    /\ specCli[p].step # "idle"
    /\ Then(p, Nothing)
    /\ UNCHANGED <<storeVars, status, covered, sources, issues, links, decomposed, gap, missed>>

(* What an answer to a completion review, or to a companion of one, means *)
(* for the spec: it is written without a look at the status.              *)
Verdict == [done |-> "completed", retry |-> "active", skip |-> "active"]

Respond(p) ==
    /\ RespondWrite(p)
    /\ LET c == cli[p] IN
         IF c.id.item[1] = "completion"
           THEN Then(p, [step |-> "status", spec |-> c.id.item[2], to |-> Verdict[c.answer]])
           ELSE UNCHANGED specCli
    /\ UNCHANGED <<status, covered, sources, issues, links, decomposed, gap, missed>>

-----------------------------------------------------------------------------
(* GapDetectionJob.execute.  The engine runs one job at a time; without *)
(* active specs, or without source files, there is nothing to do.       *)
GapStart ==
    LET active == {s \in SpecId : status[s] = "active"} IN
    /\ gap.step = "idle" /\ job.step = "idle"
    /\ active # {} /\ sources
    /\ gap' = [step |-> "next", gaps |-> active \ covered, covered |-> active \cap covered]
    /\ UNCHANGED <<storeVars, status, covered, sources, issues, links, decomposed, specCli, missed>>

(* The job reaches a step with a spec of its lists ... *)
GapAt(step, s) ==
    gap' = [step |-> step, spec |-> s, gaps |-> gap.gaps, covered |-> gap.covered]

(* ... or leaves it for the next one; with none left the run has ended. *)
GapRest(s) ==
    LET gaps == gap.gaps \ {s}  rest == gap.covered \ {s}
    IN gap' = IF gaps \cup rest = {} THEN NoGap
              ELSE [step |-> "next", gaps |-> gaps, covered |-> rest]

OnlyGap ==
    UNCHANGED <<storeVars, status, covered, sources, issues, links, decomposed, specCli, missed>>

(* Gaps first.  A spec that waits for a human already is left alone. *)
GapCheck(s) ==
    /\ gap.step = "next"
    /\ s \in gap.gaps
    /\ IF HasOpenItems(s) THEN GapRest(s) ELSE GapAt("search", s)
    /\ OnlyGap

(* Variant: closed issues are found as well. *)
GapSearchAll ==
    /\ gap.step = "search"
    /\ IF \A n \in Issue : issues[gap.spec][n] = "none"
         THEN GapAt("create", gap.spec) ELSE GapRest(gap.spec)
    /\ OnlyGap

(* Variant: the links of the spec are looked at in place of GitHub. *)
GapSearchLinks ==
    /\ gap.step = "search"
    /\ IF OpenGapIssues(gap.spec) \cap links[gap.spec] = {}
         THEN GapAt("create", gap.spec) ELSE GapRest(gap.spec)
    /\ OnlyGap

(* has_existing_gap_issue: an open issue with the title or the fingerprint. *)
GapSearch ==
    /\ gap.step = "search"
    /\ IF OpenGapIssues(gap.spec) = {}
         THEN GapAt("create", gap.spec) ELSE GapRest(gap.spec)
    /\ OnlyGap

(* The title is searched for among the gap issues of all specs, and an open  *)
(* one of another spec, with that name or a longer one, is found as well: no *)
(* issue is created.                                                         *)
GapSearchOther ==
    /\ gap.step = "search"
    /\ GapAt("other", gap.spec)
    /\ OnlyGap

GapSkip ==
    /\ gap.step = "other"
    /\ GapRest(gap.spec)
    /\ OnlyGap

Faulty ==
    /\ Fault
    /\ UNCHANGED <<status, covered, sources, issues, links, decomposed, specCli>>

(* A search that fails counts as one that finds nothing. *)
GapSearchFails ==
    /\ gap.step = "search"
    /\ Faulty
    /\ missed' = missed + 1
    /\ GapAt("create", gap.spec)

GapCreate(n) ==
    /\ gap.step = "create"
    /\ issues[gap.spec][n] = "none"
    /\ issues' = [issues EXCEPT ![gap.spec][n] = "open"]
    /\ gap' = [step |-> "link", spec |-> gap.spec, issue |-> n,
                gaps |-> gap.gaps, covered |-> gap.covered]
    /\ UNCHANGED <<storeVars, status, covered, sources, links, decomposed, specCli, missed>>

GapLink ==
    /\ gap.step = "link"
    /\ links' = [links EXCEPT ![gap.spec] = @ \cup {gap.issue}]
    /\ GapRest(gap.spec)
    /\ UNCHANGED <<storeVars, status, covered, sources, issues, decomposed, specCli, missed>>

(* Then the covered specs: left alone while they wait for a human, ... *)
CoveredCheck(s) ==
    /\ gap.step = "next"
    /\ gap.gaps = {}
    /\ s \in gap.covered
    /\ IF HasOpenItems(s) THEN GapRest(s) ELSE GapAt("issues", s)
    /\ OnlyGap

(* Variant: an issue counts as done only if it is linked and closed. *)
CoveredIssuesEvery ==
    /\ gap.step = "issues"
    /\ IF \A n \in Number :
            issues[gap.spec][n] # "none" => n \in links[gap.spec] /\ issues[gap.spec][n] = "closed"
         THEN GapAt("completing", gap.spec) ELSE GapRest(gap.spec)
    /\ OnlyGap

(* all_linked_issues_done: ... or while an issue linked to them is not closed, *)
(* or one they were decomposed into, which no `spec unlink` forgets.           *)
CoveredIssues ==
    /\ gap.step = "issues"
    /\ IF AllClosed(gap.spec)
         THEN GapAt("completing", gap.spec) ELSE GapRest(gap.spec)
    /\ OnlyGap

(* The status is written whatever it has become since the specs were listed. *)
CoveredCompleting ==
    /\ gap.step = "completing"
    /\ status' = [status EXCEPT ![gap.spec] = "completing"]
    /\ GapAt("test", gap.spec)
    /\ UNCHANGED <<storeVars, covered, sources, issues, links, decomposed, specCli, missed>>

(* Variant: the review replaces the row of an earlier one. *)
CoveredReviewAgain ==
    LET id == Root(<<"completion", gap.spec>>) IN
    /\ gap.step = "test"
    /\ rows' = [k \in DOMAIN rows \cup {id} |-> IF k = id THEN HitlRow(0) ELSE rows[k]]
    /\ GapRest(gap.spec)
    /\ UNCHANGED <<cli, job, commands, faults>>
    /\ UNCHANGED <<status, covered, sources, issues, links, decomposed, specCli, missed>>

(* No test commands, or all passed: a human is asked for the final review. *)
CoveredReview ==
    /\ gap.step = "test"
    /\ Open(<<"completion", gap.spec>>)
    /\ GapRest(gap.spec)
    /\ UNCHANGED <<status, covered, sources, issues, links, decomposed, specCli, missed>>

(* A test failed, or could not be run: back to active; if one failed, a *)
(* human is told.                                                       *)
CoveredRevert ==
    /\ gap.step = "test"
    /\ status' = [status EXCEPT ![gap.spec] = "active"]
    /\ GapAt("tell", gap.spec) \/ GapRest(gap.spec)
    /\ UNCHANGED <<storeVars, covered, sources, issues, links, decomposed, specCli, missed>>

CoveredTell ==
    /\ gap.step = "tell"
    /\ Open(<<"test_failure", gap.spec>>)
    /\ GapRest(gap.spec)
    /\ UNCHANGED <<status, covered, sources, issues, links, decomposed, specCli, missed>>

(* A statement or a call of gh fails: the job goes on with the next spec, or *)
(* tells a human of failed tests although the spec was not set back.         *)
GapFault ==
    /\ gap.step \notin {"idle", "next", "search", "other"}
    /\ Faulty /\ UNCHANGED missed
    /\ GapRest(gap.spec) \/ (gap.step = "test" /\ GapAt("tell", gap.spec))

(* A look at the rows that fails counts as one that finds none open. *)
CheckFails(s) ==
    /\ gap.step = "next"
    /\ Faulty /\ UNCHANGED missed
    /\ \/ s \in gap.gaps /\ GapAt("search", s)
       \/ gap.gaps = {} /\ s \in gap.covered /\ GapAt("issues", s)

(* The daemon is killed. *)
GapKill ==
    /\ gap.step # "idle"
    /\ Faulty /\ UNCHANGED missed
    /\ gap' = NoGap

GapStep ==
    \/ GapStart \/ GapSearch \/ GapSearchOther \/ GapSkip \/ GapLink
    \/ \E n \in Issue : GapCreate(n)
    \/ \E s \in SpecId : GapCheck(s) \/ CoveredCheck(s)
    \/ CoveredIssues \/ CoveredCompleting \/ CoveredReview \/ CoveredRevert \/ CoveredTell

-----------------------------------------------------------------------------
(* A process executes one command at a time, and the engine one job. *)
HitlStep(p) ==
    /\ specCli[p].step = "idle"
    /\ \/ Abandon(p)
       \/ (cli[p].step = "answer" => cli[p].answer = "replan") /\ CliStep(p)
    /\ UNCHANGED specVars

TimeoutStep ==
    /\ gap.step = "idle"
    /\ JobStep
    /\ UNCHANGED specVars

SpecStep(p) ==
    \/ \E s \in SpecId, conflict \in Overlap : AddSpec(p, s, conflict)
    \/ AddReview(p) \/ AddActivate(p) \/ AddParent(p) \/ AddLink(p) \/ AddStore(p)
    \/ \E n \in Child : AddChild(p, n) \/ AddChildLink(p, n)
    \/ (\E s \in SpecId : UpdateRead(p, s)) \/ UpdateWrite(p)
    \/ \E s \in SpecId, to \in SpecStatus : StatusRead(p, s, to)
    \/ StatusWrite(p) \/ SpecAbandon(p) \/ Respond(p)

LifecycleNext ==
    \/ SourcesChange
    \/ \E s \in SpecId : Implement(s)
    \/ \E s \in SpecId, n \in Number : CloseIssue(s, n) \/ Link(s, n)
    \/ \E p \in Cli : HitlStep(p) \/ SpecStep(p)
    \/ \E id \in DOMAIN rows :
         /\ Expire(id) \/ \E phase \in QueuePhase : QueueSet(id, phase)
         /\ UNCHANGED specVars
    \/ TimeoutStep
    \/ (JobFault \/ Kill) /\ UNCHANGED specVars
    \/ GapStep
    \/ GapSearchFails \/ GapFault \/ GapKill \/ \E s \in SpecId : CheckFails(s)

LifecycleSpec == LifecycleInit /\ [][LifecycleNext]_vars

(* A tick of the engine runs every job that is due, one after the other. *)
FairLifecycle == LifecycleSpec /\ WF_vars(GapStep) /\ SF_vars(TimeoutStep)

-----------------------------------------------------------------------------
(* The reviews are rows of HitlStore: opening, answering and expiring them *)
(* among the steps of a spec is no step that HitlStore does not have, so    *)
(* what holds of its rows holds here.                                       *)
ReviewsAreHitlRows == Spec

(* One gap, one open issue: kills between creating an issue and linking it, *)
(* or commands that unlink it, open no second one.  Only a search that      *)
(* failed can.                                                              *)
OneOpenGapIssue ==
    \A s \in SpecId : Cardinality(OpenGapIssues(s)) <= 1 + missed

SpecCommandType ==
    {Nothing}
      \cup [step : {"review", "activate", "parent", "link"}, spec : SpecId,
            conflict : Overlap]
      \cup [step : {"children", "linking"}, spec : SpecId,
            children : SUBSET Child, unlinked : SUBSET Child]
      \cup [step : {"update"}, spec : SpecId, decomposed : SUBSET Child]
      \cup [step : {"status"}, spec : SpecId, to : SpecStatus]

GapType ==
    [step : {"idle", "next"}, gaps : SUBSET SpecId, covered : SUBSET SpecId]
      \cup [step : {"search", "other", "create", "issues", "completing", "test", "tell"},
            spec : SpecId, gaps : SUBSET SpecId, covered : SUBSET SpecId]
      \cup [step : {"link"}, spec : SpecId, issue : Issue,
            gaps : SUBSET SpecId, covered : SUBSET SpecId]

LifecycleTypeOK ==
    /\ status \in [SpecId -> SpecStatus \cup {"none"}]
    /\ covered \subseteq SpecId
    /\ sources \in BOOLEAN
    /\ issues \in [SpecId -> [Number -> {"none", "open", "closed"}]]
    /\ links \in [SpecId -> SUBSET Number]
    /\ decomposed \in [SpecId -> SUBSET Child]
    /\ specCli \in [Cli -> SpecCommandType]
    /\ gap \in GapType
    /\ missed \in Nat

(* The job creates an issue only if it has seen none, or missed the ones *)
(* there are.                                                            *)
NoneSeenAtCreate ==
    gap.step = "create" => Cardinality(OpenGapIssues(gap.spec)) <= missed

LifecycleInv == LifecycleTypeOK /\ OneOpenGapIssue /\ NoneSeenAtCreate

(* A gap does not stay unreported: an active spec that is not covered and   *)
(* waits for no human gets an issue, however often earlier ones are closed, *)
(* while there are source files to look at, unless the search for its issue *)
(* comes upon that of another spec again and again.                         *)
GapIsReported ==
    \A s \in SpecId :
        <>[](sources /\ status[s] = "active" /\ s \notin covered /\ ~HasOpenItems(s))
            => []<>(OpenGapIssues(s) # {}) \/ []<>(gap.step = "other" /\ gap.spec = s)

(* A covered spec is not forgotten: while there are source files, it does not *)
(* stay active once every issue that is linked to it, or that it was          *)
(* decomposed into, is closed and it waits for no human.                      *)
CoveredIsNoticed ==
    \A s \in SpecId :
        ~<>[](/\ sources /\ status[s] = "active" /\ s \in covered
              /\ ~HasOpenItems(s) /\ AllClosed(s))
=============================================================================
