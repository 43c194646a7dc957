---------------------------- MODULE HarnessRunner ----------------------------
(***************************************************************************)
(* A harness run: one request expanded into items that are submitted as    *)
(* child runs one after another, then a report on what became of them      *)
(* (harness/service.py).  The children are runs of RunLifecycle, the       *)
(* specification the task service implements.                              *)
(*                                                                         *)
(* Service, runner and workers are coroutines of one event loop.  `pc` is  *)
(* where the runner stands; where it holds the loop between two writes     *)
(* only the end of the process can come between.                           *)
(***************************************************************************)
EXTENDS HarnessExpansion

CONSTANTS
    Sections,      \* numbers of the sections that may be indexed, in document order
    Scope,         \* those within the owner's departments and clearance
    Lines,         \* what a person may type: sequences of questions
    Definitions,   \* the versions of the definition file
    Children,      \* the child runs: an item and its child go by their row's key
    Owner,         \* who starts the run
    Deciders,      \* those holding approval.decide and task.read.all
    Sensitive,     \* children whose answer's classification requires approval
    Revisions,     \* whether a reviewer may return a child to its owner
    Faults,        \* whether a write of the runner may fail
    MaxDisruptions,\* bound: restarts, of which a change of the world is the last
    None

VARIABLES
    directory,   \* the definition files that declare this harness now
    corpus,      \* the sections indexed now
    permitted,   \* whether the owner's account may submit runs now
    page,        \* the preview in front of the owner
    built,       \* whether this process has built its harness service
    pc,          \* where the runner, or a handler writing a report, stands
    run,         \* the record it works on, in memory
    stored,      \* the record in the database
    files,       \* what each version's report files hold
    log,         \* report_generated records: version and content
    approved,    \* who has approved which version of the report
    started,     \* running_since is set for the child in flight
    fired,       \* its watchdog has fired
    sent,        \* _cancel_sent
    child,       \* the state of each child run
    asked,       \* children that run and have been asked to stop
    running,     \* children a worker executes
    ran,         \* children a worker ever executed
    disruptions

world == <<directory, corpus, permitted, disruptions>>
reports == <<files, log, approved>>
memory == <<started, fired, sent>>
children == <<child, asked, running, ran>>
vars == <<world, page, built, pc, run, stored, reports, memory, children>>

L == INSTANCE RunLifecycle WITH Runs <- Children, state <- child, asked <- asked

(* What a run may ask. *)
Asked == Sections \cup UNION {{lines[n] : n \in DOMAIN lines} : lines \in Lines}

ItemStates == {"pending", "submitted", "settled", "submit_refused", "submit_failed", "not_submitted"}

ActiveRun == {"running", "cancelling"}
EndedRun == {"finished", "cancelled", "failed", "interrupted"}

(* The outcome of an item: a word of its own, or its child's. *)
Outcomes == {"pending", "queued", "running", "held", "refused", "not_submitted"} \cup L!States

(* What is known of some of the children. *)
PerChild(S) == UNION {[K -> S] : K \in SUBSET Children}

Contents == [outcomes : PerChild(Outcomes), answers : SUBSET Children]

Reports == [version : Nat \ {0}, content : Contents, statuses : PerChild(L!States),
            decision : {"none", "pending", "approved", "rejected"}, released : BOOLEAN]

Records == [status : ActiveRun \cup EndedRun, definition : Definitions, cancel : BOOLEAN,
            report : Reports \cup {None},
            items : PerChild([asks : Asked, state : ItemStates])]

ASSUME HarnessAssumption ==
    /\ Sections \subseteq Nat
    /\ IsFiniteSet(Sections)
    /\ Scope \subseteq Sections
    /\ Definitions \subseteq Definition
    /\ Children \subseteq Nat
    /\ \A d \in Definitions, lines \in Lines :
          Keys(PlanRows(d, lines, Sections, Scope)) \subseteq Children
    /\ \A lines \in Lines : lines \in Seq({lines[n] : n \in DOMAIN lines})
    /\ None \notin Reports \cup Records
    /\ Revisions \in BOOLEAN
    /\ Faults \in BOOLEAN
    /\ MaxDisruptions \in Nat

(* The children queued or executing.  One whose create_task failed after   *)
(* its row was stored looks active, but is in no queue.                    *)
Unsettled ==
    {n \in Children :
        child[n] = "active" /\ stored.items[n].state # "submit_failed"}

(* Statuses of a child at which the runner goes on to the next item. *)
SettledStatuses ==
    {"delivered", "awaiting_approval", "rejected", "blocked", "failed", "cancelled"}

Free == pc \in {"none", "ready", "waiting"}
Serving == built /\ Free

TypeOK ==
    /\ directory \subseteq Definitions
    /\ corpus \subseteq Sections
    /\ permitted \in BOOLEAN
    /\ built \in BOOLEAN
    /\ pc \in {"none", "ready", "loop", "created", "waiting", "closing", "written"}
    /\ (run = None) = (pc = "none")
    /\ {run, stored} \subseteq Records \cup {None}
    /\ files \in Seq(Contents)
    /\ log \subseteq (Nat \ {0}) \X Contents
    /\ approved \subseteq (Nat \ {0}) \X Deciders
    /\ {started, fired} \subseteq BOOLEAN
    /\ sent \subseteq Children
    /\ child \in [Children -> L!States]
    /\ asked \subseteq Children
    /\ running \subseteq Children
    /\ ran \subseteq Children
    /\ disruptions \in 0..MaxDisruptions

Init ==
    /\ \E d \in Definitions : directory = {d}
    /\ corpus = Sections
    /\ permitted = TRUE
    /\ page = None
    /\ built = FALSE
    /\ pc = "none"
    /\ run = None
    /\ stored = None
    /\ files = <<>>
    /\ log = {}
    /\ approved = {}
    /\ started = FALSE
    /\ fired = FALSE
    /\ sent = {}
    /\ L!RInit
    /\ running = {}
    /\ ran = {}
    /\ disruptions = 0

-----------------------------------------------------------------------------
(* The record and what becomes of its items. *)

NewRun(d, rows, wanted) ==
    [status |-> "running", definition |-> d, cancel |-> FALSE, report |-> None,
     items |-> [n \in wanted |-> [asks |-> RowOf(rows, n).asks, state |-> "pending"]]]

Submitted(r) == {n \in DOMAIN r.items : r.items[n].state \in {"submitted", "settled"}}
Pending(r) == {n \in DOMAIN r.items : r.items[n].state = "pending"}
InFlight(r) == {n \in DOMAIN r.items : r.items[n].state = "submitted"}
NextItem(r) == CHOOSE n \in Pending(r) : \A m \in Pending(r) : n <= m

Mark(r, n, state) == [r EXCEPT !.items[n].state = state]

(* The run ends: what was not submitted never will be. *)
Ended(r, status) ==
    [r EXCEPT !.status = status,
              !.items = [n \in DOMAIN r.items |->
                  IF n \in Pending(r) THEN [r.items[n] EXCEPT !.state = "not_submitted"]
                  ELSE r.items[n]]]

(* child_statuses: the children of a record as they stand. *)
Statuses(r) == [n \in Submitted(r) |-> child[n]]

(* What a report says of an item, from the item and its child's record     *)
(* alone: a status it does not know is a failure.                          *)
Outcome(r, n) ==
    CASE r.items[n].state = "submit_failed" -> "failed"
      [] r.items[n].state = "submit_refused" -> "refused"
      [] r.items[n].state \in {"pending", "not_submitted"} -> r.items[n].state
      [] child[n] = "active" -> IF n \in running THEN "running" ELSE "queued"
      [] child[n] = "awaiting_approval" -> "held"
      [] child[n] = "blocked" -> "refused"
      [] child[n] = "revision_requested" -> "failed"
      [] OTHER -> child[n]

(* What the files of a report carry: each outcome, and the answers of the  *)
(* children that were released.                                            *)
Content(r) == [outcomes |-> [n \in DOMAIN r.items |-> Outcome(r, n)],
               answers |-> {n \in DOMAIN r.items : Outcome(r, n) = "delivered"}]

(* Only what the report carries raises its classification. *)
Classified(content) == content.answers \cap Sensitive # {}

NeedsApproval(r) == r.definition.approval \/ Classified(Content(r))

(* Mutation: a report is written over the version before it. *)
VersionKept(r) == IF r.report = None THEN 1 ELSE r.report.version

VersionOf(r) == IF r.report = None THEN 1 ELSE r.report.version + 1

(* Mutation: an earlier approval is kept for the new version. *)
ReportedAsDecided(r) ==
    LET kept == r.report # None /\ r.report.decision = "approved"
    IN  [r EXCEPT !.report =
            [version |-> VersionOf(r), content |-> Content(r), statuses |-> Statuses(r),
             decision |-> IF kept THEN "approved" ELSE IF NeedsApproval(r) THEN "pending" ELSE "none",
             released |-> kept \/ ~NeedsApproval(r)]]

(* The next version of the report: a new one starts its approval again. *)
Reported(r) ==
    [r EXCEPT !.report =
        [version |-> VersionOf(r), content |-> Content(r), statuses |-> Statuses(r),
         decision |-> IF NeedsApproval(r) THEN "pending" ELSE "none",
         released |-> ~NeedsApproval(r)]]

(* Files and the audit record of them come before the record is stored. *)
WriteReport(r) ==
    LET new == Reported(r).report
    IN  /\ run' = Reported(r)
        /\ files' = IF new.version \in DOMAIN files
                    THEN [files EXCEPT ![new.version] = new.content]
                    ELSE Append(files, new.content)
        /\ log' = log \cup {<<new.version, new.content>>}
        /\ pc' = "written"
        /\ UNCHANGED <<stored, approved>>

(* What a download compares before it serves a report's files. *)
Intact(report) == files[report.version] = report.content

Save(r) == run' = r /\ stored' = r

(* The runner is over: everything it kept in memory goes. *)
Leave ==
    /\ pc' = "none"
    /\ run' = None
    /\ started' = FALSE
    /\ fired' = FALSE
    /\ sent' = {}

-----------------------------------------------------------------------------
(* Requests. *)

Preview ==
    /\ Serving
    /\ stored = None
    /\ \E d \in Loaded(directory), lines \in Lines :
          /\ Accepts(d, lines)
          /\ page' = [definition |-> d, lines |-> lines,
                      rows |-> PlanRows(d, lines, corpus, Scope)]
    /\ UNCHANGED <<world, built, pc, run, stored, reports, memory, children>>

(* Mutation: what is started is whatever the file says now. *)
StartOfAnyVersion(wanted) ==
    /\ Serving
    /\ permitted
    /\ stored = None
    /\ \E d \in Loaded(directory) :
          LET rows == PlanRows(d, page.lines, corpus, Scope)
              selected == Selected(d, rows, wanted)
          IN  selected # {} /\ Save(NewRun(d, rows, selected))
    /\ pc' = "ready"
    /\ UNCHANGED <<world, page, built, reports, memory, children>>

(* A start names the definition and the keys it saw in the preview. *)
Start(wanted) ==
    /\ Serving
    /\ permitted
    /\ stored = None
    /\ \E d \in Loaded(directory) :
          LET rows == PlanRows(d, page.lines, corpus, Scope)
              selected == Selected(d, rows, wanted)
          IN  d = page.definition /\ selected # {} /\ Save(NewRun(d, rows, selected))
    /\ pc' = "ready"
    /\ UNCHANGED <<world, page, built, reports, memory, children>>

(* What a stop of a child does in the task service. *)
StopRun(n) ==
    IF child[n] \in L!Settled THEN UNCHANGED children
    ELSE /\ IF n \in running THEN L!AskStop(n)
            ELSE child' = [child EXCEPT ![n] = "cancelled"] /\ UNCHANGED asked
         /\ UNCHANGED <<running, ran>>

(* The harness asks once for each child. *)
StopChild(n) ==
    /\ sent' = sent \cup {n}
    /\ IF n \in sent THEN UNCHANGED children ELSE StopRun(n)

(* The owner, or a supervisor who may both see all work and run work. *)
Cancel ==
    /\ Serving
    /\ pc # "none"
    /\ ~run.cancel
    /\ Save([run EXCEPT !.cancel = TRUE, !.status = "cancelling"])
    /\ IF InFlight(run) # {} THEN \E n \in InFlight(run) : StopChild(n)
       ELSE UNCHANGED <<sent, children>>
    /\ UNCHANGED <<world, page, built, pc, reports, started, fired>>

(* Only when a child has moved since, so that no signature is spent for    *)
(* nothing.                                                                *)
Regenerate ==
    /\ Serving
    /\ pc = "none"
    /\ stored # None
    /\ stored.status \notin ActiveRun
    /\ stored.report # None => stored.report.statuses # Statuses(stored)
    /\ WriteReport(stored)
    /\ UNCHANGED <<world, page, built, memory, children>>

(* Whoever started the run does not sign its report off. *)
Decide(u, verdict) ==
    /\ Serving
    /\ u # Owner
    /\ stored # None
    /\ stored.report # None
    /\ stored.report.decision = "pending"
    /\ stored' = [stored EXCEPT !.report.decision = verdict,
                                !.report.released = verdict = "approved"]
    /\ approved' = IF verdict = "approved" THEN approved \cup {<<stored.report.version, u>>}
                   ELSE approved
    /\ UNCHANGED <<world, page, built, pc, run, files, log, memory, children>>

-----------------------------------------------------------------------------
(* What a run's page shows, and what it offers whoever may do it. *)

(* The record its runner works on or, without one, the stored record. *)
Shown == IF pc = "none" THEN stored ELSE run

Active == Shown.status \in ActiveRun \/ pc # "none"

(* Children that have moved since the report was written. *)
ChangedItems ==
    IF Shown.report = None THEN {}
    ELSE {n \in Submitted(Shown) :
            n \in DOMAIN Shown.report.statuses => Shown.report.statuses[n] # child[n]}

CanCancel == Active /\ ~Shown.cancel

CanRegenerate == ~Active /\ (Shown.report = None \/ ChangedItems # {})

CanDecide(u) ==
    /\ Shown.report # None
    /\ Shown.report.decision = "pending"
    /\ u \in Deciders

(* Deciders may download what is still held, to decide it. *)
CanDownload(u) ==
    /\ Shown.report # None
    /\ u \in Deciders \/ (u = Owner /\ Shown.report.released)

(* Answers come with the children that were released; what is being worked *)
(* on, only while the run is active.                                       *)
View(u) ==
    [children |-> Content(Shown),
     current |-> IF Shown.status \in ActiveRun THEN InFlight(Shown) ELSE {},
     changed |-> ChangedItems,
     downloads |-> IF CanDownload(u) THEN Shown.report.content ELSE None]

(* An outcome that only the system, not a person, still has to change. *)
Unfinished == {"pending", "queued", "running"}

Tally(r) ==
    [total |-> Cardinality(DOMAIN r.items),
     settled |-> Cardinality({n \in DOMAIN r.items : Outcome(r, n) \notin Unfinished}),
     delivered |-> Cardinality({n \in DOMAIN r.items : Outcome(r, n) = "delivered"})]

(* The line a list of runs has for this one. *)
Summary ==
    [tally |-> Tally(Shown),
     current |-> IF Shown.status \in ActiveRun THEN InFlight(Shown) ELSE {},
     version |-> IF Shown.report = None THEN 0 ELSE Shown.report.version,
     released |-> Shown.report # None /\ Shown.report.released]

-----------------------------------------------------------------------------
(* The runner. *)

CancelRequested == run.cancel

Begin ==
    /\ pc = "ready"
    /\ pc' = "loop"
    /\ UNCHANGED <<world, page, built, run, stored, reports, memory, children>>

(* The owner may have lost the account or the permission since. *)
RefuseItem ==
    /\ pc = "loop"
    /\ ~CancelRequested
    /\ Pending(run) # {}
    /\ ~permitted
    /\ Save(Mark(run, NextItem(run), "submit_refused"))
    /\ UNCHANGED <<world, page, built, pc, reports, memory, children>>

Submit ==
    /\ pc = "loop"
    /\ ~CancelRequested
    /\ Pending(run) # {}
    /\ permitted
    /\ L!Submit(NextItem(run))
    /\ run' = Mark(run, NextItem(run), "submitted")
    /\ pc' = "created"
    /\ UNCHANGED <<world, page, built, stored, reports, memory, running, ran>>

(* create_task raises, before or after it has stored the child's row. *)
SubmitFails ==
    /\ Faults
    /\ pc = "loop"
    /\ ~CancelRequested
    /\ Pending(run) # {}
    /\ permitted
    /\ \/ UNCHANGED children
       \/ L!Submit(NextItem(run)) /\ UNCHANGED <<running, ran>>
    /\ Save(Mark(run, NextItem(run), "submit_failed"))
    /\ UNCHANGED <<world, page, built, pc, reports, memory>>

(* Mutation: the submission is stored with the item's end only. *)
SaveAtSettling ==
    /\ pc = "created"
    /\ pc' = "waiting"
    /\ UNCHANGED <<world, page, built, run, stored, reports, memory, children>>

SaveSubmitted ==
    /\ pc = "created"
    /\ stored' = run
    /\ pc' = "waiting"
    /\ UNCHANGED <<world, page, built, run, reports, memory, children>>

(* One turn of the wait for the child in flight. *)
Settle(n) ==
    /\ child[n] \in SettledStatuses
    /\ Save(Mark(run, n, "settled"))
    /\ pc' = "loop"
    /\ started' = FALSE
    /\ fired' = FALSE
    /\ UNCHANGED <<sent, children>>

Watch(n) ==
    /\ child[n] \notin SettledStatuses
    /\ started' = (started \/ n \in running)
    /\ IF CancelRequested THEN StopChild(n) /\ UNCHANGED fired
       ELSE \/ UNCHANGED <<fired, sent, children>>
            \/ started' /\ ~fired /\ fired' = TRUE /\ StopChild(n)
    /\ UNCHANGED <<pc, run, stored>>

Poll ==
    /\ pc = "waiting"
    /\ \E n \in InFlight(run) : Settle(n) \/ Watch(n)
    /\ UNCHANGED <<world, page, built, reports>>

(* No item is left, or the run was cancelled: its end is stored, then its  *)
(* report is written.                                                      *)
Close ==
    /\ pc = "loop"
    /\ CancelRequested \/ Pending(run) = {}
    /\ Save(Ended(run, IF CancelRequested THEN "cancelled" ELSE "finished"))
    /\ pc' = "closing"
    /\ UNCHANGED <<world, page, built, reports, memory, children>>

Report ==
    /\ pc = "closing"
    /\ WriteReport(run)
    /\ UNCHANGED <<world, page, built, memory, children>>

(* The run ends without one; regenerating writes it. *)
ReportFails ==
    /\ Faults
    /\ pc = "closing"
    /\ pc' = "written"
    /\ UNCHANGED <<world, page, built, run, stored, reports, memory, children>>

(* The record with its report is stored, and whoever wrote it is done. *)
Conclude ==
    /\ pc = "written"
    /\ stored' = run
    /\ Leave
    /\ UNCHANGED <<world, page, built, reports, children>>

(* A write fails: the runner closes the run and is over. *)
RunnerFails ==
    /\ Faults
    /\ pc \in {"created", "waiting"}
    /\ stored' = Ended(run, "failed")
    /\ Leave
    /\ UNCHANGED <<world, page, built, reports, children>>

-----------------------------------------------------------------------------
(* Mutation: only runs nobody cancelled are taken for interrupted. *)
BuildForRunning ==
    /\ ~built
    /\ Free
    /\ built' = TRUE
    /\ IF stored # None /\ stored.status = "running"
       THEN WriteReport(Ended(stored, "interrupted"))
       ELSE UNCHANGED <<pc, run, stored, reports>>
    /\ UNCHANGED <<world, page, memory, children>>

(* The service is built by the first request for it, and closes out the    *)
(* run a process before it left active.                                    *)

Build ==
    /\ ~built
    /\ Free
    /\ built' = TRUE
    /\ IF stored # None /\ stored.status \in ActiveRun
       THEN WriteReport(Ended(stored, "interrupted"))
       ELSE UNCHANGED <<pc, run, stored, reports>>
    /\ UNCHANGED <<world, page, memory, children>>

(* The process ends at any point and is started again: the task service    *)
(* fails the children left active before anything is served.               *)
Restart ==
    /\ disruptions < MaxDisruptions
    /\ disruptions' = disruptions + 1
    /\ built' = FALSE
    /\ Leave
    /\ child' = [n \in Children |-> IF child[n] = "active" THEN "failed" ELSE child[n]]
    /\ asked' = {}
    /\ running' = {}
    /\ UNCHANGED <<directory, corpus, permitted, page, stored, reports, ran>>

(* The definition is edited, copied or withdrawn, or a document indexed or removed, which a run  *)
(* that has started no longer looks at; or the owner loses the permission  *)
(* or the account.                                                         *)
Disturb ==
    /\ disruptions < MaxDisruptions
    /\ disruptions' = MaxDisruptions
    /\ Free
    /\ \/ /\ stored = None
          /\ \/ directory' \in SUBSET Definitions /\ UNCHANGED corpus
             \/ corpus' \in SUBSET Sections /\ UNCHANGED directory
          /\ UNCHANGED permitted
       \/ permitted' = FALSE /\ UNCHANGED <<directory, corpus>>
    /\ UNCHANGED <<page, built, pc, run, stored, reports, memory, children>>

-----------------------------------------------------------------------------
(* The children, between the turns of the runner. *)

others == <<world, page, built, pc, run, stored, reports, memory>>

ChildTaken(n) ==
    /\ Free
    /\ n \in Unsettled \ running
    /\ running' = running \cup {n}
    /\ ran' = ran \cup {n}
    /\ UNCHANGED <<others, child, asked>>

ChildEnds(n) ==
    /\ Free
    /\ n \in running
    /\ L!Leave(n)
    /\ running' = running \ {n}
    /\ UNCHANGED <<others, ran>>

ChildReviewed(n) ==
    /\ Free
    /\ L!Review(n)
    /\ child'[n] = "revision_requested" => Revisions
    /\ UNCHANGED <<others, running, ran>>

(* Its owner stops the child itself, not through the harness. *)
ChildStopped(n) ==
    /\ Free
    /\ child[n] # "absent"
    /\ StopRun(n)
    /\ UNCHANGED others

Runner ==
    \/ Begin \/ RefuseItem \/ Submit \/ SubmitFails \/ SaveSubmitted \/ Poll
    \/ Close \/ Report \/ ReportFails \/ Conclude \/ RunnerFails

Next ==
    \/ Preview
    \/ page # None /\ \E wanted \in SUBSET Keys(page.rows) : Start(wanted)
    \/ Cancel
    \/ Regenerate
    \/ \E u \in Deciders, verdict \in {"approved", "rejected"} : Decide(u, verdict)
    \/ Runner
    \/ Build
    \/ Restart
    \/ Disturb
    \/ \E n \in Children :
          ChildTaken(n) \/ ChildEnds(n) \/ ChildReviewed(n) \/ ChildStopped(n)

(* The runner polls for ever and workers go on working.  A harness page is *)
(* asked for sooner or later; people otherwise owe nothing.                *)
Fairness ==
    /\ WF_vars(Begin \/ RefuseItem \/ Submit \/ SaveSubmitted \/ Close \/ Report \/ Conclude)
    /\ WF_vars(Poll)
    /\ WF_vars(Build)
    /\ \A n \in Children : WF_vars(ChildTaken(n)) /\ WF_vars(ChildEnds(n))

Spec == Init /\ [][Next]_vars
LiveSpec == Spec /\ Fairness

-----------------------------------------------------------------------------
(* Properties. *)

(* What a run asks is what its owner saw in the preview, though the file   *)
(* and the corpus may have changed before the start: start compares the    *)
(* definition's hash and refuses a key that expansion no longer produces.  *)
RunAsPreviewed ==
    stored # None =>
        \A n \in DOMAIN stored.items :
            [key |-> n, asks |-> stored.items[n].asks] \in page.rows

(* An item a stored record reports as never submitted was never executed:  *)
(* a process that dies between the child's row and the record of it loses  *)
(* no work.                                                                *)
NotSubmittedNeverRan ==
    stored # None =>
        \A n \in DOMAIN stored.items :
            stored.items[n].state \notin {"submitted", "settled"} => n \notin ran

(* The report on record is the one in its files and in the audit log, also *)
(* after a process died while another was written.                         *)
FilesMatchRecord ==
    stored # None /\ stored.report # None =>
        /\ Intact(stored.report)
        /\ <<stored.report.version, stored.report.content>> \in log

(* A report that needs approval is released only when someone else than    *)
(* the owner approved that very version: an approval is not carried over   *)
(* to a regenerated one, nor lost by a restart while one is written.       *)
ReleasedIsApproved ==
    stored # None /\ stored.report # None /\ stored.report.released =>
        \/ ~stored.definition.approval /\ ~Classified(stored.report.content)
        \/ \E u \in Deciders \ {Owner} : <<stored.report.version, u>> \in approved

(* Files somebody signed are never written again, whoever dies or fails    *)
(* while a later version is written.                                       *)
SignedIsFinal == [][\A a \in approved : files'[a[1]] = files[a[1]]]_vars

(* What a run's page offers the service accepts when it is asked: a cancel *)
(* finds a runner, a new report has something new to say, a decision is    *)
(* taken from whoever did not start the run, and the files offered still   *)
(* hold what was recorded of them.                                         *)
OffersAreKept ==
    Serving /\ stored # None =>
        /\ CanCancel => pc # "none" /\ ~run.cancel
        /\ CanRegenerate =>
              /\ pc = "none"
              /\ stored.status \notin ActiveRun
              /\ stored.report # None => stored.report.statuses # Statuses(stored)
        /\ \A u \in Deciders :
              CanDecide(u) => stored.report # None /\ stored.report.decision = "pending"
        /\ \A u \in Deciders \cup {Owner} :
              CanDownload(u) => /\ Intact(stored.report)
                               /\ View(u).downloads = files[stored.report.version]

(* Page and list agree that at most one child is being worked on, and      *)
(* while the last is, the run has no report yet.                           *)
OneAtATime ==
    Serving /\ stored # None =>
        \A n, m \in Summary.current :
            n = m /\ Summary.version = 0 /\ ~Summary.released

(* A child the page or the list counts as settled is with no worker, also  *)
(* after a restart and whatever became of its submission.                  *)
SettledIsIdle ==
    Serving /\ stored # None =>
        \A n \in DOMAIN Shown.items :
            View(Owner).children.outcomes[n] \notin Unfinished => n \notin running

(* While the service is up, a run that looks active has its runner.        *)
ActiveHasRunner ==
    built /\ stored # None /\ stored.status \in ActiveRun => run # None

(* A run that was cancelled ends. *)
CancelEnds ==
    (stored # None /\ stored.cancel) ~> (stored # None /\ stored.status \notin ActiveRun)

(* A child that only a person can move does not keep the runner waiting.   *)
RunnerMovesOn ==
    \A n \in Children :
        child[n] = "revision_requested" ~>
            ~(stored # None /\ n \in DOMAIN stored.items /\ stored.items[n].state = "submitted")
=============================================================================
