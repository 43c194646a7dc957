------------------------------ MODULE Approval -------------------------------
(***************************************************************************)
(* One run held for review: who may decide it, which signatures it needs,  *)
(* what each is bound to, and what a change to the run does to them.       *)
(*                                                                         *)
(* A handler computes a new record and then makes its writes one by one:   *)
(* rows, audit records and the rendered file.  `todo` holds those still to *)
(* be made, so a restart loses any suffix of them.  Handlers of one        *)
(* process never interleave: none suspends.                                *)
(***************************************************************************)
EXTENDS Naturals, Sequences, SequencesExt, Functions, FiniteSets

CONSTANTS
    Users,         \* the accounts that hold approval.decide
    Roles,         \* their roles
    RoleOf,        \* each account's role
    Runner,        \* the account that submitted the run
    ReviewRoles,   \* approver_roles of the rules that name no signatures
    Policies,      \* the contents policies/ may have
    Plan,          \* per policy and severity, the ordered signatures' roles
    Severities,    \* the severities a formula computes
    Conflicts,     \* the disagreements between sources that may be found
    HighImpact,    \* those a decision depends on
    Formats,       \* digest versions the run may have been held under
    HotEdits,      \* whether policies/ may be edited under a live process
    MaxDisruptions,\* bound: restarts and edits
    None           \* no severity, no file, no digest

ASSUME ApprovalAssumption ==
    /\ RoleOf \in [Users -> Roles]
    /\ ReviewRoles \subseteq Roles
    /\ Plan \in [Policies -> [Severities -> Seq(Roles)]]
    /\ HighImpact \subseteq Conflicts
    /\ Formats \subseteq {1, 2}
    /\ HotEdits \in BOOLEAN
    /\ MaxDisruptions \in Nat
    /\ None \notin Severities
    /\ None \notin [Conflicts -> {"unseen", "unresolved", "resolved"}]

VARIABLES
    row,          \* the task's row: conflicts, assessment, approval, deliverable
    todo,         \* writes the running handler has still to make
    file,         \* the run content the deliverable's bytes were rendered from
    log,          \* the audit records about the decision
    disk,         \* the policy files as they are
    loaded,       \* the policy as the process read it at start
    seen,         \* the digest on each reviewer's page
    disruptions   \* restarts and edits so far

vars == <<row, todo, file, log, disk, loaded, seen, disruptions>>

(* What a run says changes, after it is held, only as its conflicts are    *)
(* settled: the state of those stands for the answer, the results and the  *)
(* evidence.                                                               *)
Contents == [Conflicts -> {"unseen", "unresolved", "resolved"}]

(* Version 1 bound the content; version 2 also binds the policy files.     *)
Digests ==
    [version : {1}, content : Contents] \cup
    [version : {2}, content : Contents, policy : Policies]

Decisions == {"approve", "reject", "request_revision"}
Outcome   == [approve |-> "delivered", reject |-> "rejected",
              request_revision |-> "revision_requested"]
Statuses  == {"awaiting_approval", "delivered", "rejected", "revision_requested", "cancelled"}

Signatures == [by : Users, on : Digests]

Rows ==
    [status      : Statuses,
     conflicts   : Contents,
     severity    : Severities \cup {None},
     plan        : Seq(Roles),               \* approval.required_signatures
     approvers   : SUBSET Roles,             \* approval.approver_roles
     signatures  : Seq(Signatures),
     voided      : BOOLEAN,                  \* approval.void_reason is set
     digest      : Digests,                  \* review_digest as last stored
     deliverable : Contents \cup {None},     \* the file it names, by its hash
     released    : BOOLEAN,
     decided     : Signatures \cup {None}]   \* reviewer and bound digest

Events ==
    [kind : {"signed", "resolved"} \cup Decisions, by : Users, on : Digests] \cup
    [kind : {"signatures_voided", "cancelled"}]

Writes == [row : Rows] \cup [event : Events] \cup [file : Contents]

TypeOK ==
    /\ row \in Rows
    /\ todo \in Seq(Writes)
    /\ file \in Contents
    /\ log \subseteq Events
    /\ disk \in Policies
    /\ loaded \in Policies
    /\ seen \in [Users -> Digests \cup {None}]
    /\ disruptions \in Nat

-----------------------------------------------------------------------------
(* The digest and the signatures it must have. *)

ReviewDigest(r, version) ==
    IF version = 1 THEN [version |-> 1, content |-> r.conflicts]
                   ELSE [version |-> 2, content |-> r.conflicts, policy |-> disk]

RequiredSignatures(policy, severity) ==
    IF severity = None THEN <<>> ELSE Plan[policy][severity]

OpenHighImpact(r) == {c \in HighImpact : r.conflicts[c] = "unresolved"}

(* A row is always stored with the digest of what it then says. *)
Persist(r)  == <<[row |-> [r EXCEPT !.digest = ReviewDigest(r, 2)]]>>
Record(e)   == <<[event |-> e]>>

(* The plan the loaded policy has for the severity computed now.  With no  *)
(* severity, or no plan for it, what was stored stays.  (Mutation first:   *)
(* the plan is that of the gate.)                                          *)
ReplanAtGateOnly(r) == r

Replan(r) ==
    LET plan == IF r.severity = None THEN r.plan
                ELSE RequiredSignatures(loaded, r.severity)
    IN  [r EXCEPT !.plan = plan,
                  !.approvers = IF plan = <<>> THEN @ ELSE Range(plan)]

IsStale(s, r) == s.on # ReviewDigest(r, s.on.version)

(* Every signature is void once one was given on another version, or none  *)
(* is needed any more.                                                     *)
MustVoidIf(r, stale) ==
    \/ stale
    \/ r.signatures # <<>> /\ r.plan = <<>>

(* Mutation: only a run that needs no signature loses them. *)
MustVoidNothingStale(r) == MustVoidIf(r, FALSE)

MustVoid(r) == MustVoidIf(r, \E s \in Range(r.signatures) : IsStale(s, r))

Refresh(r) ==
    IF MustVoid(Replan(r))
    THEN [Replan(r) EXCEPT !.signatures = <<>>, !.voided = TRUE]
    ELSE Replan(r)

RefreshWrites(r) ==
    IF MustVoid(Replan(r))
    THEN Persist(Refresh(r)) \o Record([kind |-> "signatures_voided"])
    ELSE <<>>

-----------------------------------------------------------------------------
(* What a reviewer's request does to a held run. *)
Handler(writes) ==
    /\ todo = <<>>
    /\ row.status = "awaiting_approval"
    /\ todo' = writes
    /\ UNCHANGED <<row, file, log, disk, loaded, seen, disruptions>>

MayAct(u, r) ==
    /\ r.approvers # {} => RoleOf[u] \in r.approvers
    /\ u # Runner

(* The page a decision is taken on shows the run as it is now, or, while   *)
(* the row is still a version 1 record, that record.  (Mutation first: the *)
(* digest sent is not looked at.)                                          *)
PageIsNotCompared(u, r) == TRUE

PageIsCurrent(u, r) ==
    \/ seen[u] \in {None, ReviewDigest(r, 2)}
    \/ seen[u] = row.digest /\ seen[u] = ReviewDigest(r, 1)

(* The next signature of the plan, by someone who has given none. *)
MaySign(u, r) ==
    /\ \A s \in Range(r.signatures) : s.by # u
    /\ Len(r.signatures) < Len(r.plan)
    /\ RoleOf[u] = r.plan[Len(r.signatures) + 1]

Sign(u, r) ==
    [r EXCEPT !.signatures = Append(@, [by |-> u, on |-> ReviewDigest(r, 2)])]

Conclude(u, d, r) ==
    Persist([r EXCEPT !.status = Outcome[d],
                      !.released = (d = "approve"),
                      !.decided = [by |-> u, on |-> ReviewDigest(r, 2)]])
    \o Record([kind |-> d, by |-> u, on |-> ReviewDigest(r, 2)])

(* A signature is audited first, and stored with what it leads to. *)
Consequence(s, u) ==
    IF Len(s.signatures) = Len(s.plan) THEN Conclude(u, "approve", s) ELSE Persist(s)

(* Mutations: it is stored first; the first signature releases. *)
SignStoredFirst(u, r) ==
    Consequence(Sign(u, r), u) \o Record([kind |-> "signed", by |-> u, on |-> ReviewDigest(r, 2)])
SignReleases(u, r) ==
    Record([kind |-> "signed", by |-> u, on |-> ReviewDigest(r, 2)])
    \o Conclude(u, "approve", Sign(u, r))

SignWrites(u, r) ==
    Record([kind |-> "signed", by |-> u, on |-> ReviewDigest(r, 2)]) \o Consequence(Sign(u, r), u)

(* A decision that is refused leaves only the voiding of signatures that   *)
(* were no longer good, whoever asked.  Only a request for revision needs  *)
(* a comment.                                                              *)
Permitted(u, d, commented, r) ==
    /\ MayAct(u, r)
    /\ PageIsCurrent(u, r)
    /\ d = "request_revision" => commented
    /\ d = "approve" => OpenHighImpact(r) = {} /\ (r.plan # <<>> => MaySign(u, r))

DecideApproval(u, d, commented) ==
    LET r == Refresh(row)
    IN  Handler(RefreshWrites(row) \o
                (IF ~ Permitted(u, d, commented, r) THEN <<>>
                 ELSE IF d = "approve" /\ r.plan # <<>> THEN SignWrites(u, r)
                 ELSE Conclude(u, d, r)))

(* A person settles a conflict: the run is computed again from the choice, *)
(* which may show a conflict nobody had seen and gives no severity while   *)
(* one that matters is open.  The file is rendered again under its name,   *)
(* unless content scanning stops it.  (Mutation first: the record keeps    *)
(* naming the file it had.)                                                *)
Settle(c, found) ==
    [k \in Conflicts |-> IF k = c THEN "resolved"
                         ELSE IF k \in found THEN "unresolved" ELSE row.conflicts[k]]

RecomputedKeepsFile(c, found, severity, rendered) ==
    [row EXCEPT !.conflicts = Settle(c, found), !.severity = severity]

Recomputed(c, found, severity, rendered) ==
    [row EXCEPT !.conflicts = Settle(c, found),
                !.severity = severity,
                !.deliverable = IF rendered THEN Settle(c, found) ELSE None]

ResolveConflict(u, c, found, severity, rendered) ==
    LET r == Recomputed(c, found, severity, rendered)
    IN  /\ row.conflicts[c] = "unresolved"
        /\ \A k \in found : row.conflicts[k] = "unseen"
        /\ OpenHighImpact(r) # {} => severity \in {None, row.severity}
        /\ MayAct(u, row)
        /\ Handler((IF rendered THEN <<[file |-> r.conflicts]>> ELSE <<>>)
                   \o Persist(r)
                   \o Record([kind |-> "resolved", by |-> u, on |-> ReviewDigest(r, 2)])
                   \o RefreshWrites(r)
                   \o Persist(Refresh(r)))

(* Stopping a held run, or one sent back to its submitter. *)
Cancel ==
    /\ todo = <<>>
    /\ row.status \in {"awaiting_approval", "revision_requested"}
    /\ todo' = Persist([row EXCEPT !.status = "cancelled"]) \o Record([kind |-> "cancelled"])
    /\ UNCHANGED <<row, file, log, disk, loaded, seen, disruptions>>

Write ==
    /\ todo # <<>>
    /\ todo' = Tail(todo)
    /\ row'  = IF "row" \in DOMAIN Head(todo) THEN Head(todo).row ELSE row
    /\ file' = IF "file" \in DOMAIN Head(todo) THEN Head(todo).file ELSE file
    /\ log'  = IF "event" \in DOMAIN Head(todo) THEN log \cup {Head(todo).event} ELSE log
    /\ UNCHANGED <<disk, loaded, seen, disruptions>>

(* A reviewer's page shows the digest a signature would be checked against. *)
Open(u) ==
    /\ row.status = "awaiting_approval"
    /\ seen' = [seen EXCEPT ![u] = ReviewDigest(row, 2)]
    /\ UNCHANGED <<row, todo, file, log, disk, loaded, disruptions>>

(* The process ends, between two writes or not, and starts again on the    *)
(* policy files as they are by then.                                       *)
Restart(policy) ==
    /\ disruptions < MaxDisruptions
    /\ disruptions' = disruptions + 1
    /\ todo' = <<>>
    /\ disk' = policy
    /\ loaded' = policy
    /\ UNCHANGED <<row, file, log, seen>>

EditPolicy(policy) ==
    /\ HotEdits
    /\ todo = <<>>
    /\ disruptions < MaxDisruptions
    /\ disruptions' = disruptions + 1
    /\ disk' = policy
    /\ UNCHANGED <<row, todo, file, log, loaded, seen>>

-----------------------------------------------------------------------------
(* The gate holds the run with the plan for its severity.  A row of an     *)
(* earlier release has a version 1 digest, may have its first signature on *)
(* it, and pages may be open that show it.                                 *)
Gate(version) ==
    /\ disk \in Policies
    /\ loaded = disk
    /\ \E contents \in [Conflicts -> {"unseen", "unresolved"}], severity \in Severities \cup {None} :
          LET plan   == RequiredSignatures(loaded, severity)
              digest == IF version = 1 THEN [version |-> 1, content |-> contents]
                        ELSE [version |-> 2, content |-> contents, policy |-> disk]
              first  == {u \in Users \ {Runner} : plan # <<>> /\ RoleOf[u] = plan[1]}
          IN  /\ (\E c \in HighImpact : contents[c] = "unresolved") => severity = None
              /\ file = contents
              /\ \E signatures \in {<<>>} \cup
                    (IF version = 1 /\ Len(plan) > 1 THEN {<<[by |-> u, on |-> digest]>> : u \in first} ELSE {}) :
                   /\ row = [status |-> "awaiting_approval", conflicts |-> contents,
                             severity |-> severity, plan |-> plan,
                             approvers |-> IF plan = <<>> THEN ReviewRoles ELSE Range(plan),
                             signatures |-> signatures, voided |-> FALSE, digest |-> digest,
                             deliverable |-> contents, released |-> FALSE, decided |-> None]
                   /\ log = {[kind |-> "signed", by |-> s.by, on |-> s.on] : s \in Range(signatures)}
              /\ seen \in IF version = 1 THEN [Users -> {None, digest}] ELSE {[u \in Users |-> None]}
    /\ todo = <<>>
    /\ disruptions = 0

Init == \E version \in Formats : Gate(version)

Next ==
    \/ \E u \in Users, d \in Decisions, commented \in BOOLEAN : DecideApproval(u, d, commented)
    \/ \E u \in Users, c \in Conflicts, found \in SUBSET Conflicts,
          severity \in Severities \cup {None}, rendered \in BOOLEAN :
             ResolveConflict(u, c, found, severity, rendered)
    \/ \E u \in Users : Open(u)
    \/ \E policy \in Policies : Restart(policy) \/ EditPolicy(policy)
    \/ Cancel \/ Write

Spec == Init /\ [][Next]_vars
-----------------------------------------------------------------------------
(* Properties. *)

(* What binds a signature to the plan it was given under.  The rules are   *)
(* read at start and the files hashed when a signature is given: only if   *)
(* nobody edits them in between does its digest name the rules it was      *)
(* asked by.  One of version 1 names none.                                 *)
Bound(s) ==
    IF s.on.version = 1 THEN disruptions = 0 ELSE ~HotEdits \/ disruptions <= 1

(* The required signatures are all there when a run is released: one per   *)
(* place of its plan by as many people, none of whom ran it, each bound    *)
(* one of the role of its place; with no plan, one approver of an          *)
(* approving role.                                                         *)
SignedByPlan ==
    row.released =>
        /\ Len(row.signatures) = Len(row.plan)
        /\ \A i \in 1..Len(row.signatures) :
              /\ Bound(row.signatures[i]) => RoleOf[row.signatures[i].by] = row.plan[i]
              /\ row.signatures[i].by # Runner
              /\ \A j \in 1..Len(row.signatures) :
                    row.signatures[i].by = row.signatures[j].by => i = j
        /\ row.decided.by # Runner
        /\ row.approvers # {} => RoleOf[row.decided.by] \in row.approvers

(* Each place of the plan is filled by its role, in order: what the        *)
(* handbook says of two signatures.  It fails where a signature given      *)
(* between an edit of the policy files and the restart that reads them is  *)
(* counted, still good, for a place of the new plan.                       *)
OrderIsEnforced ==
    row.released =>
        \A i \in 1..Len(row.signatures) : RoleOf[row.signatures[i].by] = row.plan[i]

(* Everyone signed the version that is released, as far as the format of   *)
(* their signature binds it.                                               *)
OneVersionSigned ==
    row.released =>
        \A s \in Range(row.signatures) \cup {row.decided} :
            /\ s.on.content = row.conflicts
            /\ s.on.version = 2 => s.on = row.decided.on

(* Nothing is released while sources disagree on what the decision needs.  *)
NothingReleasedInDispute == row.released => OpenHighImpact(row) = {}

(* A run is released on the signatures the policy of the running process   *)
(* asks of its severity then, not on those it asked when the run was held  *)
(* (_refresh_signatures).                                                  *)
ReleaseFollowsPolicy ==
    [][~ row.released /\ row'.released /\ row'.severity # None =>
          row'.plan = RequiredSignatures(loaded, row'.severity)]_vars

(* Whenever the process dies, a signature on record is one the audit log   *)
(* has.                                                                    *)
SignaturesAreLogged ==
    \A s \in Range(row.signatures) : [kind |-> "signed", by |-> s.by, on |-> s.on] \in log

(* Who ran the run neither decides it nor settles what it rests on.        *)
RunnerStaysOut ==
    \A e \in log : e.kind \notin {"signatures_voided", "cancelled"} => e.by # Runner

(* The bytes released are those whose hash the reviewer decided on, unless *)
(* a restart fell between rendering a file and storing its hash.           *)
ReleasedBytesAreSigned ==
    row.released /\ row.deliverable # None /\ disruptions = 0 => file = row.deliverable

(* A decision applies to what its page showed: the content always, the     *)
(* policy too once the page shows a version 2 digest.                      *)
DecidedAsSeen ==
    [][todo = <<>> =>
          \A w \in Range(todo') :
             "event" \in DOMAIN w /\ w.event.kind \in {"signed"} \cup Decisions =>
                LET page == seen[w.event.by]
                IN  \/ page \in {None, w.event.on}
                    \/ page.version = 1 /\ page.content = w.event.on.content]_vars
=============================================================================
