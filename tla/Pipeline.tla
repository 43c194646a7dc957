------------------------------ MODULE Pipeline -------------------------------
(***************************************************************************)
(* One run from its first stage to its release or its hold: the evidence   *)
(* it gathers, what is computed from it, what the model answers, what the  *)
(* checks say of the answer, whether a person must decide, and what a      *)
(* person's choice between disagreeing sources changes while it is held.   *)
(*                                                                         *)
(* A model is any answer whatever; a tool may fail; the person who         *)
(* submitted the run may stop it.  Streams, prompts and usage records are  *)
(* left out.                                                               *)
(***************************************************************************)
EXTENDS Integrity

CONSTANTS
    Profiles,    \* what the analyzer may say of a request
    Attachments, \* the files that may come with it: images, and documents
    Retrievals,  \* the passages a search may return, in their order
    Drawings,    \* the drawings a question may be answered from
    Source,      \* what each file, passage or drawing holds
    Measured,    \* per field, what a person may enter for it: a re-measurement, say
    Answers,     \* the sets of claims a model's answer may make
    Boundary,    \* policies/dlp.yaml: per boundary, what is done with a value
    RaisesTo,    \* the classification each kind of value imposes
    Markings     \* the kinds that are protective markings

Levels == 0..3   \* normal, confidential, sensitive, restricted

Detectors == DOMAIN RaisesTo

ASSUME PipelineAssumption ==
    /\ RaisesTo \in [Detectors -> Levels]
    /\ Markings \subseteq Detectors
    /\ Boundary \in [{"prompt", "answer", "deliverable"} ->
                       [Detectors -> {"allow", "redact", "require_approval", "block"}]]

Requests ==
    [kind : {"analysis", "calculation", "coding", "conversation"}, level : Levels,
     retrieval : BOOLEAN, code : BOOLEAN, deliverable : BOOLEAN, confidence : {"low", "medium", "high"},
     safety : BOOLEAN, stated : BOOLEAN, carries : SUBSET Detectors]

Papers == DOMAIN Source \ Drawings

Drafts == [carries : SUBSET Detectors, resolution : Nat]

(* Only a drawing holds the valves of an isolation plan, and drawings are  *)
(* kept apart from files and passages.                                     *)
ASSUME SourceAssumption ==
    /\ Profiles \subseteq Requests
    /\ \A a \in Attachments : a.images \in Seq(Papers) /\ a.documents \in Seq(Papers)
    /\ Retrievals \subseteq Seq(Papers)
    /\ Drawings \subseteq DOMAIN Source
    /\ Nothing \notin DOMAIN Source
    /\ \A s \in DOMAIN Source :
          /\ Source[s].level \in Levels
          /\ Source[s].carries \subseteq Detectors
          /\ Source[s].instructs \in BOOLEAN
          /\ Source[s].isolation \in BOOLEAN
          /\ Source[s].isolation => s \in Drawings
          /\ \A f \in Fields \ {"tag"} : Source[s].says[f] \in Nat \cup {Nothing}
          /\ \A f \in Source[s].facts : f.subject # Nothing
    /\ \A f \in Fields : Nothing \notin Measured[f] /\ (f # "tag" => Measured[f] \subseteq Nat)
    /\ Nothing \notin Drafts

VARIABLES
    stage,      \* what the run's coroutine does next
    status,     \* task.status
    profile,    \* task.profile
    files,      \* the attachments: what the vision model reads, what is parsed
    unread,     \* of the parsed ones, those still to be read
    evidence,   \* the ledger
    conflicts,  \* what the sources disagree about
    assessment, \* what the formulas decided
    topology,   \* whether an isolation plan was walked from a drawing
    answer,     \* what the run says, as released
    failed,     \* the checks of the verification report that failed
    verdicts,   \* the verdict on each claim of the answer
    dlpHeld,    \* an event of content scanning holds the run
    draft,      \* the deliverable's content
    file,       \* the file rendered from it
    approval,   \* the record of the approval gate
    stopping    \* a stop was requested

vars == <<stage, status, profile, files, unread, evidence, conflicts, assessment, topology, answer,
          failed, verdicts, dlpHeld, draft, file, approval, stopping>>

request == <<profile, files, unread>>
gathered == <<evidence, conflicts, assessment, topology>>
written == <<answer, failed, verdicts, dlpHeld, draft, file, approval>>

-----------------------------------------------------------------------------
(* Evidence.  An item keeps the source it came from; what the run makes    *)
(* itself (a computation, a person's decision) has none.                   *)

Item(kind, source, level) ==
    [kind |-> kind, source |-> source, level |-> level, flagged |-> FALSE, scanned |-> FALSE]

Carried(item) == IF item.source = Nothing THEN {} ELSE Source[item.source].carries

Highest(levels) == IF levels = {} THEN 0 ELSE CHOOSE m \in levels : \A n \in levels : n <= m

LevelOf(items, some) == Highest({items[i].level : i \in some})

Level(items) == LevelOf(items, DOMAIN items)

(* A marking that asserts no more than the level already known says        *)
(* nothing new.                                                            *)
Beyond(found, level) == {d \in found : d \in Markings => RaisesTo[d] > level}

Acting(found, boundary, action) == {d \in found : Boundary[boundary][d] = action}

(* Text addressed to the model is flagged, except in what the run made.    *)
Screened(item) ==
    [item EXCEPT !.flagged =
        item.kind \notin {"computation", "human"} /\ item.source # Nothing
            /\ Source[item.source].instructs]

(* Scanned once, where something is found; the item's level rises to it.   *)
Scanned(item) ==
    LET found == Beyond(Carried(item), item.level)
    IN  IF item.scanned \/ found = {} THEN item
        ELSE [item EXCEPT !.scanned = TRUE,
                          !.level = Highest({item.level} \cup {RaisesTo[d] : d \in found})]

(* What the model can have seen of the items' values.                      *)
Shown(items) ==
    {d \in UNION {Carried(items[i]) : i \in
                    {i \in DOMAIN items : Acting(Carried(items[i]), "prompt", "block") = {}}} :
        Boundary["prompt"][d] # "redact"}

(* A scan finds what policy shows the model only if a person then looks at *)
(* the run.  An item that also carries what is blocked is withheld.        *)
HeldAtPrompt(items) ==
    \E i \in DOMAIN items :
        LET found == Beyond(Carried(items[i]), items[i].level)
        IN  /\ ~ items[i].scanned
            /\ Acting(found, "prompt", "block") = {}
            /\ Acting(found, "prompt", "require_approval") # {}

-----------------------------------------------------------------------------
(* Disagreements, each under what it is about: an input of the formulas,   *)
(* or an attribute of some subject.                                        *)

Input(f) == <<Nothing, f>>

Conflict(kind, impact, values) ==
    [kind |-> kind, impact |-> impact, values |-> values, status |-> "unresolved", choice |-> Nothing]

OfKind(all, kind) == {k \in DOMAIN all : all[k].kind = kind}

Unresolved(all) == {k \in DOMAIN all : all[k].status = "unresolved" /\ all[k].impact = "high"}

(* The inspection records among the evidence: attachments and scans.       *)
Surveys(items) == {i \in DOMAIN items : items[i].kind \in {"uploaded_file", "vision_extraction"}}

Records(items) == [i \in Surveys(items) |-> Source[items[i].source].says]

(* Every input a person has chosen, keyed by its field.                    *)
Chosen(all) ==
    [f \in {k[2] : k \in {k \in OfKind(all, "input") : all[k].status = "resolved"}} |->
        all[Input(f)].choice]

(* What is already on the record keeps its entry, and its resolution.      *)
WithDisputes(all, items) ==
    LET chosen == Chosen(all)
        kept == Describing(Records(items), chosen)
        found == {Input(f) : f \in Disputes(Records(items), chosen)}
    IN  [k \in DOMAIN all \cup found |->
            IF k \in DOMAIN all THEN all[k] ELSE Conflict("input", Impact(k[2]), Stated(k[2], kept))]

Says(s, subject, attribute) ==
    {f.value : f \in {f \in Source[s].facts : f.subject = subject /\ f.attribute = attribute}}

(* Who bears witness to a subject's attribute: the sources in force that   *)
(* do not contradict themselves, never computed and human items.           *)
Witnesses(items, subject, attribute) ==
    LET bearing == {items[i].source : i \in
                      {i \in DOMAIN items :
                          /\ items[i].kind \in {"knowledge_base", "uploaded_file", "vision_extraction"}
                          /\ Source[items[i].source].active}}
    IN  {s \in bearing : ~ Several(Says(s, subject, attribute))}

FactValues(items, subject, attribute) ==
    UNION {Says(s, subject, attribute) : s \in Witnesses(items, subject, attribute)}

Topics == {<<f.subject, f.attribute>> : f \in UNION {Source[s].facts : s \in DOMAIN Source}}

(* A contradiction about an attribute that is already an input in dispute  *)
(* is reported once, there.                                                *)
WithContradictions(all, items) ==
    LET found == {t \in Topics : Several(FactValues(items, t[1], t[2])) /\ Input(t[2]) \notin DOMAIN all}
    IN  [k \in DOMAIN all \cup found |->
            IF k \in DOMAIN all THEN all[k] ELSE Conflict("fact", "high", FactValues(items, k[1], k[2]))]

-----------------------------------------------------------------------------
(* Verification.  A claim is a conclusion (a severity), one side of a      *)
(* disagreement about an input or a fact, the report of a disagreement, a  *)
(* disposition or any other assertion; a passage may carry it or not.      *)

Takes(claim, all, k) ==
    claim.says = all[k].kind /\ claim.field = k /\ claim.value \in all[k].values

Calculated(decided) == decided # Nothing /\ decided.status = "calculated"

(* In the order of authority.                                              *)
Verdict(claim, all, decided) ==
    LET inputs == OfKind(all, "input")
        open == inputs \cap Unresolved(all)
        facts == {k \in OfKind(all, "fact") : all[k].status = "unresolved"}
    IN  IF claim.says = "disagreement" /\ inputs # {} THEN "SUPPORTED"
        ELSE IF \/ claim.says = "severity" /\ open # {}
                \/ \E k \in open \cup facts : Takes(claim, all, k) THEN "CONFLICTED"
        ELSE IF claim.says = "disposition" THEN "REQUIRES_HUMAN_DECISION"
        ELSE IF claim.says = "severity" /\ Calculated(decided) /\ decided.severity # Nothing
             THEN IF claim.value = decided.severity THEN "CALCULATED" ELSE "UNSUPPORTED"
        ELSE IF claim.carried THEN "SUPPORTED" ELSE "UNSUPPORTED"

VerdictsOn(claims, all, decided) == {[claim |-> c, verdict |-> Verdict(c, all, decided)] : c \in claims}

(* Mutant: a claim that takes a side of a dispute does not block.          *)
BlockingUnsupported(v) == v.verdict = "UNSUPPORTED" /\ v.claim.says = "severity"

(* High-impact claims may not stand unsupported or on disputed evidence.   *)
Blocking(v) ==
    \/ v.verdict = "CONFLICTED"
    \/ v.verdict = "UNSUPPORTED" /\ v.claim.says = "severity"

(* What a passage repeats is traceable to it, in dispute or not.           *)
Traceable(v) == v.verdict \in {"CALCULATED", "SUPPORTED"} \/ v.claim.carried

MostlyTraceable(judged) ==
    Cardinality({v \in judged : Traceable(v)}) * 10 >= Cardinality(judged) * 6

(* The answer states no conclusion but the registry's own.                 *)
AgreesWithRegistry(claims, decided) ==
    LET stated == {c.value : c \in {c \in claims : c.says = "severity"}}
    IN  /\ Calculated(decided) /\ decided.severity # Nothing => stated \subseteq {decided.severity}
        /\ decided # Nothing /\ decided.status = "conflicted" => stated = {}

(* The checks that a change of the record changes.                         *)
Derived == {"source_verification", "hallucination_check", "claim_verification",
            "engineering_verification", "calculation_verification"}

FailedOn(claims, judged, decided, items) ==
    {c \in Derived :
        \/ c \in {"source_verification", "hallucination_check"} /\ ~ MostlyTraceable(judged)
        \/ c = "source_verification" /\ claims # {} /\ items = <<>>
        \/ c = "claim_verification" /\ \E v \in judged : Blocking(v)
        \/ c = "engineering_verification" /\ ~ AgreesWithRegistry(claims, decided)}

(* The registry is the authority for a record in dispute too.              *)
Engineered == assessment # Nothing /\ assessment.status \in {"calculated", "conflicted"}

RunsCode == profile.code /\ (~ Engineered \/ profile.kind = "coding")

(* Checks that rest on the wording of the answer or on the program: at     *)
(* most one of them fails in a run of the model.                           *)
Doubtful ==
    {"citation_verification"}
        \cup (IF Engineered /\ profile.kind # "coding" THEN {} ELSE {"calculation_verification"})
        \cup (IF RunsCode THEN {"code_verification"} ELSE {})

-----------------------------------------------------------------------------
(* The approval gate (approval-rules.yaml).                                *)

Reviewers == {"reviewer", "administrator"}
Authorities == {"head_of_inspection", "plant_manager"}

DecidersOf(rule) == IF rule \in {"high_severity_finding", "interim_operation_limit"}
                    THEN Authorities ELSE Reviewers

SeverityOf(decided) == IF Calculated(decided) THEN decided.severity ELSE Nothing

Breach(decided) == Calculated(decided) /\ decided.breach

Matching(level) ==
    {rule \in {"sensitive_classification", "released_deliverable", "verification_failure",
               "low_confidence_classification", "unresolved_conflict", "human_decision",
               "untrusted_instructions", "sensitive_content", "isolation_plan",
               "high_severity_finding", "interim_operation_limit", "safety_recommendation"} :
        \/ rule = "sensitive_classification" /\ level >= 2
        \/ rule = "released_deliverable" /\ profile.deliverable
        \/ rule = "verification_failure" /\ failed # {}
        \/ rule = "low_confidence_classification" /\ profile.deliverable /\ profile.confidence = "low"
        \/ rule = "unresolved_conflict" /\ Unresolved(conflicts) # {}
        \/ rule = "human_decision" /\ \E v \in verdicts : v.verdict = "REQUIRES_HUMAN_DECISION"
        \/ rule = "untrusted_instructions" /\ \E i \in DOMAIN evidence : evidence[i].flagged
        \/ rule = "sensitive_content" /\ dlpHeld
        \/ rule = "isolation_plan" /\ topology
        \/ rule = "high_severity_finding" /\ SeverityOf(assessment) = "high"
        \/ rule = "interim_operation_limit" /\ Breach(assessment)
        \/ rule = "safety_recommendation" /\ profile.safety}

(* A finding's signatories are its only deciders.                          *)
Deciders(rules) ==
    IF "high_severity_finding" \in rules THEN Authorities
    ELSE UNION {DecidersOf(r) : r \in rules}

-----------------------------------------------------------------------------
(* Stages.  A step guarded by ~ stopping passes a point where a stop is    *)
(* looked for; the others do not look.                                     *)

ItemsOf(kind, sources, levels) ==
    [i \in 1..Len(sources) |-> Item(kind, sources[i], levels[sources[i]])]

OwnLevel == [s \in DOMAIN Source |-> Source[s].level]

Requested == [s \in DOMAIN Source |-> profile.level]

(* One vision call per image or batch of pages; what is read is filed at   *)
(* the level of the request.                                               *)
ReadImages ==
    /\ stage = "images"
    /\ files.images # <<>> => ~ stopping
    /\ evidence' = evidence \o ItemsOf("vision_extraction", files.images, Requested)
    /\ status' = IF files.images = <<>> THEN status ELSE "executing"
    /\ stage' = "plan"
    /\ UNCHANGED <<request, conflicts, assessment, topology, written, stopping>>

Attached == ToSet(files.images) \cup ToSet(files.documents)

NeedsPlan == profile.code \/ profile.deliverable \/ Attached # {}

(* A plan asked of the model may add code the classifier did not require.  *)
Plan ==
    /\ stage = "plan" /\ ~ stopping
    /\ \E code \in BOOLEAN :
        /\ code => /\ NeedsPlan
                   /\ \/ profile.code
                      \/ profile.confidence # "high"
                      \/ \E s \in Attached : Source[s].tabular
        /\ profile' = [profile EXCEPT !.code = @ \/ code]
    /\ status' = "planned"
    /\ stage' = "files"
    /\ UNCHANGED <<files, unread, gathered, written, stopping>>

(* A file that cannot be read is passed over, unless it is a PDF (Fail).   *)
ReadFile ==
    /\ stage = "files" /\ unread # <<>>
    /\ \/ evidence' = evidence \o ItemsOf("uploaded_file", <<Head(unread)>>, OwnLevel)
       \/ Source[Head(unread)].tabular /\ evidence' = evidence
    /\ unread' = Tail(unread)
    /\ UNCHANGED <<stage, status, profile, files, conflicts, assessment, topology, written, stopping>>

FilesRead ==
    /\ stage = "files" /\ unread = <<>>
    /\ stage' = "retrieve"
    /\ UNCHANGED <<status, request, gathered, written, stopping>>

Retrieve ==
    /\ stage = "retrieve"
    /\ profile.retrieval => ~ stopping
    /\ \E found \in IF profile.retrieval THEN Retrievals ELSE {<<>>} :
        evidence' = evidence \o ItemsOf("knowledge_base", found, OwnLevel)
    /\ status' = IF profile.retrieval THEN "retrieving" ELSE status
    /\ stage' = "engineer"
    /\ UNCHANGED <<request, conflicts, assessment, topology, written, stopping>>

(* The computation is evidence, as sensitive as the records it was read    *)
(* from; nothing was computed from a record in dispute.                    *)
WithComputation(items, decided) ==
    IF decided.status = "conflicted" THEN items
    ELSE Append(items, Item("computation", Nothing, LevelOf(items, Surveys(items))))

Recorded == IF Attached = {} /\ profile.kind # "calculation" THEN Nothing
            ELSE Assess(Records(evidence), <<>>)

EngineerRecord ==
    /\ stage = "engineer" /\ ~ stopping
    /\ Recorded # Nothing
    /\ assessment' = Recorded
    /\ conflicts' = WithDisputes(conflicts, evidence)
    /\ evidence' = WithComputation(evidence, Recorded)
    /\ status' = "executing"
    /\ stage' = "maintain"
    /\ UNCHANGED <<request, topology, written, stopping>>

(* A calculation whose values the question itself states: the request is   *)
(* evidence, and a remaining life has no severity.                         *)
EngineerStated ==
    /\ stage = "engineer" /\ ~ stopping
    /\ Recorded = Nothing /\ profile.kind = "calculation" /\ profile.stated
    /\ assessment' = Unassessed("calculated")
    /\ evidence' = evidence \o <<Item("request", Nothing, profile.level),
                                 Item("computation", Nothing, profile.level)>>
    /\ status' = "executing"
    /\ stage' = "maintain"
    /\ UNCHANGED <<request, conflicts, topology, written, stopping>>

NothingToEngineer ==
    /\ stage = "engineer"
    /\ Recorded = Nothing
    /\ profile.kind = "calculation" => ~ stopping
    /\ status' = IF profile.kind = "calculation" THEN "executing" ELSE status
    /\ stage' = "maintain"
    /\ UNCHANGED <<request, gathered, written, stopping>>

(* The work orders of what was assessed, where the connector answers.      *)
Maintain ==
    /\ stage = "maintain"
    /\ \E answered \in BOOLEAN :
        /\ answered => assessment # Nothing
        /\ evidence' = IF answered THEN Append(evidence, Item("work_order", Nothing, 0)) ELSE evidence
    /\ stage' = "topology"
    /\ UNCHANGED <<status, request, conflicts, assessment, topology, written, stopping>>

(* A question about the piping is answered from a drawing's graph.         *)
WalkDrawing ==
    /\ stage = "topology"
    /\ \E d \in Drawings :
        /\ ~ stopping
        /\ evidence' = Append(evidence, Item("topology", d, OwnLevel[d]))
        /\ topology' = Source[d].isolation
    /\ status' = "executing"
    /\ stage' = "facts"
    /\ UNCHANGED <<request, conflicts, assessment, written, stopping>>

NoDrawing ==
    /\ stage = "topology"
    /\ stage' = "facts"
    /\ UNCHANGED <<status, request, gathered, written, stopping>>

CompareFacts ==
    /\ stage = "facts"
    /\ conflicts' = WithContradictions(conflicts, evidence)
    /\ conflicts' # conflicts => ~ stopping
    /\ status' = IF conflicts' # conflicts THEN "executing" ELSE status
    /\ stage' = "screen"
    /\ UNCHANGED <<request, evidence, assessment, topology, written, stopping>>

Screen ==
    /\ stage = "screen"
    /\ evidence' = [i \in DOMAIN evidence |-> Scanned(Screened(evidence[i]))]
    /\ dlpHeld' = HeldAtPrompt(evidence)
    /\ stage' = "code"
    /\ UNCHANGED <<status, request, conflicts, assessment, topology, stopping>>
    /\ UNCHANGED <<answer, failed, verdicts, draft, file, approval>>

(* A program's output may quote what it read; it is scanned, not screened. *)
Code ==
    /\ stage = "code"
    /\ profile.code => ~ stopping
    /\ \E output \in {<<>>} \cup
            {<<Item("computation", s, profile.level)>> :
                s \in {Nothing} \cup {evidence[i].source : i \in DOMAIN evidence}} :
        /\ output # <<>> => RunsCode
        /\ evidence' = IF RunsCode THEN [i \in DOMAIN (evidence \o output) |-> Scanned((evidence \o output)[i])]
                       ELSE evidence
        /\ dlpHeld' = (dlpHeld \/ (RunsCode /\ HeldAtPrompt(evidence \o output)))
    /\ status' = IF profile.code THEN "executing" ELSE status
    /\ stage' = "reason"
    /\ UNCHANGED <<request, conflicts, assessment, topology, stopping>>
    /\ UNCHANGED <<answer, failed, verdicts, draft, file, approval>>

-----------------------------------------------------------------------------
(* What the run says. *)

Holding(found, boundary) ==
    Acting(found, boundary, "block") \cup Acting(found, boundary, "require_approval") # {}

(* The answer as it may leave: withheld, or with its values redacted.      *)
Released(claims, carried, level) ==
    LET found == Beyond(carried, level)
    IN  IF Acting(found, "answer", "block") # {} THEN [claims |-> {}, carries |-> {}]
        ELSE [claims |-> claims, carries |-> carried \ Acting(found, "answer", "redact")]

(* What a model may repeat: what it was shown, and the request itself.     *)
Repeatable == Shown(evidence) \cup profile.carries

Reason ==
    /\ stage = "reason" /\ ~ stopping
    /\ \E claims \in Answers, carried \in SUBSET Repeatable :
        /\ answer' = Released(claims, carried, profile.level)
        /\ dlpHeld' = (dlpHeld \/ Holding(Beyond(carried, profile.level), "answer"))
    /\ status' = "executing"
    /\ stage' = "verify"
    /\ UNCHANGED <<request, gathered, failed, verdicts, draft, file, approval, stopping>>

Verify ==
    /\ stage = "verify" /\ ~ stopping
    /\ verdicts' = VerdictsOn(answer.claims, conflicts, assessment)
    /\ \E doubts \in {{}} \cup {{c} : c \in Doubtful} :
        failed' = FailedOn(answer.claims, verdicts', assessment, evidence) \cup doubts
    /\ status' = "verifying"
    /\ stage' = "draft"
    /\ UNCHANGED <<request, gathered, answer, dlpHeld, draft, file, approval, stopping>>

(* A document would carry what was drafted and what its excerpts quote.    *)
InDocument(carried) == carried \cup UNION {Carried(evidence[i]) : i \in DOMAIN evidence}

Draft ==
    /\ stage = "draft" /\ profile.deliverable /\ ~ stopping
    /\ \E carried \in SUBSET Repeatable, cites \in BOOLEAN :
        LET found == Beyond(InDocument(carried), profile.level)
            blocked == Acting(found, "deliverable", "block") # {}
        IN  /\ draft' = IF blocked THEN Nothing ELSE [carries |-> carried, resolution |-> 0]
            /\ dlpHeld' = (dlpHeld \/ Holding(found, "deliverable"))
            /\ failed' = IF blocked \/ cites THEN failed ELSE failed \cup {"document_verification"}
    /\ status' = "executing"
    /\ stage' = "gate"
    /\ UNCHANGED <<request, gathered, answer, verdicts, file, approval, stopping>>

NoDraft ==
    /\ stage = "draft" /\ ~ profile.deliverable
    /\ stage' = "gate"
    /\ UNCHANGED <<status, request, gathered, written, stopping>>

-----------------------------------------------------------------------------
(* The gate. *)

(* The levels of what leaves: the values still in the answer and those the *)
(* document boundary lets through.                                         *)
ReleasedLevels ==
    LET passing == {d \in InDocument(draft.carries) :
                       Boundary["deliverable"][d] \in {"allow", "require_approval"}}
    IN  {RaisesTo[d] : d \in answer.carries \cup (IF draft = Nothing THEN {} ELSE passing)}

(* Mutant: the run keeps the level of the request.                         *)
RequestedLevel == Highest({profile.level} \cup ReleasedLevels)

(* An answer is at least as sensitive as the most sensitive thing it was   *)
(* built from, and as what is still in it.                                 *)
RaisedLevel == Highest({profile.level, Level(evidence)} \cup ReleasedLevels)

Record(rules) ==
    [reasons |-> rules,
     approvers |-> Deciders(rules),
     signatures |-> "high_severity_finding" \in rules]

Gate ==
    /\ stage = "gate"
    /\ profile' = [profile EXCEPT !.level = RaisedLevel]
    /\ approval' = Record(Matching(RaisedLevel))
    /\ stage' = "settle"
    /\ UNCHANGED <<status, files, unread, gathered, answer, failed, verdicts, dlpHeld, draft, file, stopping>>

(* Mutant: the file is rendered from the draft as it was first kept.       *)
RenderedAsDrafted(content, items, decided) ==
    LET found == content.carries \cup UNION {Carried(items[i]) : i \in DOMAIN items}
    IN  IF Acting(found, "deliverable", "block") # {} THEN Nothing
        ELSE [carries |-> found \ Acting(found, "deliverable", "redact"),
              resolution |-> 0,
              decided |-> decided]

(* Rendering applies the document boundary again: a value it would not     *)
(* release stops the render, the others are redacted.                      *)
Rendered(content, items, decided) ==
    LET found == content.carries \cup UNION {Carried(items[i]) : i \in DOMAIN items}
    IN  IF Acting(found, "deliverable", "block") # {} THEN Nothing
        ELSE [carries |-> found \ Acting(found, "deliverable", "redact"),
              resolution |-> content.resolution,
              decided |-> decided]

Settle ==
    /\ stage = "settle" /\ ~ stopping
    /\ file' \in IF draft = Nothing THEN {Nothing} ELSE {Nothing, Rendered(draft, evidence, assessment)}
    /\ status' = IF approval.reasons # {} THEN "awaiting_approval" ELSE "delivered"
    /\ stage' = "done"
    /\ UNCHANGED <<request, gathered, answer, failed, verdicts, dlpHeld, draft, approval, stopping>>

(* A message that asks for nothing is answered in one call: nothing is     *)
(* gathered or checked, and only content scanning can hold it.             *)
Converse ==
    /\ stage = "converse" /\ ~ stopping
    /\ \E carried \in SUBSET profile.carries :
        LET held == Holding(Beyond(carried, profile.level), "answer")
        IN  /\ answer' = Released({}, carried, profile.level)
            /\ dlpHeld' = held
            /\ approval' = Record(IF held THEN Matching(profile.level) \cup {"sensitive_content"} ELSE {})
    /\ failed' = {}
    /\ status' = IF approval'.reasons # {} THEN "awaiting_approval" ELSE "delivered"
    /\ stage' = "done"
    /\ UNCHANGED <<request, gathered, verdicts, draft, file, stopping>>

-----------------------------------------------------------------------------
(* Stopping and failing. *)

RequestStop ==
    /\ stage # "done" /\ ~ stopping
    /\ stopping' = TRUE
    /\ UNCHANGED <<stage, status, request, gathered, written>>

LooksForStop ==
    \/ stage \in {"plan", "reason", "verify", "settle", "converse"}
    \/ stage = "images" /\ files.images # <<>>
    \/ stage = "retrieve" /\ profile.retrieval
    \/ stage = "engineer" /\ (Recorded # Nothing \/ profile.kind = "calculation")
    \/ stage = "topology" /\ Drawings # {}
    \/ stage = "facts" /\ WithContradictions(conflicts, evidence) # conflicts
    \/ stage = "code" /\ profile.code
    \/ stage = "draft" /\ profile.deliverable

HonourStop ==
    /\ stopping /\ LooksForStop
    /\ status' = "cancelled"
    /\ stage' = "done"
    /\ UNCHANGED <<request, gathered, written, stopping>>

(* No eligible model blocks the run, inference that fails it, and so does  *)
(* a PDF that cannot be read; what was gathered stays on the record.       *)
Fail ==
    /\ \/ stage \in {"images", "reason", "draft", "converse"} /\ status' \in {"blocked", "failed"}
       \/ stage = "files" /\ unread # <<>> /\ ~ Source[Head(unread)].tabular /\ status' = "failed"
    /\ stage = "images" => files.images # <<>>
    /\ stage = "draft" => profile.deliverable
    /\ stage' = "done"
    /\ UNCHANGED <<request, gathered, written, stopping>>

-----------------------------------------------------------------------------
(* A person's choice between the sources of a held run. *)

(* A side of the disagreement, or for an input a value of the same kind.   *)
Offered(k) == conflicts[k].values \cup IF conflicts[k].kind = "input" THEN Measured[k[2]] ELSE {}

(* The items the disagreeing values were read from.                        *)
Involved(k) ==
    {i \in DOMAIN evidence :
        /\ evidence[i].kind \in {"knowledge_base", "uploaded_file", "vision_extraction"}
        /\ IF conflicts[k].kind = "input"
           THEN Source[evidence[i].source].says[k[2]] \in conflicts[k].values
           ELSE evidence[i].source \in Witnesses(evidence, k[1], k[2])}

(* The resolution is appended to the answer, with the decision recomputed. *)
Addendum(decided) ==
    IF SeverityOf(decided) = Nothing THEN {}
    ELSE {[says |-> "severity", value |-> SeverityOf(decided), field |-> Nothing, carried |-> TRUE]}

Answered(all, failing) ==
    (IF Unresolved(all) = {} THEN {"unresolved_conflict"} ELSE {})
        \cup (IF failing = {} THEN {"verification_failure"} ELSE {})

(* The choice is evidence; the formulas run again on what was chosen; the  *)
(* answer, its verification, the reasons of the hold and the held file     *)
(* follow, and a finding that now needs signatures gets their roles.       *)
Resolve(k, value) ==
    /\ status = "awaiting_approval"
    /\ conflicts[k].status = "unresolved"
    /\ \E settled \in {[conflicts EXCEPT ![k].status = "resolved", ![k].choice = value]},
          decided \in {Append(evidence, Item("human", Nothing, LevelOf(evidence, Involved(k))))} :
       \E result \in {Assess(Records(decided), Chosen(settled))} :
         /\ conflicts' = IF result = Nothing THEN settled ELSE WithDisputes(settled, decided)
         /\ assessment' = IF result = Nothing THEN assessment ELSE result
         /\ evidence' = IF result = Nothing THEN decided ELSE WithComputation(decided, result)
         /\ answer' = [answer EXCEPT !.claims =
                          @ \cup IF result = Nothing THEN {} ELSE Addendum(result)]
         /\ verdicts' = VerdictsOn(answer'.claims, conflicts', assessment')
         /\ failed' = (failed \ Derived)
                          \cup FailedOn(answer'.claims, verdicts', assessment', evidence')
         /\ approval' = [reasons |-> approval.reasons \ Answered(conflicts', failed'),
                         approvers |-> IF SeverityOf(assessment') = "high" THEN Authorities
                                       ELSE approval.approvers,
                         signatures |-> IF SeverityOf(assessment') = Nothing THEN approval.signatures
                                        ELSE SeverityOf(assessment') = "high"]
         /\ IF draft = Nothing THEN UNCHANGED <<draft, file>>
            ELSE /\ draft' = [draft EXCEPT !.resolution = Len(decided)]
                 /\ file' \in {Nothing, Rendered(draft', evidence', assessment')}
    /\ UNCHANGED <<stage, status, request, topology, dlpHeld, stopping>>

ResolveConflict == \E k \in DOMAIN conflicts : \E value \in Offered(k) : Resolve(k, value)

-----------------------------------------------------------------------------
Init ==
    /\ files \in Attachments
    /\ \E asked \in Profiles :
          profile = [asked EXCEPT !.level = Highest({@} \cup {Source[s].level : s \in Attached})]
    /\ profile.kind = "conversation" => Attached = {}
    /\ unread = files.documents
    /\ stage = IF profile.kind = "conversation" THEN "converse" ELSE "images"
    /\ status = "classified"
    /\ evidence = <<>> /\ conflicts = <<>> /\ assessment = Nothing /\ topology = FALSE
    /\ answer = [claims |-> {}, carries |-> {}]
    /\ failed = {} /\ verdicts = {} /\ dlpHeld = FALSE
    /\ draft = Nothing /\ file = Nothing
    /\ approval = [reasons |-> {}, approvers |-> {}, signatures |-> FALSE]
    /\ stopping = FALSE

Next ==
    \/ ReadImages \/ Plan \/ ReadFile \/ FilesRead \/ Retrieve
    \/ EngineerRecord \/ EngineerStated \/ NothingToEngineer
    \/ Maintain \/ WalkDrawing \/ NoDrawing \/ CompareFacts \/ Screen \/ Code
    \/ Reason \/ Verify \/ Draft \/ NoDraft \/ Gate \/ Settle \/ Converse
    \/ RequestStop \/ HonourStop \/ Fail \/ ResolveConflict

Spec == Init /\ [][Next]_vars

-----------------------------------------------------------------------------
(* Properties.  They read what the sources hold, not what the run noticed  *)
(* of it.                                                                  *)

Used == {evidence[i].source : i \in DOMAIN evidence} \ {Nothing}

Read == {evidence[i].source : i \in {i \in DOMAIN evidence :
            evidence[i].kind \in {"uploaded_file", "vision_extraction"}}}

(* Two sources state one attribute of one subject differently, neither     *)
(* contradicts itself, and both are in force.  What no formula reads is    *)
(* told where the records differ about it, and holds nothing.              *)
Contradict(s, t) ==
    /\ Source[s].active /\ Source[t].active
    /\ \E f \in Source[s].facts, g \in Source[t].facts :
          /\ f.subject = g.subject /\ f.attribute = g.attribute /\ f.value # g.value
          /\ f.attribute \notin RecordedOnly
          /\ \A h \in Source[s].facts : <<h.subject, h.attribute>> = <<f.subject, f.attribute>> => h = f
          /\ \A h \in Source[t].facts : <<h.subject, h.attribute>> = <<f.subject, f.attribute>> => h = g

(* What was read is the record of an inspection.                           *)
Surveyed ==
    /\ \E s \in Read : \E l \in Readings : Source[s].says[l] # Nothing
    /\ \E s \in Read : \E f \in {"nominal", "t_min"} : Source[s].says[f] # Nothing

(* What policy shows the model only for a person to look at the run then.  *)
AskedAtPrompt(s) ==
    /\ Acting(Source[s].carries, "prompt", "block") = {}
    /\ Acting(Source[s].carries \ Markings, "prompt", "require_approval") # {}

(* What needs no person.                                                   *)
Clean ==
    /\ \A s \in Used :
          /\ ~ Source[s].instructs
          /\ Source[s].level < 2 /\ \A d \in Source[s].carries : RaisesTo[d] < 2
          /\ ~ AskedAtPrompt(s)
    /\ Surveyed => \A s, t \in Read : \A f \in Fields \ RecordedOnly :
          Nothing \in {Source[s].says[f], Source[t].says[f]} \/ Source[s].says[f] = Source[t].says[f]
    /\ \A s, t \in Used \ Drawings : ~ Contradict(s, t)
    /\ \A d \in answer.carries :
          \/ RaisesTo[d] < 2
          \/ profile.kind = "conversation" /\ (d \in Markings \/ Boundary["answer"][d] = "allow")
    /\ \A c \in answer.claims : c.says # "disposition"
    /\ \A s \in Used : ~ Source[s].isolation
    /\ SeverityOf(assessment) # "high" /\ ~ Breach(assessment)
    /\ failed = {}

(* A run delivered without a person rests on no source that is sensitive,  *)
(* carries such a value or one policy lets the model see only if a person  *)
(* looks, or addresses the model; on no records or passages that disagree; *)
(* it recommends nothing grave, plans no isolation and leaves no document; *)
(* and no check of it failed (orchestrator.run).                           *)
UnheldIsClean == status = "delivered" => Clean /\ file = Nothing

(* What each field is worth to the formulas: the value a person chose, or  *)
(* the only one stated by the records that describe the chosen vessel.  A  *)
(* location none of these has has no reading, whatever was chosen for it.  *)
Worth(f) ==
    LET chosen == Chosen(conflicts)
        about == {s \in Read : "tag" \in DOMAIN chosen => Source[s].says["tag"] \in {Nothing, chosen["tag"]}}
        stated == {Source[s].says[f] : s \in about} \ {Nothing}
    IN  IF f \in DOMAIN chosen /\ (f \in Readings => stated # {}) THEN {chosen[f]} ELSE stated

(* Figures are calculated from a record only where nothing they are read   *)
(* from is in dispute: one value per field.  And the decision is the one   *)
(* those values give: high where a wall is below its minimum, interim      *)
(* operation refused above 90% of the allowed pressure (assess_vessel,     *)
(* blocking_conflicts, resolve_conflict).                                  *)
FiguresAreUndisputed ==
    Calculated(assessment) /\ assessment.severity # Nothing =>
        /\ \A f \in Fields \ RecordedOnly : Cardinality(Worth(f)) <= 1
        /\ LET thin == \E l \in Readings : \E w \in Worth(l), m \in Worth("t_min") : w < m
           IN  /\ assessment.severity = "high" <=> thin
               /\ assessment.breach => ~ thin /\ \E w \in Worth("operating_pressure") : 10 * w > 9 * Mawp

(* The item of the last choice a person made; 0 where none was made.       *)
LastChoice == Highest({i \in DOMAIN evidence : evidence[i].kind = "human"})

(* The file a reviewer of a held run would release says what the run says: *)
(* it carries the last resolution and the decision as it now is, and no    *)
(* value the policy keeps out of documents (_rerender_after_resolution).   *)
HeldFileIsCurrent ==
    file # Nothing =>
        /\ file.decided = assessment
        /\ file.resolution = LastChoice
        /\ \A d \in file.carries : Boundary["deliverable"][d] \in {"allow", "require_approval"}

(* An answer whose verification is valid draws no conclusion while an      *)
(* input is in dispute, none but the registry's once it is calculated, and *)
(* takes no side that is still open (claim_verdicts, _reverify).           *)
ValidAnswerStandsUp ==
    status \in {"awaiting_approval", "delivered"} /\ failed = {} =>
        \A c \in answer.claims :
            /\ c.says = "severity" => /\ OfKind(conflicts, "input") \cap Unresolved(conflicts) = {}
                                     /\ SeverityOf(assessment) \in {Nothing, c.value}
            /\ \A k \in Unresolved(conflicts) : ~ Takes(c, conflicts, k)

(* Once every dispute is settled, a run that exceeds its operating limit   *)
(* is held for the authorities approval-rules.yaml names for it, as one    *)
(* that was never in dispute is.                                           *)
ResolvedGate ==
    status = "awaiting_approval" /\ Unresolved(conflicts) = {} /\ Breach(assessment) =>
        Authorities \subseteq approval.approvers

=============================================================================
