----------------------------- MODULE Certificates -----------------------------
(***************************************************************************)
(* The certificate of one run: who issues it, from which reading of the    *)
(* run and the log, and what ends up in its file (_certify and certificate *)
(* in backend/api/task_service.py, backend/proof/certificate.py and        *)
(* provenance.py, the routes in backend/api/routes/tasks.py).              *)
(*                                                                         *)
(* The worker that delivers a run and the person who decides a held one    *)
(* certify it on the event loop.  Whoever asks for a certificate that is   *)
(* not there yet issues it too, in a thread, from the row as they read it. *)
(* All of them write one file, in place.  Module AuditLog has the log and  *)
(* its seals; here an append is one step and the hash of a record is its   *)
(* place.                                                                  *)
(***************************************************************************)
EXTENDS Naturals, Sequences, FiniteSets, Merkle

CONSTANTS
  Askers,       \* threads that serve the certificate route
  Loop,         \* the event loop: workers and deciders
  NoFile, Empty, Garbled,
  MaxOthers, MaxEdits, MaxAsked, MaxFaults   \* bounds

Settled == {"delivered", "rejected", "revision_requested"}
Certifiable == Settled \cup {"awaiting_approval"}

\* A run that is classified, planned or retrieved for is executing here too.
Statuses == Certifiable \cup {"queued", "executing", "failed", "cancelled"}

\* What a certificate says: its body, its seal, and the records it proves to be under it.
Bodies ==
  [status : Statuses, content : Nat, config : Nat \cup {NoFile}, egress : BOOLEAN,
   root : Nat, leaves : Nat, of : SUBSET Nat]

ASSUME CertificatesAssumption ==
  /\ Loop \notin Askers
  /\ \A other \in {NoFile, Empty, Garbled} : other \notin Bodies
  /\ {MaxOthers, MaxEdits, MaxAsked, MaxFaults} \subseteq Nat

VARIABLES
  run,       \* the row: [status, content]
  governing, \* the configuration and policy files on disk, by version
  log,       \* the audit log: what each record is of, and says
  whole,   \* no write of it was cut short
  stored,    \* storage/proofs/<run>.json
  issuing,   \* Issuers -> what each is doing about it
  asked, faults,   \* bounded
  ranUnder,  \* history: what the run started under, or NoFile when that was not recorded
  excused    \* history: the file is by someone who read the row or sealed the log too early, or is damaged

certificateVars == <<run, governing, log, whole, stored, issuing, asked, faults, ranUnder, excused>>

Issuers == Askers \cup {Loop}

NotIssuing == [at |-> "idle", run |-> NoFile, root |-> 0, certificate |-> NoFile]

Says(of, what, value) == log' = Append(log, [of |-> of, what |-> what, value |-> value])

Goes(a, at) == issuing' = [issuing EXCEPT ![a].at = at]

\* A coroutine that is certifying gives way to no other.
LoopIsFree == issuing[Loop].at = "idle"

-----------------------------------------------------------------------------
(* The run. *)

RunVars == <<run, ranUnder>>
FileVars == <<stored, excused>>
Bounds == <<asked, faults>>

\* The worker records what the run starts under, or that it could not.
Begin ==
  /\ run.status = "queued" /\ LoopIsFree
  /\ run' = [run EXCEPT !.status = "executing"]
  /\ \/ Says("run", "config_snapshot", governing) /\ ranUnder' = governing
     \/ Says("run", "config_snapshot_failed", 0) /\ UNCHANGED ranUnder
  /\ UNCHANGED <<governing, whole, FileVars, issuing, Bounds>>

\* The row is stored; its record, and the certificate, are still to come.
Store(status, owed) ==
  /\ LoopIsFree
  /\ run' = [run EXCEPT !.status = status]
  /\ issuing' = [issuing EXCEPT ![Loop] = [NotIssuing EXCEPT !.at = owed, !.run = run']]
  /\ UNCHANGED <<governing, log, whole, FileVars, Bounds, ranUnder>>

\* Of the ends that are never certified, failed stands for all.
Finish ==
  /\ run.status = "executing"
  /\ \E s \in {"delivered", "awaiting_approval", "failed"} : Store(s, "finished")

Decide == run.status = "awaiting_approval" /\ \E s \in Settled : Store(s, "decided")

\* Mutant: a run that has a certificate is not certified again
CertifyOnce == IF run.status \in Settled THEN "looking" ELSE "idle"
Certify == IF run.status \in Settled THEN "sealing" ELSE "idle"

RecordOutcome ==
  /\ issuing[Loop].at \in {"finished", "decided"}
  /\ Says("run", issuing[Loop].at, 0)
  /\ issuing' = [issuing EXCEPT ![Loop] =
       IF Certify = "idle" THEN NotIssuing ELSE [@ EXCEPT !.at = Certify]]
  /\ UNCHANGED <<RunVars, governing, whole, FileVars, Bounds>>

\* A run that nobody works on is stopped, a returned one too; or what was disputed in it is resolved.
Stopped ==
  /\ run.status \in {"queued", "awaiting_approval", "revision_requested"} /\ LoopIsFree
  /\ run' = [run EXCEPT !.status = "cancelled"]
  /\ Says("run", "cancelled", 0)
  /\ UNCHANGED <<governing, whole, FileVars, issuing, Bounds, ranUnder>>

ResolveHeld ==
  /\ run.status = "awaiting_approval" /\ LoopIsFree
  /\ run.content = 0
  /\ run' = [run EXCEPT !.content = 1]
  /\ Says("run", "conflict_resolved", 0)
  /\ UNCHANGED <<governing, whole, FileVars, issuing, Bounds, ranUnder>>

-----------------------------------------------------------------------------
(* Issuing. *)

\* The route: whether the row may be certified, then whether there is a file.
Ask(t) ==
  /\ issuing[t].at = "idle" /\ asked < MaxAsked
  /\ run.status \in Certifiable
  /\ issuing' = [issuing EXCEPT ![t] = [NotIssuing EXCEPT !.at = "looking", !.run = run]]
  /\ asked' = asked + 1
  /\ UNCHANGED <<RunVars, governing, log, whole, FileVars, faults>>

\* What is there is returned, or cannot be read and is an error.
Look(a) ==
  /\ issuing[a].at = "looking"
  /\ issuing' = [issuing EXCEPT ![a] = IF stored = NoFile THEN [@ EXCEPT !.at = "sealing"] ELSE NotIssuing]
  /\ UNCHANGED <<RunVars, governing, log, whole, FileVars, Bounds>>

\* AuditSeal.seal: the root over the log as it is, if its chain holds, then a record of it.
SealLog(a) ==
  /\ issuing[a].at = "sealing"
  /\ issuing' = [issuing EXCEPT ![a].root = Len(log), ![a].at = "sealed"]
  /\ UNCHANGED <<RunVars, governing, log, whole, FileVars, Bounds>>

RecordSeal(a) ==
  /\ issuing[a].at = "sealed"
  /\ Says("log", "sealed", 0)
  /\ Goes(a, "reading")
  /\ UNCHANGED <<RunVars, governing, whole, FileVars, Bounds>>

\* from_audit: of several snapshots the first; what was not recorded is said to be so.
Config(records) ==
  LET snapshots == {i \in 1..Len(records) : records[i].of = "run" /\ records[i].what = "config_snapshot"}
  IN  IF snapshots = {} THEN NoFile
      ELSE records[CHOOSE i \in snapshots : \A j \in snapshots : i <= j].value

\* The egress reading is in the record of how the run finished.
Finished(records) == \E i \in 1..Len(records) : records[i].what = "finished"

\* _body and issue_certificate: of the row as it was read, and the records under the root.
Composed(row, root, records) ==
  [status |-> row.status, content |-> row.content, config |-> Config(records), egress |-> Finished(records),
   root |-> root, leaves |-> Len(records), of |-> {i \in 1..Len(records) : records[i].of = "run"}]

ReadLog(a) ==
  /\ issuing[a].at = "reading"
  /\ LET records == SubSeq(log, 1, issuing[a].root)
     IN  issuing' = [issuing EXCEPT ![a].at = "opening",
           ![a].certificate = Composed(issuing[a].run, issuing[a].root, records)]
  /\ UNCHANGED <<RunVars, governing, log, whole, FileVars, Bounds>>

\* write_certificate: opening the file empties it.
OpenFile(a) ==
  /\ issuing[a].at = "opening"
  /\ stored' = Empty
  /\ Goes(a, "writing")
  /\ UNCHANGED <<RunVars, governing, log, whole, Bounds, excused>>

\* Two who opened the file before either wrote leave one's text, or one's text on the other's.
WriteFile(a) ==
  /\ issuing[a].at = "writing"
  /\ stored' \in {issuing[a].certificate} \cup (IF stored = Empty THEN {} ELSE {Garbled})
  /\ excused' = \/ stored' = Garbled
                \/ a \in Askers /\ (issuing[a].run # run \/ issuing[a].certificate.egress # Finished(log))
  /\ Goes(a, "issued")
  /\ UNCHANGED <<RunVars, governing, log, whole, Bounds>>

RecordIssued(a) ==
  /\ issuing[a].at = "issued"
  /\ Says("run", "certificate_issued", 0)
  /\ issuing' = [issuing EXCEPT ![a] = NotIssuing]
  /\ UNCHANGED <<RunVars, governing, whole, FileVars, Bounds>>

\* A broken chain is not sealed, and a file may fail to be opened or written: audited, never fatal.
Fail(a) ==
  /\ \/ issuing[a].at = "sealing" /\ ~whole /\ UNCHANGED faults
     \/ issuing[a].at \in {"opening", "writing"} /\ faults < MaxFaults /\ faults' = faults + 1
  /\ Says("run", "certificate_failed", 0)
  /\ issuing' = [issuing EXCEPT ![a] = NotIssuing]
  /\ excused' = (excused \/ a = Loop \/ issuing[a].at = "writing")
  /\ UNCHANGED <<RunVars, governing, whole, stored, asked>>

-----------------------------------------------------------------------------
(* What else happens. *)

\* The process ends; the start closes out what was being worked.
Restart ==
  /\ faults < MaxFaults
  /\ faults' = faults + 1
  /\ IF run.status \in {"queued", "executing"}
     THEN run' = [run EXCEPT !.status = "failed"] /\ Says("run", "recovered", 0)
     ELSE UNCHANGED <<run, log>>
  /\ issuing' = [a \in Issuers |-> NotIssuing]
  /\ excused' = (excused \/ issuing[Loop].at # "idle" \/ \E a \in Issuers : issuing[a].at = "writing")
  /\ UNCHANGED <<governing, whole, stored, asked, ranUnder>>

\* A write of the log is cut short: sealing may be refused from then on (module AuditLog).
BreakChain ==
  /\ whole /\ faults < MaxFaults
  /\ whole' = FALSE
  /\ faults' = faults + 1
  /\ UNCHANGED <<RunVars, governing, log, FileVars, issuing, asked>>

\* Bound: only while a log is sealed that is still to be read, where it tells.
OthersWrite ==
  /\ \E a \in Issuers : issuing[a].at \in {"sealed", "reading"}
  /\ Cardinality({i \in 1..Len(log) : log[i].what = "other"}) < MaxOthers
  /\ Says("log", "other", 0)
  /\ UNCHANGED <<RunVars, governing, whole, FileVars, issuing, Bounds>>

EditGoverning ==
  /\ governing < MaxEdits /\ run.status # "queued"
  /\ governing' = governing + 1
  /\ UNCHANGED <<RunVars, log, whole, FileVars, issuing, Bounds>>

CertificatesInit ==
  /\ run = [status |-> "queued", content |-> 0]
  /\ governing = 0 /\ log = <<>> /\ whole = TRUE
  /\ stored = NoFile
  /\ issuing = [a \in Issuers |-> NotIssuing]
  /\ asked = 0 /\ faults = 0
  /\ ranUnder = NoFile /\ excused = FALSE

CertificatesNext ==
  \/ Begin \/ Finish \/ Decide \/ RecordOutcome \/ Stopped \/ ResolveHeld
  \/ \E t \in Askers : Ask(t)
  \/ \E a \in Issuers :
       \/ Look(a) \/ SealLog(a) \/ RecordSeal(a) \/ ReadLog(a)
       \/ OpenFile(a) \/ WriteFile(a) \/ RecordIssued(a) \/ Fail(a)
  \/ Restart \/ BreakChain \/ OthersWrite \/ EditGoverning

CertificatesSpec == CertificatesInit /\ [][CertificatesNext]_certificateVars

-----------------------------------------------------------------------------
(* verify_certificate, with the log at hand: the checks that fail. *)
Places(n) == [i \in 1..n |-> i]

Failing(c) ==
  LET fails ==
    [inclusion  |-> \/ c.of = {}
                    \/ \E i \in c.of :
                         ~VerifyInclusion(i, InclusionProof(Places(c.leaves), i), MerkleRoot(Places(c.root))),
     chain      |-> ~whole,
     reproduced |-> Len(log) < c.root,
     provenance |-> \/ Config(SubSeq(log, 1, c.root)) # c.config
                    \/ Finished(SubSeq(log, 1, c.root)) # c.egress]
  IN  {check \in DOMAIN fails : fails[check]}

(***************************************************************************)
(* When nobody is issuing it, the certificate of a settled run tells how   *)
(* it was settled and on what content and, as long as no write of the log  *)
(* is cut short, under which configuration it ran and what its finishing   *)
(* record says, and passes every check of its own; whoever asked for it    *)
(* before, while the run was held, and whatever was written meanwhile.     *)
(* The exceptions: someone who asked before writes last, two write at      *)
(* once, or issuing it fails or dies.                                      *)
(***************************************************************************)
CertificateTellsTheRun ==
  run.status \in Settled /\ stored # NoFile /\ ~excused /\ (\A a \in Issuers : issuing[a].at = "idle") =>
    /\ stored \notin {Empty, Garbled}
    /\ stored.status = run.status /\ stored.content = run.content
    /\ whole =>
         /\ stored.config = ranUnder /\ stored.egress = Finished(log)
         /\ Failing(stored) = {}
=============================================================================
