-------------------------- MODULE KnowledgeRevisions --------------------------
(***************************************************************************)
(* Which revision of a procedure is in force: ingestion, deletion and      *)
(* reconciliation in backend/rag/knowledge_base.py, resolve in             *)
(* backend/knowledge/revisions.py, the table in backend/core/database.py   *)
(* and the start in backend/api/main.py.                                   *)
(*                                                                         *)
(* Once its text is embedded an ingestion runs on the event loop without   *)
(* giving way: ingestions and retrievals are not interleaved.  A deletion  *)
(* is a plain route, so it runs in a thread beside them.  Every database   *)
(* call is a transaction of its own.  One document code is modelled: the   *)
(* code paths never read a family to write another.  A document's id is a  *)
(* hash of its content, and with it its revision, unless the uploader      *)
(* names one.                                                              *)
(***************************************************************************)
EXTENDS Naturals, FiniteSets

CONSTANTS Docs,         \* document ids
          Revisions,    \* a finite set of naturals
          WithdrawnDocs,\* those whose header says they are withdrawn
          Deleters,     \* threads that serve deletions
          Nobody,
          MaxIngests    \* bound

DocumentRows ==
  [revision : Revisions, by : Docs \cup {Nobody}, at : Nat,
   status : {"active", "superseded", "withdrawn"}]

ASSUME KnowledgeAssumption ==
  /\ IsFiniteSet(Docs) /\ Revisions \subseteq Nat /\ WithdrawnDocs \subseteq Docs
  /\ Nobody \notin Docs \cup DocumentRows /\ MaxIngests \in Nat

VARIABLES
  serving,
  docs,       \* Docs -> a row, or Nobody
  passages,   \* the documents that have chunks
  ingest,     \* the ingestion on the event loop
  deletions,  \* Deleters -> [at, doc]
  ingested,   \* how many ingestions there were: ingested_at
  unsettled   \* history: a row was deleted that no reconciliation has read since

knowledgeVars == <<serving, docs, passages, ingest, deletions, ingested, unsettled>>

NoIngest == [at |-> "idle", doc |-> Nobody, todo |-> <<>>]
NoDeletions == [d \in Deleters |-> [at |-> "idle", doc |-> Nobody]]

Listed == {d \in Docs : docs[d] # Nobody}

(***************************************************************************)
(* resolve: the highest revision that is not withdrawn, the later          *)
(* ingestion of two equal ones.                                            *)
(***************************************************************************)
Candidates(rows) == {d \in Docs : rows[d] # Nobody /\ rows[d].status # "withdrawn"}

\* Mutant: whatever was ingested last
IngestedLater(x, y) == x.at > y.at
Outranks(x, y) == x.revision > y.revision \/ (x.revision = y.revision /\ x.at > y.at)

InForce(rows) ==
  {d \in Candidates(rows) : \A e \in Candidates(rows) \ {d} : Outranks(rows[d], rows[e])}

Resolved(rows, d) ==
  IF Candidates(rows) = {} \/ d \in InForce(rows) \/ rows[d].status = "withdrawn"
  THEN [rows[d] EXCEPT !.status = IF d \in InForce(rows) THEN "active" ELSE "withdrawn",
                       !.by = IF d \in InForce(rows) THEN Nobody ELSE @]
  ELSE [rows[d] EXCEPT !.status = "superseded", !.by = CHOOSE e \in InForce(rows) : TRUE]

\* reconcile_revisions writes the rows whose resolution differs
Unresolved(rows) == {d \in Docs : rows[d] # Nobody /\ Resolved(rows, d) # rows[d]}

(***************************************************************************)
(* ingest_file, after the embedding.                                       *)
(***************************************************************************)
IngestAt(at) == serving /\ ingest.at = at

DropPassages(d, r) ==
  /\ IngestAt("idle") /\ ingested < MaxIngests
  /\ passages' = passages \ {d}
  /\ ingest' = [at |-> "row", doc |-> d, todo |-> r]
  /\ ingested' = ingested + 1
  /\ UNCHANGED <<serving, docs, deletions, unsettled>>

UpsertDocument ==
  /\ IngestAt("row")
  /\ docs' = [docs EXCEPT ![ingest.doc] =
       [revision |-> ingest.todo, by |-> Nobody, at |-> ingested,
        status |-> IF ingest.doc \in WithdrawnDocs THEN "withdrawn" ELSE "active"]]
  /\ ingest' = [ingest EXCEPT !.at = "chunks"]
  /\ UNCHANGED <<serving, passages, deletions, ingested, unsettled>>

InsertChunks ==
  /\ IngestAt("chunks")
  /\ passages' = passages \cup {ingest.doc}
  /\ ingest' = [ingest EXCEPT !.at = "read"]
  /\ UNCHANGED <<serving, docs, deletions, ingested, unsettled>>

\* the rows are read once, and each write goes by what was read
ReadRows ==
  /\ IngestAt("read")
  /\ ingest' = [at |-> "settle", doc |-> Nobody, todo |-> [d \in Unresolved(docs) |-> Resolved(docs, d)]]
  /\ unsettled' = FALSE
  /\ UNCHANGED <<serving, docs, passages, deletions, ingested>>

\* set_revision_status updates no row when the document is gone
SetRevisionStatus(d) ==
  /\ IngestAt("settle") /\ d \in DOMAIN ingest.todo
  /\ docs' = IF docs[d] = Nobody THEN docs
             ELSE [docs EXCEPT ![d].status = ingest.todo[d].status, ![d].by = ingest.todo[d].by]
  /\ ingest' = [ingest EXCEPT !.todo = [e \in DOMAIN @ \ {d} |-> @[e]]]
  /\ UNCHANGED <<serving, passages, deletions, ingested, unsettled>>

Ingested ==
  /\ IngestAt("settle") /\ DOMAIN ingest.todo = {}
  /\ ingest' = NoIngest
  /\ UNCHANGED <<serving, docs, passages, deletions, ingested, unsettled>>

(***************************************************************************)
(* delete_document.                                                        *)
(***************************************************************************)
Delete(t, d) ==
  /\ serving /\ deletions[t].at = "idle" /\ docs[d] # Nobody
  /\ deletions' = [deletions EXCEPT ![t] = [at |-> "chunks", doc |-> d]]
  /\ UNCHANGED <<serving, docs, passages, ingest, ingested, unsettled>>

DeleteChunks(t) ==
  /\ deletions[t].at = "chunks"
  /\ passages' = passages \ {deletions[t].doc}
  /\ deletions' = [deletions EXCEPT ![t].at = "row"]
  /\ UNCHANGED <<serving, docs, ingest, ingested, unsettled>>

DeleteRow(t) ==
  /\ deletions[t].at = "row"
  /\ docs' = [docs EXCEPT ![deletions[t].doc] = Nobody]
  /\ deletions' = [deletions EXCEPT ![t] = [at |-> "idle", doc |-> Nobody]]
  /\ unsettled' = TRUE
  /\ UNCHANGED <<serving, passages, ingest, ingested>>

(***************************************************************************)
(* A death, and the start, which reconciles before it serves.              *)
(***************************************************************************)
Die ==
  /\ serving /\ serving' = FALSE /\ ingest' = NoIngest /\ deletions' = NoDeletions
  /\ UNCHANGED <<docs, passages, ingested, unsettled>>

Open ==
  /\ ~serving /\ serving' = TRUE
  /\ docs' = [d \in Docs |-> IF d \in Unresolved(docs) THEN Resolved(docs, d) ELSE docs[d]]
  /\ unsettled' = FALSE
  /\ UNCHANGED <<passages, ingest, deletions, ingested>>

KnowledgeInit ==
  /\ serving = TRUE /\ docs = [d \in Docs |-> Nobody] /\ passages = {} /\ ingest = NoIngest
  /\ deletions = NoDeletions /\ ingested = 0 /\ unsettled = FALSE

KnowledgeNext ==
  \/ \E d \in Docs : \/ SetRevisionStatus(d)
                     \/ \E r \in Revisions : DropPassages(d, r)
  \/ UpsertDocument \/ InsertChunks \/ ReadRows \/ Ingested
  \/ \E t \in Deleters : \/ DeleteChunks(t) \/ DeleteRow(t)
                         \/ \E d \in Docs : Delete(t, d)
  \/ Die \/ Open

KnowledgeSpec == KnowledgeInit /\ [][KnowledgeNext]_knowledgeVars

-----------------------------------------------------------------------------
(***************************************************************************)
(* "Several revisions of one code can be in the index at once, but only    *)
(* one is active: the highest revision that has not been withdrawn"        *)
(* (revisions.py 3-6).  Between ingestions that is so, whatever was        *)
(* deleted meanwhile and wherever the program died, up to one thing: after *)
(* a deletion, and until the next ingestion or start reconciles, the one   *)
(* in force may be gone and none in its place.                             *)
(***************************************************************************)
OneInForce ==
  serving /\ ingest.at = "idle" =>
    LET current == {d \in Candidates(docs) : docs[d].status = "active"}
    IN  /\ \A d \in current, e \in Candidates(docs) :
             docs[e].revision <= docs[d].revision /\ (e \in current => e = d)
        /\ current = {} /\ Candidates(docs) # {} => unsettled
=============================================================================
