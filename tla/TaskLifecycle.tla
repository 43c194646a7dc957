--------------------------- MODULE TaskLifecycle ----------------------------
(***************************************************************************)
(* Runs from submission to settlement: the task service (queue, workers,   *)
(* stop requests, restart recovery) and the ends of the orchestrator's run *)
(* that change a run's stored state.                                       *)
(*                                                                         *)
(* Coroutines of one event loop interleave only where they suspend, and    *)
(* publishing an event never does, so a handler is one action.  It is cut  *)
(* in two where the process can die between the write of a row and the     *)
(* audit record of it: `pending` holds the event loop meanwhile.           *)
(***************************************************************************)
EXTENDS Naturals, Sequences, SequencesExt, FiniteSets

CONSTANTS
    MaxRuns,       \* bound: runs ever submitted
    Workers,       \* worker coroutines (agent.worker_count)
    NoRun,         \* no run
    Documents,     \* the runs that produce a file
    HeldByPolicy,  \* the runs some approval rule matches whatever happens
    RecoverLimit,  \* rows recover_orphans closes out in one boot (500)
    MaxStops,      \* bound: times the process ends
    Faults         \* whether a handler may meet an unexpected error

(* Runs are numbered in the order they are created. *)
Runs == 1..MaxRuns

ASSUME LifecycleAssumption ==
    /\ MaxRuns \in Nat
    /\ RecoverLimit \in Nat
    /\ MaxStops \in Nat
    /\ NoRun \notin Runs
    /\ Faults \in BOOLEAN
    /\ Documents \subseteq Runs
    /\ HeldByPolicy \subseteq Runs

VARIABLES
    process,    \* the API process
    row,        \* tasks.status in the database
    released,   \* runs whose stored deliverables are marked released
    waiting,    \* TaskService._waiting
    queue,      \* TaskService._queue
    cancelled,  \* TaskService._cancelled
    holds,      \* the run each worker holds; their union is _executing
    orphans,    \* rows the boot in progress has still to close out
    pending,    \* the run whose new row awaits its audit record
    logged,     \* outcomes of each run in the log's task and approval records
    stops       \* times the process has ended

vars == <<process, row, released, waiting, queue, cancelled, holds, orphans,
          pending, logged, stops>>
memory == <<waiting, queue, cancelled, holds>>

(* "classified" is as submitted; "executing" stands for every stage a      *)
(* worker moves the run through (planned, retrieving, executing,           *)
(* verifying): nothing here tells those apart.                             *)
Active  == {"classified", "executing"}
Settled == {"delivered", "rejected", "failed", "blocked", "cancelled"}

Status  == {"absent", "awaiting_approval", "revision_requested"} \cup Active \cup Settled

TypeOK ==
    /\ process \in {"down", "recovering", "up"}
    /\ row \in [Runs -> Status]
    /\ released \subseteq Runs
    /\ waiting \in Seq(Runs)
    /\ queue \in Seq(Runs)
    /\ cancelled \subseteq Runs
    /\ holds \in [Workers -> Runs \cup {NoRun}]
    /\ orphans \subseteq Runs
    /\ pending \in Runs \cup {NoRun}
    /\ logged \in [Runs -> SUBSET Status]
    /\ stops \in Nat

Executing == {holds[w] : w \in Workers} \ {NoRun}

(* No handler is between two of its writes. *)
LoopFree == process = "up" /\ pending = NoRun

Init ==
    /\ process = "down"
    /\ row = [t \in Runs |-> "absent"]
    /\ released = {}
    /\ waiting = <<>>
    /\ queue = <<>>
    /\ cancelled = {}
    /\ holds = [w \in Workers |-> NoRun]
    /\ orphans = {}
    /\ pending = NoRun
    /\ logged = [t \in Runs |-> {}]
    /\ stops = 0

-----------------------------------------------------------------------------
(* Requests. *)

(* The next id: the oldest row not yet inserted. *)
Fresh(t) == row[t] = "absent" /\ \A s \in Runs : s < t => row[s] # "absent"

Create(t) ==
    /\ LoopFree
    /\ Fresh(t)
    /\ row' = [row EXCEPT ![t] = "classified"]
    /\ waiting' = Append(waiting, t)
    /\ queue' = Append(queue, t)
    /\ UNCHANGED <<process, released, cancelled, holds, orphans, pending, logged, stops>>

(* The row is written and the audit log cannot be: the request fails and   *)
(* the run is never queued.                                                *)
CreateFails(t) ==
    /\ Faults
    /\ LoopFree
    /\ Fresh(t)
    /\ row' = [row EXCEPT ![t] = "classified"]
    /\ UNCHANGED <<process, released, memory, orphans, pending, logged, stops>>

(* A finished run's request is submitted again as a new run. *)
Rerun(original, t) ==
    /\ row[original] \notin Active \cup {"absent"}
    /\ Create(t)

(* Cancelling refuses a final run.  It closes out a run that no worker     *)
(* started; the worker that holds the run is left to notice.               *)
CancelUnless(t, final, line) ==
    /\ LoopFree
    /\ row[t] \notin final \cup {"absent"}
    /\ cancelled' = cancelled \cup {t}
    /\ waiting' = line
    /\ IF t \in Executing
       THEN UNCHANGED <<row, pending>>
       ELSE /\ row' = [row EXCEPT ![t] = "cancelled"]
            /\ pending' = t
    /\ UNCHANGED <<process, released, queue, holds, orphans, logged, stops>>

(* Mutations: `terminal` lacks a state; the place in the line is kept.     *)
CancelReopens(t)    == CancelUnless(t, Settled \ {"delivered"}, RemoveFirst(waiting, t))
CancelKeepsPlace(t) == CancelUnless(t, Settled, waiting)

Cancel(t) == CancelUnless(t, Settled, RemoveFirst(waiting, t))

(* A reviewer's final decision releases the files only by approving;       *)
(* Approval has how it is reached.                                         *)
DecideReleasing(t, approvals) ==
    /\ LoopFree
    /\ row[t] = "awaiting_approval"
    /\ \E s \in {"delivered", "rejected", "revision_requested"} :
          /\ row' = [row EXCEPT ![t] = s]
          /\ released' = IF s \in approvals /\ t \in Documents
                         THEN released \cup {t} ELSE released \ {t}
    /\ pending' = t
    /\ UNCHANGED <<process, memory, orphans, logged, stops>>

Decide(t) == DecideReleasing(t, {"delivered"})

-----------------------------------------------------------------------------
(* Workers. *)

(* A worker takes the head of the queue.  One cancelled while it waited is *)
(* dropped, and the request to cancel it is spent; any other reaches its   *)
(* first stage before the worker first suspends.                           *)
TakeUnless(w, dropped, line) ==
    /\ LoopFree
    /\ holds[w] = NoRun
    /\ queue # <<>>
    /\ LET t == Head(queue)
       IN  /\ queue' = Tail(queue)
           /\ waiting' = line
           /\ IF t \in dropped
              THEN /\ cancelled' = cancelled \ {t}
                   /\ UNCHANGED <<row, holds>>
              ELSE /\ holds' = [holds EXCEPT ![w] = t]
                   /\ row' = [row EXCEPT ![t] = "executing"]
                   /\ UNCHANGED cancelled
    /\ UNCHANGED <<process, released, orphans, pending, logged, stops>>

(* Mutations: stop requests are not looked up; the loop ends with the      *)
(* first run that settles.                                                 *)
TakeIgnoresStop(w) == TakeUnless(w, {}, RemoveFirst(waiting, Head(queue)))
TakeServesOne(w)   ==
    /\ \A t \in Runs : row[t] \notin Settled
    /\ TakeUnless(w, cancelled, RemoveFirst(waiting, Head(queue)))

Take(w) == TakeUnless(w, cancelled, RemoveFirst(waiting, Head(queue)))

(* The worker w ends its run in state s and goes on to audit it. *)
Finish(w, s) ==
    /\ LoopFree
    /\ holds[w] # NoRun
    /\ row' = [row EXCEPT ![holds[w]] = s]
    /\ pending' = holds[w]
    /\ UNCHANGED <<process, memory, orphans, logged, stops>>

(* The stop is noticed between two stages or while a model generates. *)
NoticeStop(w) ==
    /\ holds[w] \in cancelled
    /\ Finish(w, "cancelled")
    /\ UNCHANGED released

(* No rule matched.  The files are marked released before the last stage   *)
(* is entered, and entering a stage is where a stop is noticed.            *)
ReleaseUnheld(w) ==
    /\ holds[w] \notin HeldByPolicy
    /\ Finish(w, IF holds[w] \in cancelled THEN "cancelled" ELSE "delivered")
    /\ released' = IF holds[w] \in Documents THEN released \cup {holds[w]} ELSE released

(* Mutation: the last stage is entered without looking for a stop. *)
HoldIgnoresStop(w) == Finish(w, "awaiting_approval") /\ UNCHANGED released

(* A rule matched: held for review, unless a stop is noticed first. *)
HoldForReview(w) ==
    /\ Finish(w, IF holds[w] \in cancelled THEN "cancelled" ELSE "awaiting_approval")
    /\ UNCHANGED released

(* No model is eligible, or the inference or a stage failed. *)
FailRun(w) ==
    /\ \E s \in {"failed", "blocked"} : Finish(w, s)
    /\ UNCHANGED released

(* The worker's exception handler: an error that no handler of the run     *)
(* caught ends the worker's hold, and only an event says so.               *)
Abandon(w) ==
    /\ Faults
    /\ LoopFree
    /\ holds[w] # NoRun
    /\ holds' = [holds EXCEPT ![w] = NoRun]
    /\ cancelled' = cancelled \ {holds[w]}
    /\ UNCHANGED <<process, row, released, waiting, queue, orphans, pending, logged, stops>>

(* The rest of the handler that wrote the pending row: its audit record    *)
(* and, in a worker, the end of its hold and of the request to stop it.    *)
Conclude(kept) ==
    /\ pending' = NoRun
    /\ holds' = [w \in Workers |-> IF holds[w] = pending THEN NoRun ELSE holds[w]]
    /\ cancelled' = kept
    /\ UNCHANGED <<process, row, released, waiting, queue, orphans, stops>>

(* Mutation: the stop request outlives its run. *)
EndHandlerKeepsStop == Conclude(cancelled)

EndHandler ==
    Conclude(IF pending \in Executing THEN cancelled \ {pending} ELSE cancelled)

Audit ==
    /\ pending # NoRun
    /\ logged' = [logged EXCEPT ![pending] = @ \cup {row[pending]}]
    /\ EndHandler

AuditFails ==
    /\ Faults
    /\ process = "up"
    /\ pending # NoRun
    /\ EndHandler
    /\ UNCHANGED logged

-----------------------------------------------------------------------------
(* The process. *)

(* All a process keeps outside the database and the audit log is lost,     *)
(* whether it is shut down (stop) or dies.                                 *)
End ==
    /\ stops < MaxStops
    /\ process # "down"
    /\ process' = "down"
    /\ stops' = stops + 1
    /\ waiting' = <<>>
    /\ queue' = <<>>
    /\ cancelled' = {}
    /\ holds' = [w \in Workers |-> NoRun]
    /\ orphans' = {}
    /\ pending' = NoRun
    /\ UNCHANGED <<row, released, logged>>

(* Boot reads the rows left active, newest first, up to the limit. *)
BootClosing(statuses) ==
    /\ process = "down"
    /\ process' = "recovering"
    /\ LET left == {t \in Runs : row[t] \in statuses}
       IN  orphans' = {t \in left : Cardinality({s \in left : s > t}) < RecoverLimit}
    /\ UNCHANGED <<row, released, memory, pending, logged, stops>>

(* Mutation: runs that were still queued are not read. *)
BootForgetsQueued == BootClosing({"executing"})

Boot == BootClosing(Active)

(* It closes them out one by one, each written and then audited, ... *)
Recover(t) ==
    /\ process = "recovering"
    /\ pending = NoRun
    /\ t \in orphans
    /\ \A s \in orphans : s <= t
    /\ orphans' = orphans \ {t}
    /\ row' = [row EXCEPT ![t] = "failed"]
    /\ pending' = t
    /\ UNCHANGED <<process, released, memory, logged, stops>>

(* ... and only then starts the workers. *)
Start ==
    /\ process = "recovering"
    /\ pending = NoRun
    /\ orphans = {}
    /\ process' = "up"
    /\ UNCHANGED <<row, released, memory, orphans, pending, logged, stops>>

-----------------------------------------------------------------------------
Ends(w) == NoticeStop(w) \/ ReleaseUnheld(w) \/ HoldForReview(w) \/ FailRun(w)

Next ==
    \/ \E t \in Runs : Create(t) \/ CreateFails(t) \/ Cancel(t) \/ Decide(t) \/ Recover(t)
    \/ \E original, t \in Runs : Rerun(original, t)
    \/ \E w \in Workers : Take(w) \/ Ends(w) \/ Abandon(w)
    \/ Audit \/ AuditFails \/ End \/ Boot \/ Start

Spec == Init /\ [][Next]_vars

(* Scheduling: a started process boots, a coroutine that can run is run,   *)
(* and a run ends, every model and tool call having a time limit.  Nothing *)
(* is assumed of people.                                                   *)
Fairness ==
    /\ WF_vars(Boot) /\ WF_vars(Start) /\ WF_vars(Audit)
    /\ \A t \in Runs : WF_vars(Recover(t))
    /\ \A w \in Workers : WF_vars(Take(w)) /\ WF_vars(Ends(w))

FairSpec == Spec /\ Fairness
-----------------------------------------------------------------------------
(* Properties. *)

(* The line shown to users is the queue itself, in order, less the runs    *)
(* cancelled while they waited (_waiting against _queue).                  *)
Before(s, x, y) == \E k, l \in DOMAIN s : k < l /\ s[k] = x /\ s[l] = y

LineIsQueue ==
    /\ \A t \in Runs : Contains(waiting, t) <=> Contains(queue, t) /\ t \notin cancelled
    /\ \A i, j \in DOMAIN waiting : i < j => Before(queue, waiting[i], waiting[j])

(* A run is with one worker at most, no longer queued, and its row is      *)
(* still the worker's to write: nothing settled it meanwhile, so the       *)
(* worker's copy overwrites nobody's outcome.                              *)
HeldIsOwned ==
    \A w \in Workers : holds[w] # NoRun =>
        /\ \A v \in Workers \ {w} : holds[v] # holds[w]
        /\ ~ Contains(queue, holds[w])
        /\ row[holds[w]] = "executing" \/ pending = holds[w]

(* While the process serves, a run that looks active is queued or held by  *)
(* a worker (recover_orphans' premise).                                    *)
ActiveIsOwned ==
    process = "up" =>
        \A t \in Runs : row[t] \in Active => Contains(waiting, t) \/ t \in Executing

(* A stop request on file for a run no worker holds has already closed     *)
(* that run: no request lingers that could stop a run nobody stopped.      *)
StopIsForThisRun == \A t \in cancelled : t \in Executing \/ row[t] = "cancelled"

(* Files marked released belong to a delivered run.  Downloads look at     *)
(* the mark, never at the run's status.                                    *)
ReleasedOnlyDelivered == \A t \in released : row[t] = "delivered"

(* The task and approval records never report an end the database does not *)
(* have: the row is written first, whatever the moment the process dies.   *)
(* (The orchestrator's own record of a stop or a failure, of category      *)
(* agent, is written before the row and is not modelled.)                  *)
LogFollowsRow == \A t \in Runs : logged[t] \cap Settled \subseteq {row[t]}

(* What a run settled as never changes (the set _persist completes).       *)
SettledIsFinal ==
    [][\A t \in Runs : row[t] \in Settled => row'[t] = row[t]]_vars

(* A run asked to stop while a worker holds it is neither delivered nor    *)
(* held for review afterwards.                                             *)
StopIsHonoured ==
    [][\A t \in cancelled \cap Executing :
          row[t] = "executing" => row'[t] \notin {"delivered", "awaiting_approval"}]_vars

(* Every submitted run leaves its active stages. *)
Progress == \A t \in Runs : row[t] \in Active ~> row[t] \notin Active

(* The service implements the abstract life of a run. *)
RL == INSTANCE RunLifecycle WITH
        state <- [t \in Runs |-> IF row[t] \in Active THEN "active" ELSE row[t]],
        asked <- {t \in cancelled : row[t] \in Active}

ImplementsRunLifecycle == RL!RSpec
=============================================================================
