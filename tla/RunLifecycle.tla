---------------------------- MODULE RunLifecycle ----------------------------
(***************************************************************************)
(* What the workbench promises of a run, whoever executes it: the          *)
(* abstract specification TaskLifecycle is shown to implement.  There are  *)
(* no queues, workers, processes or restarts here, only the state of each  *)
(* run and whether a stop has been accepted for it while it was active.    *)
(***************************************************************************)
CONSTANT Runs      \* the runs that may ever be submitted

VARIABLES state,   \* the state of each run, its active stages taken as one
          asked    \* the active runs a stop has been accepted for

rvars == <<state, asked>>

States == {"absent", "active", "awaiting_approval", "revision_requested",
           "delivered", "rejected", "failed", "blocked", "cancelled"}

(* The states a run cannot leave. *)
Settled == {"delivered", "rejected", "failed", "blocked", "cancelled"}

RInit ==
    /\ state = [t \in Runs |-> "absent"]
    /\ asked = {}

Submit(t) ==
    /\ state[t] = "absent"
    /\ state' = [state EXCEPT ![t] = "active"]
    /\ UNCHANGED asked

(* A stop is accepted for an active run: it is honoured later. *)
AskStop(t) ==
    /\ state[t] = "active"
    /\ asked' = asked \cup {t}
    /\ UNCHANGED state

(* An active run leaves its worker.  One that was asked to stop may no     *)
(* longer be delivered or held for review.                                 *)
Leave(t) ==
    /\ state[t] = "active"
    /\ \E s \in {"delivered", "awaiting_approval", "failed", "blocked", "cancelled"} :
          /\ t \in asked => s \notin {"delivered", "awaiting_approval"}
          /\ state' = [state EXCEPT ![t] = s]
    /\ asked' \in {asked, asked \ {t}}

(* A reviewer decides a held run. *)
Review(t) ==
    /\ state[t] = "awaiting_approval"
    /\ \E s \in {"delivered", "rejected", "revision_requested"} :
          state' = [state EXCEPT ![t] = s]
    /\ UNCHANGED asked

(* A held run, or one sent back to its submitter, is stopped. *)
Withdraw(t) ==
    /\ state[t] \in {"awaiting_approval", "revision_requested"}
    /\ state' = [state EXCEPT ![t] = "cancelled"]
    /\ UNCHANGED asked

(* Stop requests live in the memory of one process. *)
Forget ==
    /\ asked' \in SUBSET asked
    /\ UNCHANGED state

RNext ==
    \/ \E t \in Runs : Submit(t) \/ AskStop(t) \/ Leave(t) \/ Review(t) \/ Withdraw(t)
    \/ Forget

RSpec == RInit /\ [][RNext]_rvars
=============================================================================
