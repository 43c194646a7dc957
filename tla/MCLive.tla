------------------------------- MODULE MCLive --------------------------------
(* TaskLifecycle and LiveThread for one liveness run: the service as it     *)
(* moves every run along, and a browser that follows one run.  A behaviour  *)
(* is of one part; the other keeps its initial state, and nothing is asked  *)
(* of its fairness.                                                         *)
EXTENDS MCTaskLifecycle, LiveThread

VARIABLE part

PartsInit == part \in {"service", "thread"} /\ Init /\ LiveInit

PartsNext ==
    \/ part = "service" /\ Next /\ UNCHANGED <<part, liveVars>>
    \/ part = "thread" /\ LiveNext /\ UNCHANGED <<part, vars>>

InService(A) == part = "service" /\ A
InThread(A)  == part = "thread" /\ A

(* Fairness and LiveFairness, each of its own part. *)
PartsFairness ==
    /\ WF_vars(InService(Boot)) /\ WF_vars(InService(Start)) /\ WF_vars(InService(Audit))
    /\ \A t \in Runs : WF_vars(InService(Recover(t)))
    /\ \A w \in Workers : WF_vars(InService(Take(w))) /\ WF_vars(InService(Ends(w)))
    /\ WF_liveVars(InThread(Poll)) /\ WF_liveVars(InThread(Reread))
    /\ WF_liveVars(InThread(Answered)) /\ WF_liveVars(InThread(ApplyRead))

PartsSpec == PartsInit /\ [][PartsNext]_<<part, vars, liveVars>> /\ PartsFairness
=============================================================================
