---------------------------- MODULE ModelResidency ----------------------------
(***************************************************************************)
(* Which generation model is in memory: backend/models_layer/manager.py,   *)
(* its callers (the stages of a run in agents/orchestrator.py, the start   *)
(* and the shutdown in api/main.py), and the runtime (Ollama), which loads *)
(* a model when it is first called and outlives the program.               *)
(*                                                                         *)
(* The manager's methods run on the event loop under one asyncio lock, and *)
(* let other callers run wherever they await the runtime.  The lock is     *)
(* released before an admitted model is called, and a worker that has its  *)
(* admission loads the model whatever was admitted since.  Embedding       *)
(* models, exempt throughout, and models the registry does not declare,    *)
(* which are left alone, are left out; so are footprints: whether two      *)
(* models fit is any Boolean.  At reconciliation the most recently used    *)
(* model is any resident one.                                              *)
(***************************************************************************)
EXTENDS Naturals

CONSTANTS Models,     \* the registered generation models
          Drafting,   \* the one the start prefers and loads
          Workers,    \* workers of the task service
          Starter,    \* the start's task, which reconciles and then loads Drafting
          None

ASSUME ModelResidencyAssumption ==
  /\ Drafting \in Models /\ None \notin Models
  /\ Starter \notin Workers /\ None \notin Workers \cup {Starter}

Callers == Workers \cup {Starter}

VARIABLES
  running,
  single,     \* inference.single_model_residency
  resident,   \* ModelManager.state.provider_model
  holder,     \* which caller holds the manager's lock, or None
  loaded,     \* external: the models in the runtime's memory
  uses,       \* Callers -> [at, model, surplus]: surplus, the models still to be unloaded
  known       \* history: models in memory beside the resident one for a reason on record

residencyVars == <<running, single, resident, holder, loaded, uses, known>>

NoUse == [at |-> "idle", model |-> None, surplus |-> {}]
NoUses == [c \in Callers |-> NoUse]

At(c, at) == running /\ uses[c].at = at
Go(c, at) == uses' = [uses EXCEPT ![c].at = at]
InUse == {uses[c].model : c \in {d \in Callers : uses[d].at = "calling"}}

(***************************************************************************)
(* What a change of the resident model leaves behind: the model another    *)
(* caller was already admitted for, and one whose unloading failed.        *)
(***************************************************************************)
Overtaken(c) == {uses[d].model : d \in {e \in Callers \ {c} : uses[e].at \in {"admitted", "calling"}}}

\* _unload: the runtime releases the model, or does not and answers with an error
Unload(m, released) == loaded' = IF released THEN loaded \ {m} ELSE loaded
Leaves(m, released) == IF released THEN {} ELSE {m}

(***************************************************************************)
(* admit.                                                                  *)
(***************************************************************************)
AskFor(c, m) ==
  /\ At(c, "idle") /\ uses' = [uses EXCEPT ![c] = [at |-> "asking", model |-> m, surplus |-> {}]]
  /\ UNCHANGED <<running, single, resident, holder, loaded, known>>

\* Mutant: evicts for want of memory only
MustEvictToFit(fits) == resident # None /\ ~fits
MustEvict(fits) == resident # None /\ (single \/ ~fits)

Record(c, m) ==
  /\ resident' = m
  /\ known' = (known \cup Overtaken(c)) \ {m}

AdmitResident(c) ==
  /\ At(c, "asking") /\ holder = None /\ resident = uses[c].model
  /\ Go(c, "admitted")
  /\ UNCHANGED <<running, single, resident, holder, loaded, known>>

Admit(c) ==
  /\ At(c, "asking") /\ holder = None /\ resident # uses[c].model
  /\ \E fits \in BOOLEAN :
       IF MustEvict(fits)
       THEN holder' = c /\ Go(c, "evicting") /\ UNCHANGED <<resident, known>>
       ELSE Record(c, uses[c].model) /\ Go(c, "admitted") /\ UNCHANGED holder
  /\ UNCHANGED <<running, single, loaded>>

\* the state moves on whether or not the runtime released the model
Evict(c, released) ==
  /\ At(c, "evicting")
  /\ Unload(resident, released)
  /\ resident' = uses[c].model
  /\ known' = (known \cup Overtaken(c) \cup Leaves(resident, released)) \ {uses[c].model}
  /\ holder' = None /\ Go(c, "admitted")
  /\ UNCHANGED <<running, single>>

(***************************************************************************)
(* The admitted caller: a stop that arrived meanwhile ends the run before  *)
(* the model is called.                                                    *)
(***************************************************************************)
Withdraw(c) ==
  /\ At(c, "admitted") /\ c \in Workers /\ uses' = [uses EXCEPT ![c] = NoUse]
  /\ UNCHANGED <<running, single, resident, holder, loaded, known>>

Call(c) ==
  /\ At(c, "admitted") /\ Go(c, "calling") /\ loaded' = loaded \cup {uses[c].model}
  /\ UNCHANGED <<running, single, resident, holder, known>>

Return(c) ==
  /\ At(c, "calling") /\ uses' = [uses EXCEPT ![c] = NoUse]
  /\ UNCHANGED <<running, single, resident, holder, loaded, known>>

\* the runtime drops a model nobody calls: keep_alive ran out
Expire(m) ==
  /\ m \in loaded \ InUse /\ loaded' = loaded \ {m}
  /\ known' = known \ ({m} \ Overtaken(None))
  /\ UNCHANGED <<running, single, resident, holder, uses>>

(***************************************************************************)
(* The start reconciles with what the runtime holds, beside workers that   *)
(* may already be admitted, and loads the drafting model.                  *)
(***************************************************************************)
Chosen == IF Drafting \in loaded THEN {Drafting} ELSE loaded

Reconcile ==
  /\ At(Starter, "starting") /\ holder = None
  /\ \/ Go(Starter, "warming") /\ UNCHANGED <<resident, holder, known>>   \* unreachable
     \/ loaded = {} /\ Go(Starter, "warming") /\ known' = known \cap Overtaken(Starter)
        /\ UNCHANGED <<resident, holder>>
     \/ \E m \in Chosen :
          LET others == IF single THEN loaded \ {m} ELSE {}
          IN  /\ resident' = m
              /\ known' = Overtaken(Starter) \ {m}
              /\ holder' = Starter
              /\ uses' = [uses EXCEPT ![Starter] = [at |-> "clearing", model |-> None, surplus |-> others]]
  /\ UNCHANGED <<running, single, loaded>>

ClearOne(m, released) ==
  /\ At(Starter, "clearing") /\ m \in uses[Starter].surplus
  /\ Unload(m, released)
  /\ known' = known \cup Leaves(m, released)
  /\ uses' = [uses EXCEPT ![Starter].surplus = @ \ {m}]
  /\ UNCHANGED <<running, single, resident, holder>>

Reconciled ==
  /\ At(Starter, "clearing") /\ uses[Starter].surplus = {}
  /\ holder' = None /\ Go(Starter, "warming")
  /\ UNCHANGED <<running, single, resident, loaded, known>>

Prewarm ==
  /\ At(Starter, "warming")
  /\ \/ uses' = [uses EXCEPT ![Starter] = [at |-> "asking", model |-> Drafting, surplus |-> {}]]
     \/ uses' = [uses EXCEPT ![Starter] = NoUse]
  /\ UNCHANGED <<running, single, resident, holder, loaded, known>>

(***************************************************************************)
(* release_all at shutdown; a death releases nothing.  Either way the next *)
(* start knows nothing of what the runtime holds.                          *)
(***************************************************************************)
Stop ==
  /\ running /\ running' = FALSE /\ resident' = None /\ holder' = None /\ uses' = NoUses
  /\ \/ UNCHANGED loaded
     \/ resident # None /\ Unload(resident, TRUE)
  /\ known' = {} /\ UNCHANGED single

StartUp ==
  /\ ~running /\ running' = TRUE
  /\ uses' = [NoUses EXCEPT ![Starter].at = "starting"]
  /\ known' = loaded   \* until it is reconciled
  /\ UNCHANGED <<single, resident, holder, loaded>>

ResidencyInit ==
  /\ single \in BOOLEAN /\ running = FALSE /\ resident = None /\ holder = None
  /\ loaded \in SUBSET Models /\ uses = NoUses /\ known = {}

ResidencyNext ==
  \/ \E c \in Callers :
       \/ c \in Workers /\ \E m \in Models : AskFor(c, m)
       \/ AdmitResident(c) \/ Admit(c) \/ Withdraw(c) \/ Call(c) \/ Return(c)
       \/ \E released \in BOOLEAN : Evict(c, released)
  \/ \E m \in Models : \/ Expire(m)
                       \/ \E released \in BOOLEAN : ClearOne(m, released)
  \/ Reconcile \/ Reconciled \/ Prewarm \/ Stop \/ StartUp

ResidencySpec == ResidencyInit /\ [][ResidencyNext]_residencyVars

-----------------------------------------------------------------------------
(***************************************************************************)
(* Under single residency a model in memory is the one the manager would   *)
(* evict next, or there is a reason on record: its unloading failed, its   *)
(* caller was admitted before another one was, or it is left over from     *)
(* before a start that could not ask the runtime.  With one worker and a   *)
(* runtime that answers there is one generation model.                     *)
(***************************************************************************)
ResidentsAreKnown ==
  running /\ single /\ holder = None => loaded \subseteq {resident} \cup known
=============================================================================
