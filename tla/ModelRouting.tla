----------------------------- MODULE ModelRouting -----------------------------
(***************************************************************************)
(* Which model answers one stage of a run: models_layer/registry.py and    *)
(* router.py, the memory fallback and the policy check of                  *)
(* agents/orchestrator.py (_invoke, up to the admission of                 *)
(* ModelResidency), and policy/gateway.py (check_model).                   *)
(*                                                                         *)
(* The registry answers from a snapshot of the runtime for as long as it   *)
(* is fresh, so a stage that is routed on one may go on with another.      *)
(* Scores are those of the eligible: role and size, context windows being  *)
(* left out, so that either of two equals may be first.  Whether a model   *)
(* fits in memory is any Boolean.                                          *)
(***************************************************************************)
EXTENDS Naturals, Sequences

CONSTANTS Registered,     \* config/models.yaml: no more than the six candidates a decision keeps
          Pinned,         \* those with an expected_digest
          Billions,       \* each one's parameters_b, which orders footprints too
          RoleOfModel, CapabilitiesOf, ApprovedFor,
          Rules,          \* config/routing.yaml: [takes, role, capabilities, fallback]
          Kinds,          \* what a profile says of a task, as far as rules tell it apart
          Stages,         \* stage -> [role, capabilities]; others follow the rule
          Sensitivities,
          RoleMatch, SmallerModel,     \* scoring weights
          NoModel

ASSUME ModelRoutingAssumption ==
  /\ Billions \in [Registered -> Nat] /\ Rules # <<>> /\ NoModel \notin Registered
  /\ RoleMatch \in Nat /\ SmallerModel \in Nat

VARIABLES
  weights,    \* external: registered models in the runtime, as declared or replaced
  snapshot,   \* ModelRegistry._snapshot: the models available in it
  fresh,      \* it is younger than its TTL
  stage       \* the stage under way

routingVars == <<weights, snapshot, fresh, stage>>

NoStage == [at |-> "none", needs |-> {}, sensitivity |-> NoModel, preferred |-> NoModel,
            role |-> "none", eligible |-> {}, model |-> NoModel, record |-> NoModel,
            shrunk |-> FALSE,
            routedOn |-> {}]  \* history: the models available in the snapshot it was routed on

StageAt(at) == stage.at = at

\* installed, and not at another digest than a pinned one
Available == {m \in Registered : weights[m] = "declared" \/ (weights[m] = "replaced" /\ m \notin Pinned)}

\* a runtime that cannot be asked has none
Refresh ==
  /\ snapshot' \in IF fresh THEN {snapshot} ELSE {Available, {}}
  /\ fresh' = TRUE

-----------------------------------------------------------------------------
Matching(kind) == {i \in 1..Len(Rules) : kind \in Rules[i].takes}

SelectRule(kind) ==
  IF Matching(kind) = {} THEN Rules[Len(Rules)]
  ELSE Rules[CHOOSE i \in Matching(kind) : \A j \in Matching(kind) : i <= j]

\* a stage's own role and capabilities replace the rule's; its fallback stays the rule's
Requirement(kind, name) ==
  IF name \in DOMAIN Stages THEN Stages[name]
  ELSE [role |-> SelectRule(kind).role, capabilities |-> SelectRule(kind).capabilities]

\* Mutants: availability only scores; the memory fallback takes any candidate
EligibleUninstalled(available, capabilities, sensitivity) ==
  {m \in Registered : sensitivity \in ApprovedFor[m] /\ capabilities \subseteq CapabilitiesOf[m]}

Eligible(available, capabilities, sensitivity) ==
  {m \in Registered \cap available :
     sensitivity \in ApprovedFor[m] /\ capabilities \subseteq CapabilitiesOf[m]}

Score(m, role) ==
  (IF RoleOfModel[m] = role THEN RoleMatch ELSE 0)
  + SmallerModel * (100 - Billions[m])

Winners(models, role) == {m \in models : \A n \in models : Score(n, role) <= Score(m, role)}

\* what a preference may change: the choice among the eligible
Preferring(models, role, preferred) ==
  IF preferred \in models THEN {preferred} ELSE Winners(models, role)

Decide(kind, name, sensitivity, preferred, available) ==
  LET first  == Requirement(kind, name)
      chosen == Eligible(available, first.capabilities, sensitivity)
      second == IF chosen # {} THEN first ELSE SelectRule(kind).fallback
      models == Eligible(available, second.capabilities, sensitivity)
      none   == [NoStage EXCEPT !.at = "unserved"]
  IN  IF models = {} THEN {none}
      ELSE {[at |-> "routed", needs |-> second.capabilities, sensitivity |-> sensitivity,
             preferred |-> preferred, role |-> second.role, eligible |-> models, model |-> m,
             record |-> m, shrunk |-> FALSE, routedOn |-> available] : m \in Preferring(models, second.role, preferred)}

Route(kind, name, sensitivity, preferred) ==
  /\ StageAt("none")
  /\ Refresh
  /\ stage' \in Decide(kind, name, sensitivity, preferred, snapshot')
  /\ UNCHANGED weights

-----------------------------------------------------------------------------
(***************************************************************************)
(* _fit_or_fallback: a model that would not fit gives way to a smaller     *)
(* candidate that does, best first; with none it stays.  The descriptors   *)
(* come from the registry, whatever the snapshot then says of them.        *)
(***************************************************************************)
Smaller == {m \in stage.eligible : Billions[m] < Billions[stage.model]}

Fit(fitting) ==
  /\ StageAt("routed")
  /\ Refresh
  /\ IF stage.model \in fitting \/ Smaller \cap fitting = {}
     THEN stage' = [stage EXCEPT !.at = "fitted"]
     ELSE \E m \in Winners(Smaller \cap fitting, stage.role) :
            stage' = [stage EXCEPT !.at = "fitted", !.model = m, !.record = m, !.shrunk = TRUE]
  /\ UNCHANGED weights

CheckModel ==
  /\ StageAt("fitted")
  /\ stage' = IF stage.sensitivity \in ApprovedFor[stage.model]
              THEN [stage EXCEPT !.at = "calling"] ELSE [NoStage EXCEPT !.at = "unserved"]
  /\ UNCHANGED <<weights, snapshot, fresh>>

StageOver ==
  /\ stage.at \in {"calling", "unserved"} /\ stage' = NoStage
  /\ UNCHANGED <<weights, snapshot, fresh>>

\* the world: time, the operator's installs, pulls and removals
Lapse == fresh /\ fresh' = FALSE /\ UNCHANGED <<weights, snapshot, stage>>

Reinstall(m, as) ==
  /\ weights[m] # as /\ weights' = [weights EXCEPT ![m] = as]
  /\ UNCHANGED <<snapshot, fresh, stage>>

RoutingInit ==
  /\ weights \in [Registered -> {"declared", "absent"}] 
  /\ snapshot = {} /\ fresh = FALSE /\ stage = NoStage

RoutingNext ==
  \/ \E kind \in Kinds, name \in DOMAIN Stages \cup {"other"}, sensitivity \in Sensitivities,
        preferred \in Registered \cup {NoModel} : Route(kind, name, sensitivity, preferred)
  \/ \E fitting \in SUBSET Registered : Fit(fitting)
  \/ CheckModel \/ StageOver \/ Lapse
  \/ \E m \in Registered, as \in {"declared", "absent", "replaced"} : Reinstall(m, as)

RoutingSpec == RoutingInit /\ [][RoutingNext]_routingVars

-----------------------------------------------------------------------------
(***************************************************************************)
(* The model called is one that passed every gate when the stage was       *)
(* routed, the one the run's record names, and the one the person asked    *)
(* for if that passed too, unless memory made it give way to a smaller     *)
(* one: route's docstring, "a request, not an override".                   *)
(***************************************************************************)
AnswererPassedTheGates ==
  StageAt("calling") =>
    /\ stage.model = stage.record
    /\ stage.model \in stage.routedOn
    /\ stage.needs \subseteq CapabilitiesOf[stage.model]
    /\ stage.sensitivity \in ApprovedFor[stage.model]
    /\ stage.preferred \in stage.eligible =>
         \/ stage.model = stage.preferred
         \/ stage.shrunk /\ Billions[stage.model] < Billions[stage.preferred]
=============================================================================
