------------------------------ MODULE MCServices ------------------------------
(***************************************************************************)
(* Six services that share no state: the initial state picks the one that *)
(* runs while the others rest, so that one exploration has the sum of      *)
(* their states and not the product.                                       *)
(***************************************************************************)
EXTENDS SignIn, ModelResidency, KnowledgeRevisions, Sandbox, ModelRouting, Drawing, TLC

CONSTANTS qwen, coder, vl     \* models

\* config/models.yaml and config/routing.yaml, as far as rules tell tasks apart
MCBillions == qwen :> 3 @@ coder :> 7 @@ vl :> 3
MCRoleOfModel == qwen :> "reasoning" @@ coder :> "coding" @@ vl :> "vision"
MCCapabilitiesOf ==
  qwen :> {"text", "reasoning", "coding"} @@ coder :> {"text", "coding"} @@ vl :> {"text", "vision"}
MCApprovedFor ==
  qwen :> {"restricted", "sensitive"} @@ coder :> {"restricted"} @@ vl :> {"restricted", "sensitive"}

Needing(role, capabilities) == [role |-> role, capabilities |-> capabilities]
Rule(takes, role, capabilities, fallback) ==
  [takes |-> takes, role |-> role, capabilities |-> capabilities, fallback |-> fallback]

MCRules ==
  <<Rule({"visual"}, "vision", {"vision"}, Needing("vision", {"vision"})),
    Rule({"coding"}, "coding", {"coding"}, Needing("reasoning", {"text"})),
    Rule({"visual", "coding", "document"}, "reasoning", {"text"}, Needing("reasoning", {"text"}))>>

MCStages ==
  [vision_extraction |-> Needing("vision", {"vision"}),
   drafting          |-> Needing("reasoning", {"reasoning"}),
   code_generation   |-> Needing("coding", {"coding"})]

\* a chain out of the tag, with a loop back to it and junctions
Chain == {{0, 1}, {1, 2}, {2, 3}, {3, 4}}
MCShapes == {Chain \cup more : more \in SUBSET {{0, 2}, {0, 4}, {1, 3}}}

\* for the parts that read no drawing
Bare == [types |-> [e \in Others |-> "equipment"], lines |-> Chain, utility |-> {}]

-----------------------------------------------------------------------------
VARIABLE part

Init ==
  /\ part \in {"sign-in", "residency", "knowledge", "sandbox", "routing", "drawing"}
  /\ SignInInit /\ ResidencyInit /\ KnowledgeInit /\ SandboxInit /\ RoutingInit
  /\ part # "residency" => single /\ loaded = {}
  /\ host.enabled => part = "sandbox"
  /\ ~host.enabled => host.platform = "windows" /\ ~host.container
  /\ ~host.container => host.fallback = "refuse"     \* settings this host does not read
  /\ ~Posix => host.namespaces = "auto"
  /\ part # "routing" => \A m \in Registered : weights[m] = "declared"
  /\ \/ part = "drawing" /\ DrawingInit
     \/ part # "drawing" /\ drawing = Bare /\ purpose = "entry" /\ ahead = {1} /\ walk = NoWalk /\ judged = {}

Next ==
  /\ UNCHANGED part
  /\ \/ part = "sign-in" /\ SignInNext
        /\ UNCHANGED <<residencyVars, knowledgeVars, sandboxVars, routingVars, drawingVars>>
     \/ part = "residency" /\ ResidencyNext
        /\ UNCHANGED <<signInVars, knowledgeVars, sandboxVars, routingVars, drawingVars>>
     \/ part = "knowledge" /\ KnowledgeNext
        /\ UNCHANGED <<signInVars, residencyVars, sandboxVars, routingVars, drawingVars>>
     \/ part = "sandbox" /\ SandboxNext
        /\ UNCHANGED <<signInVars, residencyVars, knowledgeVars, routingVars, drawingVars>>
     \/ part = "routing" /\ RoutingNext
        /\ UNCHANGED <<signInVars, residencyVars, knowledgeVars, sandboxVars, drawingVars>>
     \/ part = "drawing" /\ DrawingNext
        /\ UNCHANGED <<signInVars, residencyVars, knowledgeVars, sandboxVars, routingVars>>

Spec == Init /\ [][Next]_<<part, signInVars, residencyVars, knowledgeVars, sandboxVars, routingVars, drawingVars>>

Symmetric == Permutations(People) \cup Permutations(Logins)
=============================================================================
