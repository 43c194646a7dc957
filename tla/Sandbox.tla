------------------------------- MODULE Sandbox -------------------------------
(***************************************************************************)
(* Where generated code runs: the console's routes (api/routes/sandbox.py),*)
(* the execution path of tools/sandbox.py and the probes it trusts         *)
(* (container_sandbox.py, netns.py).                                       *)
(*                                                                         *)
(* A probe starts a confined child and finds that the confinement holds or *)
(* fails.  Its verdict is kept for the life of the process, except that a  *)
(* self-test takes it anew.  Runs read the kept verdicts, some twice.      *)
(* Console requests and self-tests run in threads, an agent's programs one *)
(* at a time on the event loop.  What a program prints, the figures        *)
(* measured of it and the files it leaves are left out.                    *)
(***************************************************************************)
EXTENDS Naturals, FiniteSets

CONSTANTS Testers,         \* users of the console
          Threads,         \* threads of the console's routes
          EventLoop,       \* where agents' tools and the verifier run programs
          MaxGlobal,       \* _MAX_GLOBAL_CONCURRENCY
          MaxPerUser,      \* _MAX_PER_USER_CONCURRENCY
          NoUser

ASSUME SandboxAssumption ==
  /\ MaxGlobal \in Nat /\ MaxPerUser \in Nat
  /\ IsFiniteSet(Threads) /\ EventLoop \notin Threads /\ NoUser \notin Testers

VARIABLES
  host,        \* platform and settings.sandbox
  verdicts,    \* the kept verdict of each probe
  slots,       \* _global_slots
  inProgress,  \* _active_by_user
  execs        \* Threads and EventLoop -> what it is executing

sandboxVars == <<host, verdicts, slots, inProgress, execs>>

Confinements == {"container", "namespace", "job"}

Hosts ==
  [platform : {"linux", "darwin", "windows", "unlimited"}, enabled : BOOLEAN,
   container : BOOLEAN,                           \* runtime is podman or docker
   fallback : {"subprocess", "refuse"}, namespaces : {"auto", "require", "off"}]

(***************************************************************************)
(* why: who asked for it; validated: whether the program passed or must    *)
(* pass the static review; in: the confinement of the child, beside the    *)
(* limits each backend sets; probed: a self-test has taken the probe anew; *)
(* moved (history): a verdict changed since the run, or the test it is of, *)
(* was allowed.                                                            *)
(***************************************************************************)
NoExec == [at |-> "idle", why |-> "none", user |-> NoUser, validated |-> TRUE,
           in |-> {}, probed |-> FALSE, moved |-> FALSE]

ExecAt(t, at) == execs[t].at = at
Move(t, at) == execs' = [execs EXCEPT ![t].at = at]

Posix == host.platform \in {"linux", "darwin"}

\* a probe's answer: the one kept, or what it finds
Answers(v, kind) ==
  IF v[kind] # "unknown" THEN {v} ELSE {[v EXCEPT ![kind] = found] : found \in {"holds", "fails"}}

-----------------------------------------------------------------------------
\* Mutant: an unusable container falls back whatever container_fallback says
SelectionFallingBack(v) ==
  IF ~host.container THEN "subprocess"
  ELSE IF v["container"] = "holds" THEN "container" ELSE "fallback"

Selection(v) ==
  IF ~host.container THEN "subprocess"
  ELSE IF v["container"] = "holds" THEN "container"
  ELSE IF host.fallback = "subprocess" THEN "fallback" ELSE "refused"

Namespaced(v) ==
  host.platform = "linux" /\ host.namespaces # "off" /\ Selection(v) # "container"

ProbeContainer(v) == IF host.container THEN Answers(v, "container") ELSE {v}
ProbeNamespace(v) == IF Namespaced(v) THEN Answers(v, "namespace") ELSE {v}
ProbeJob(v) ==
  IF host.platform = "windows" /\ Selection(v) \in {"subprocess", "fallback"}
  THEN Answers(v, "job") ELSE {v}

\* the verdicts once _container_selection, _network_namespace and the job probe are asked
Consulted ==
  IF ~host.enabled THEN {verdicts} ELSE
  UNION {IF Selection(v) = "refused" THEN {v} ELSE UNION {ProbeJob(w) : w \in ProbeNamespace(v)} :
           v \in ProbeContainer(verdicts)}

ExecutionAllowed(v) ==
  /\ host.enabled
  /\ \/ Selection(v) = "container"
     \/ /\ Selection(v) \in {"subprocess", "fallback"}
        /\ \/ /\ Posix
              /\ host.namespaces = "require" => Namespaced(v) /\ v["namespace"] = "holds"
           \/ host.platform = "windows" /\ v["job"] = "holds"

-----------------------------------------------------------------------------
(***************************************************************************)
(* The console's brakes: a slot of the host, then the user's place.  A     *)
(* request refused before them (size, policy) touches nothing.             *)
(***************************************************************************)
Acquire(t, why, user) ==
  /\ ExecAt(t, "idle") /\ t \in Threads /\ slots > 0
  /\ slots' = slots - 1
  /\ execs' = [execs EXCEPT ![t] = [NoExec EXCEPT !.at = IF why = "console" THEN "slotted" ELSE "opening",
                                                  !.why = why, !.user = user]]
  /\ UNCHANGED <<host, verdicts, inProgress>>

\* Mutant: the second request of a user keeps the slot it was refused with
RefuseKeepingSlot(t) ==
  /\ ExecAt(t, "slotted") /\ inProgress[execs[t].user] >= MaxPerUser
  /\ execs' = [execs EXCEPT ![t] = NoExec]
  /\ UNCHANGED <<host, verdicts, slots, inProgress>>

RefuseUser(t) ==
  /\ ExecAt(t, "slotted") /\ inProgress[execs[t].user] >= MaxPerUser
  /\ Move(t, "releasing")
  /\ UNCHANGED <<host, verdicts, slots, inProgress>>

Enter(t) ==
  /\ ExecAt(t, "slotted") /\ inProgress[execs[t].user] < MaxPerUser
  /\ inProgress' = [inProgress EXCEPT ![execs[t].user] = @ + 1]
  /\ Move(t, "executing")
  /\ UNCHANGED <<host, verdicts, slots>>

LeaveUser(t) ==
  /\ ExecAt(t, "leaving")
  /\ inProgress' = [inProgress EXCEPT ![execs[t].user] = IF @ = 0 THEN 0 ELSE @ - 1]
  /\ Move(t, "releasing")
  /\ UNCHANGED <<host, verdicts, slots>>

Release(t) ==
  /\ ExecAt(t, "releasing")
  /\ slots' = slots + 1 /\ execs' = [execs EXCEPT ![t] = NoExec]
  /\ UNCHANGED <<host, verdicts, inProgress>>

\* a tool call of an agent, or the verifier's recomputation: no brake, one at a time
AgentRuns ==
  /\ ExecAt(EventLoop, "idle")
  /\ execs' = [execs EXCEPT ![EventLoop] = [NoExec EXCEPT !.at = "executing", !.why = "agent"]]
  /\ UNCHANGED <<host, verdicts, slots, inProgress>>

-----------------------------------------------------------------------------
(***************************************************************************)
(* execute_detailed: whether programs may run here, the static review, the *)
(* workspace; then the confinement is selected a second time.              *)
(***************************************************************************)
After(t) == CASE execs[t].why = "console" -> "leaving"
              [] execs[t].why = "test"    -> "testing"
              [] OTHER                    -> "idle"

Finish(t) ==
  execs' = [execs EXCEPT ![t] = IF After(t) = "idle" THEN NoExec
                                ELSE [@ EXCEPT !.at = After(t), !.validated = TRUE, !.in = {}]]

\* StaticValidator: any program may pass or not; a self-test sends some around it
Reviews(t) == IF execs[t].validated THEN BOOLEAN ELSE {TRUE}

Check(t) ==
  /\ ExecAt(t, "executing")
  /\ verdicts' \in Consulted
  /\ \E passes \in Reviews(t) :
       IF ExecutionAllowed(verdicts') /\ passes
       THEN execs' =
              [execs EXCEPT ![t].at = "prepared", ![t].moved = @ /\ execs[t].why = "test"] ELSE Finish(t)
  /\ UNCHANGED <<host, slots, inProgress>>

Start(t, in) == execs' = [execs EXCEPT ![t].at = "running", ![t].in = in]

RunContainer(t) ==
  /\ ExecAt(t, "prepared") /\ Selection(verdicts) = "container"
  /\ Start(t, {"container"}) \/ Finish(t)
  /\ UNCHANGED <<host, verdicts, slots, inProgress>>

\* a child not assigned to its job is killed before it is released
RunWindows(t) ==
  /\ ExecAt(t, "prepared") /\ Selection(verdicts) # "container" /\ ~Posix
  /\ Start(t, {"job"}) \/ Finish(t)
  /\ UNCHANGED <<host, verdicts, slots, inProgress>>

Select(t) ==
  /\ ExecAt(t, "prepared") /\ Selection(verdicts) # "container" /\ Posix
  /\ Move(t, "selected")
  /\ UNCHANGED <<host, verdicts, slots, inProgress>>

\* a namespace the probe found usable may still be refused by the system: nothing runs then
RunPosix(t) ==
  /\ ExecAt(t, "selected")
  /\ verdicts' \in ProbeNamespace(verdicts)
  /\ IF Namespaced(verdicts') /\ verdicts'["namespace"] = "holds"
     THEN Start(t, {"namespace"}) \/ Finish(t)
     ELSE Start(t, {})
  /\ UNCHANGED <<host, slots, inProgress>>

\* The child exits, breaks a limit and is ended, or its time is over and it is killed.
Ends(t) ==
  /\ ExecAt(t, "running") /\ Finish(t)
  /\ UNCHANGED <<host, verdicts, slots, inProgress>>

ContainerEnds(t) == execs[t].in = {"container"} /\ Ends(t)
PosixEnds(t)     == Posix /\ execs[t].in \in {{}, {"namespace"}} /\ Ends(t)
JobEnds(t)       == execs[t].in = {"job"} /\ Ends(t)

-----------------------------------------------------------------------------
(***************************************************************************)
(* self_test_report: payloads with and without the review, then the probe  *)
(* of the confinement in use taken anew, then the limits' payloads.  On    *)
(* Windows those go straight into jobs of their own.                       *)
(***************************************************************************)
OpenTest(t) ==
  /\ ExecAt(t, "opening")
  /\ verdicts' \in Consulted
  /\ Move(t, IF ExecutionAllowed(verdicts') THEN "testing" ELSE "releasing")
  /\ UNCHANGED <<host, slots, inProgress>>

TestRuns(t, reviewed) ==
  /\ ExecAt(t, "testing")
  /\ execs' = [execs EXCEPT ![t].at = "executing", ![t].validated = reviewed]
  /\ UNCHANGED <<host, verdicts, slots, inProgress>>

Allowed(t) == execs[t].at \in {"prepared", "selected"} \/ (execs[t].why = "test" /\ ~ExecAt(t, "opening"))

Reprobed(t, kind, found, then) ==
  /\ ExecAt(t, "testing") /\ ~execs[t].probed
  /\ verdicts' = [verdicts EXCEPT ![kind] = found]
  /\ execs' = [u \in DOMAIN execs |->
       IF u = t THEN [execs[u] EXCEPT !.probed = TRUE, !.at = then]
       ELSE [execs[u] EXCEPT !.moved = @ \/ (Allowed(u) /\ found # verdicts[kind])]]
  /\ UNCHANGED <<host, slots, inProgress>>

\* an unusable container ends the test
TestContainer(t, found) ==
  /\ Selection(verdicts) = "container"
  /\ Reprobed(t, "container", found, IF found = "fails" THEN "releasing" ELSE "testing")

TestNamespace(t, found) ==
  /\ Selection(verdicts) # "container" /\ Namespaced(verdicts)
  /\ Reprobed(t, "namespace", found, "testing")

TestJob(t) ==
  /\ ExecAt(t, "testing") /\ Selection(verdicts) # "container" /\ host.platform = "windows"
  /\ execs' = [execs EXCEPT ![t].at = "running", ![t].validated = FALSE, ![t].in = {"job"}]
  /\ UNCHANGED <<host, verdicts, slots, inProgress>>

CloseTest(t) ==
  /\ ExecAt(t, "testing") /\ Move(t, "releasing")
  /\ UNCHANGED <<host, verdicts, slots, inProgress>>

-----------------------------------------------------------------------------
\* a configured container runtime is probed as the service starts
SandboxInit ==
  /\ host \in Hosts
  /\ verdicts \in [Confinements -> {"unknown", "holds", "fails"}]
  /\ \A kind \in Confinements : (verdicts[kind] # "unknown") <=> (kind = "container" /\ host.container)
  /\ slots = MaxGlobal
  /\ inProgress = [u \in Testers |-> 0]
  /\ execs = [t \in Threads \cup {EventLoop} |-> NoExec]

SandboxNext ==
  \/ \E t \in Threads, user \in Testers : Acquire(t, "console", user) \/ Acquire(t, "test", user)
  \/ \E t \in Threads : \/ RefuseUser(t) \/ Enter(t) \/ LeaveUser(t) \/ Release(t)
                        \/ OpenTest(t) \/ TestJob(t) \/ CloseTest(t)
                        \/ \E reviewed \in BOOLEAN : TestRuns(t, reviewed)
                        \/ \E found \in {"holds", "fails"} : TestContainer(t, found) \/ TestNamespace(t, found)
  \/ \E t \in Threads \cup {EventLoop} :
       \/ Check(t) \/ Select(t) \/ RunContainer(t) \/ RunWindows(t) \/ RunPosix(t)
       \/ ContainerEnds(t) \/ PosixEnds(t) \/ JobEnds(t)
  \/ AgentRuns

SandboxSpec == SandboxInit /\ [][SandboxNext]_sandboxVars

-----------------------------------------------------------------------------
(***************************************************************************)
(* The brakes hold and are always let go: the programs of the console and  *)
(* of self-tests never outnumber the slots, a user has one at a time, and  *)
(* no slot or place stays taken by a request that is over (the `finally`   *)
(* of sandbox_execute and run_self_test).                                  *)
(***************************************************************************)
Running == {t \in DOMAIN execs : ExecAt(t, "running")}
OfUser(user) == {t \in Threads : execs[t].why = "console" /\ execs[t].user = user}

BrakesHold ==
  /\ Cardinality(Running \cap Threads) <= MaxGlobal
  /\ \A user \in Testers : Cardinality(Running \cap OfUser(user)) <= MaxPerUser
  /\ slots + Cardinality({t \in Threads : ~ExecAt(t, "idle")}) = MaxGlobal
  /\ \A user \in Testers :
       inProgress[user] = Cardinality({t \in OfUser(user) : execs[t].at \notin {"slotted", "releasing"}})

\* What the settings promise of a child: container_fallback and network_namespace.
Demanded(t) ==
  /\ host.enabled
  /\ host.container /\ host.fallback = "refuse" => "container" \in execs[t].in
  /\ Posix /\ host.namespaces = "require" => execs[t].in \cap {"container", "namespace"} # {}
  /\ ~Posix => execs[t].in # {}

(***************************************************************************)
(* A program runs inside what the settings demand, unless a probe changed  *)
(* its verdict between the check and the selection.                        *)
(***************************************************************************)
ConfinedAsChecked == \A t \in Running : execs[t].moved \/ Demanded(t)

(***************************************************************************)
(* "Execution is refused rather than run without container isolation", or  *)
(* on the host's network stack (execution_allowed): a self-test's probe    *)
(* that fails between the check and the selection breaks this.             *)
(***************************************************************************)
ConfinedAsDemanded == \A t \in Running : Demanded(t)
=============================================================================
