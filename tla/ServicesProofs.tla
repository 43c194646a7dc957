--------------------------- MODULE ServicesProofs ----------------------------
(***************************************************************************)
(* The services a run is served by, for every number of accounts, callers, *)
(* models and threads: which model is in memory (ModelResidency), what     *)
(* runs in the sandbox and how confined (Sandbox), whose sessions stand    *)
(* (SignIn), which model a stage calls (ModelRouting), which revision of a *)
(* document is in force (KnowledgeRevisions), and whether an isolation     *)
(* isolates, on a drawing of any size (Drawing).                           *)
(***************************************************************************)
EXTENDS SignIn, ModelResidency, KnowledgeRevisions, Sandbox, ModelRouting, Drawing,
        FiniteSetTheorems, SequenceTheorems, WellFoundedInduction, TLAPS

-----------------------------------------------------------------------------
(***************************************************************************)
(* ModelResidency.  While nobody holds the manager's lock the property     *)
(* says it all of what is loaded; it survives a change of the resident     *)
(* model because every caller that was admitted asks for a model that is   *)
(* resident or on record, and it survives a start because what is left to  *)
(* clear is still accounted for by the task that clears it.                *)
(***************************************************************************)
UsePoints == {"idle", "asking", "evicting", "admitted", "calling", "starting", "clearing", "warming"}
UseRows   == [at : UsePoints, model : Models \cup {None}, surplus : SUBSET Models]

ResidencyTypeOK ==
  /\ running \in BOOLEAN /\ single \in BOOLEAN
  /\ resident \in Models \cup {None} /\ holder \in Callers \cup {None}
  /\ loaded \subseteq Models /\ known \subseteq Models
  /\ uses \in [Callers -> UseRows]

LockIsHeld == \A c \in Callers : (holder = c) <=> (uses[c].at \in {"evicting", "clearing"})

\* what a call is at says what it is for
CallsMakeSense ==
  \A c \in Callers :
    /\ uses[c].at = "evicting" => resident # None
    /\ uses[c].at \in {"starting", "clearing", "warming"} => c = Starter
    /\ uses[c].at \in {"asking", "evicting", "admitted", "calling"} => uses[c].model \in Models

StoppedIsEmpty == ~ running => uses = NoUses /\ resident = None

Surplus == IF uses[Starter].at = "clearing" THEN uses[Starter].surplus ELSE {}

LoadedAccounted == loaded \subseteq {resident} \cup known \cup Surplus

AdmittedAccounted ==
  \A c \in Callers : uses[c].at \in {"admitted", "calling"} => uses[c].model \in {resident} \cup known

Accounted == running /\ single => LoadedAccounted /\ AdmittedAccounted

ResidencyInv == ResidencyTypeOK /\ LockIsHeld /\ CallsMakeSense /\ StoppedIsEmpty /\ Accounted

LEMMA NoUseRow == NoUse \in UseRows /\ NoUse.at = "idle" /\ NoUses \in [Callers -> UseRows]
BY DEF NoUse, UseRows, UsePoints, NoUses

\* A caller moves on: of its use only where it is changes.
LEMMA GoesOn ==
  ASSUME ResidencyTypeOK, NEW c \in Callers, NEW s \in UsePoints, Go(c, s)
  PROVE  /\ uses' \in [Callers -> UseRows]
         /\ uses'[c].at = s /\ uses'[c].model = uses[c].model /\ uses'[c].surplus = uses[c].surplus
         /\ \A d \in Callers \ {c} : uses'[d] = uses[d]
<1>1. uses \in [Callers -> UseRows] /\ uses' = [uses EXCEPT ![c].at = s]
  BY DEF ResidencyTypeOK, Go
<1>2. uses'[c] = [uses[c] EXCEPT !.at = s] /\ \A d \in Callers \ {c} : uses'[d] = uses[d]
  BY <1>1
<1>3. uses[c] \in UseRows
  BY <1>1
<1>4. uses'[c] \in UseRows /\ uses'[c].at = s /\ uses'[c].model = uses[c].model
      /\ uses'[c].surplus = uses[c].surplus
  BY <1>2, <1>3 DEF UseRows
<1> QED  BY <1>1, <1>2, <1>4

\* A caller begins, or is done with, a use.
LEMMA Turns ==
  ASSUME ResidencyTypeOK, NEW c \in Callers, NEW r \in UseRows, uses' = [uses EXCEPT ![c] = r]
  PROVE  /\ uses' \in [Callers -> UseRows] /\ uses'[c] = r
         /\ \A d \in Callers \ {c} : uses'[d] = uses[d]
BY DEF ResidencyTypeOK

LEMMA OvertakenModels ==
  ASSUME ResidencyInv, NEW c
  PROVE  Overtaken(c) \subseteq Models
BY DEF ResidencyInv, CallsMakeSense, Overtaken, Callers

LEMMA ResidencyStarts == ResidencyInit => ResidencyInv
<1> SUFFICES ASSUME ResidencyInit PROVE ResidencyInv
  OBVIOUS
<1>1. \A c \in Callers : uses[c] = NoUse
  BY DEF ResidencyInit, NoUses
<1>2. ResidencyTypeOK
  BY NoUseRow DEF ResidencyInit, ResidencyTypeOK
<1>3. LockIsHeld
  BY <1>1, NoUseRow, ModelResidencyAssumption DEF ResidencyInit, LockIsHeld, Callers
<1>4. CallsMakeSense
  BY <1>1, NoUseRow DEF CallsMakeSense
<1> QED  BY <1>2, <1>3, <1>4 DEF ResidencyInit, ResidencyInv, StoppedIsEmpty, Accounted

\* What is asked of one caller's use, when it is not the starter's clearing.
UseIsSound(c, r) ==
  /\ r \in UseRows
  /\ (r.at = "evicting") => (resident # None)
  /\ (r.at \in {"starting", "clearing", "warming"}) => (c = Starter)
  /\ (r.at \in {"asking", "evicting", "admitted", "calling"}) => (r.model \in Models)

\* A caller that neither takes nor lets go of the lock, and is not admitted by its step, keeps
\* the invariant: nothing but its use changes, and it comes to or goes from no loaded model.
LEMMA QuietSteps ==
  ASSUME ResidencyInv, NEW c \in Callers, running,
         UNCHANGED <<running, single, resident, holder, loaded, known>>,
         uses' \in [Callers -> UseRows],
         \A d \in Callers \ {c} : uses'[d] = uses[d],
         UseIsSound(c, uses'[c]),
         (uses'[c].at \in {"evicting", "clearing"}) <=> (uses[c].at \in {"evicting", "clearing"}),
         (uses'[c].at = "clearing") <=> (uses[c].at = "clearing"),
         uses'[c].at = "clearing" => uses'[c].surplus = uses[c].surplus,
         uses'[c].at \in {"admitted", "calling"} =>
           \/ uses[c].at = "admitted" /\ uses'[c].model = uses[c].model
           \/ uses'[c].model = resident
  PROVE  ResidencyInv'
<1>1. ResidencyTypeOK'
  BY DEF ResidencyInv, ResidencyTypeOK
<1>2. LockIsHeld'
  BY DEF ResidencyInv, LockIsHeld
<1>3. CallsMakeSense'
  BY DEF ResidencyInv, CallsMakeSense, UseIsSound
<1>4. Surplus' = Surplus
  <2>1. CASE c = Starter
    BY <2>1 DEF Surplus
  <2>2. CASE c # Starter
    BY <2>2 DEF Surplus, Callers
  <2> QED  BY <2>1, <2>2
<1>5. single => AdmittedAccounted'
  BY DEF ResidencyInv, Accounted, AdmittedAccounted
<1>6. Accounted'
  BY <1>4, <1>5 DEF ResidencyInv, Accounted, LoadedAccounted
<1> QED  BY <1>1, <1>2, <1>3, <1>6 DEF ResidencyInv, StoppedIsEmpty

LEMMA AskForKeeps ==
  ASSUME ResidencyInv, NEW c \in Workers, NEW m \in Models, AskFor(c, m)
  PROVE  ResidencyInv'
<1> DEFINE r == [at |-> "asking", model |-> m, surplus |-> {}]
<1>1. r \in UseRows /\ r.at = "asking" /\ r.model = m
  BY DEF UseRows, UsePoints
<1>2. uses' = [uses EXCEPT ![c] = r] /\ running /\ uses[c].at = "idle" /\ c \in Callers
  BY DEF AskFor, At, Callers
<1> HIDE DEF r
<1>3. uses' \in [Callers -> UseRows] /\ uses'[c] = r /\ \A d \in Callers \ {c} : uses'[d] = uses[d]
  BY <1>1, <1>2, Turns DEF ResidencyInv
<1> QED
  BY <1>1, <1>2, <1>3, QuietSteps DEF AskFor, UseIsSound

LEMMA WithdrawKeeps ==
  ASSUME ResidencyInv, NEW c \in Callers, Withdraw(c) \/ Return(c)
  PROVE  ResidencyInv'
<1>1. uses' = [uses EXCEPT ![c] = NoUse] /\ running /\ uses[c].at \in {"admitted", "calling"}
  BY DEF Withdraw, Return, At
<1>2. uses' \in [Callers -> UseRows] /\ uses'[c] = NoUse /\ \A d \in Callers \ {c} : uses'[d] = uses[d]
  BY <1>1, NoUseRow, Turns DEF ResidencyInv
<1> QED
  BY <1>1, <1>2, NoUseRow, QuietSteps DEF Withdraw, Return, UseIsSound

LEMMA AdmitResidentKeeps ==
  ASSUME ResidencyInv, NEW c \in Callers, AdmitResident(c)
  PROVE  ResidencyInv'
<1>1. Go(c, "admitted") /\ running /\ uses[c].at = "asking" /\ uses[c].model = resident
  BY DEF AdmitResident, At
<1>2. /\ uses' \in [Callers -> UseRows] /\ uses'[c].at = "admitted" /\ uses'[c].model = resident
      /\ \A d \in Callers \ {c} : uses'[d] = uses[d]
  BY <1>1, GoesOn DEF ResidencyInv, UsePoints
<1>3. UseIsSound(c, uses'[c])
  BY <1>1, <1>2 DEF UseIsSound, ResidencyInv, CallsMakeSense
<1> QED
  BY <1>1, <1>2, <1>3, QuietSteps DEF AdmitResident

LEMMA PrewarmKeeps ==
  ASSUME ResidencyInv, Prewarm
  PROVE  ResidencyInv'
<1> DEFINE asks == [at |-> "asking", model |-> Drafting, surplus |-> {}]
<1>1. asks \in UseRows /\ asks.at = "asking" /\ asks.model = Drafting
  BY ModelResidencyAssumption DEF UseRows, UsePoints
<1>2. /\ uses' = [uses EXCEPT ![Starter] = asks] \/ uses' = [uses EXCEPT ![Starter] = NoUse]
      /\ running /\ uses[Starter].at = "warming" /\ Starter \in Callers
  BY DEF Prewarm, At, Callers
<1> HIDE DEF asks
<1>3. /\ uses' \in [Callers -> UseRows] /\ uses'[Starter] \in {asks, NoUse}
      /\ \A d \in Callers \ {Starter} : uses'[d] = uses[d]
  BY <1>1, <1>2, NoUseRow, Turns DEF ResidencyInv
<1>4. UseIsSound(Starter, uses'[Starter]) /\ uses'[Starter].at \in {"asking", "idle"}
  BY <1>1, <1>3, NoUseRow, ModelResidencyAssumption DEF UseIsSound
<1> QED
  BY <1>2, <1>3, <1>4, QuietSteps DEF Prewarm

LEMMA CallKeeps ==
  ASSUME ResidencyInv, NEW c \in Callers, Call(c)
  PROVE  ResidencyInv'
<1>1. Go(c, "calling") /\ running /\ uses[c].at = "admitted" /\ uses[c].model \in Models
  BY DEF Call, At, ResidencyInv, CallsMakeSense
<1>2. /\ uses' \in [Callers -> UseRows] /\ uses'[c].at = "calling" /\ uses'[c].model = uses[c].model
      /\ \A d \in Callers \ {c} : uses'[d] = uses[d]
  BY <1>1, GoesOn DEF ResidencyInv, UsePoints
<1>3. ResidencyTypeOK'
  BY <1>1, <1>2 DEF Call, ResidencyInv, ResidencyTypeOK
<1>4. LockIsHeld'
  BY <1>1, <1>2 DEF Call, ResidencyInv, LockIsHeld
<1>5. CallsMakeSense'
  BY <1>1, <1>2 DEF Call, ResidencyInv, CallsMakeSense
<1>6. Surplus' = Surplus
  <2>1. c = Starter \/ (uses'[Starter] = uses[Starter])
    BY <1>2 DEF Callers
  <2> QED  BY <1>1, <1>2, <2>1 DEF Surplus
<1>7. single => LoadedAccounted' /\ AdmittedAccounted'
  <2> SUFFICES ASSUME single PROVE LoadedAccounted' /\ AdmittedAccounted'
    OBVIOUS
  <2>1. LoadedAccounted /\ AdmittedAccounted
    BY <1>1 DEF ResidencyInv, Accounted
  <2>2. uses[c].model \in {resident} \cup known
    BY <1>1, <2>1 DEF AdmittedAccounted
  <2>3. LoadedAccounted'
    BY <1>6, <2>1, <2>2 DEF Call, LoadedAccounted
  <2>4. AdmittedAccounted'
    BY <1>2, <2>1, <2>2 DEF Call, AdmittedAccounted
  <2> QED  BY <2>3, <2>4
<1> QED  BY <1>1, <1>3, <1>4, <1>5, <1>7 DEF Call, ResidencyInv, Accounted, StoppedIsEmpty

\* c becomes the resident model's caller: whoever was admitted before is on record.
LEMMA AdmitKeeps ==
  ASSUME ResidencyInv, NEW c \in Callers, Admit(c)
  PROVE  ResidencyInv'
<1> DEFINE m == uses[c].model
<1>1. running /\ uses[c].at = "asking" /\ holder = None /\ m \in Models /\ resident # m
  BY DEF Admit, At, ResidencyInv, CallsMakeSense
<1>2. PICK fits \in BOOLEAN :
        IF MustEvict(fits)
        THEN holder' = c /\ Go(c, "evicting") /\ UNCHANGED <<resident, known>>
        ELSE Record(c, m) /\ Go(c, "admitted") /\ UNCHANGED holder
  BY DEF Admit
<1>3. UNCHANGED <<running, single, loaded>> /\ None \notin Models /\ None \notin Callers
  BY ModelResidencyAssumption DEF Admit, Callers
<1> HIDE DEF m
<1>4. CASE MustEvict(fits)
  <2>1. /\ uses' \in [Callers -> UseRows] /\ uses'[c].at = "evicting" /\ uses'[c].model = m
        /\ \A d \in Callers \ {c} : uses'[d] = uses[d]
    BY <1>2, <1>4, GoesOn DEF ResidencyInv, UsePoints, m
  <2>2. holder' = c /\ UNCHANGED <<resident, known>> /\ resident # None
    BY <1>2, <1>4 DEF MustEvict
  <2>3. ResidencyTypeOK'
    BY <1>3, <2>1, <2>2 DEF ResidencyInv, ResidencyTypeOK
  <2>4. LockIsHeld'
    BY <1>1, <1>3, <2>1, <2>2 DEF ResidencyInv, LockIsHeld
  <2>5. CallsMakeSense'
    BY <1>1, <2>1, <2>2 DEF ResidencyInv, CallsMakeSense
  <2>6. Surplus' = Surplus
    <3>1. c = Starter \/ uses'[Starter] = uses[Starter]
      BY <2>1 DEF Callers
    <3> QED  BY <1>1, <2>1, <3>1 DEF Surplus
  <2>7. Accounted'
    BY <1>3, <2>1, <2>2, <2>6 DEF ResidencyInv, Accounted, LoadedAccounted, AdmittedAccounted
  <2> QED  BY <1>1, <1>3, <2>3, <2>4, <2>5, <2>7 DEF ResidencyInv, StoppedIsEmpty
<1>5. CASE ~ MustEvict(fits)
  <2>1. /\ uses' \in [Callers -> UseRows] /\ uses'[c].at = "admitted" /\ uses'[c].model = m
        /\ \A d \in Callers \ {c} : uses'[d] = uses[d]
    BY <1>2, <1>5, GoesOn DEF ResidencyInv, UsePoints, m
  <2>2. holder' = holder /\ resident' = m /\ known' = (known \cup Overtaken(c)) \ {m}
    BY <1>2, <1>5 DEF Record
  <2>3. single => resident = None
    BY <1>5 DEF MustEvict
  <2>4. ResidencyTypeOK'
    BY <1>1, <1>3, <2>1, <2>2, OvertakenModels DEF ResidencyInv, ResidencyTypeOK
  <2>5. LockIsHeld'
    BY <1>1, <1>3, <2>1, <2>2 DEF ResidencyInv, LockIsHeld
  <2>6. CallsMakeSense'
    BY <1>1, <1>3, <2>1, <2>2 DEF ResidencyInv, CallsMakeSense
  <2>7. Surplus' = Surplus
    <3>1. c = Starter \/ uses'[Starter] = uses[Starter]
      BY <2>1 DEF Callers
    <3> QED  BY <1>1, <2>1, <3>1 DEF Surplus
  <2>8. single => LoadedAccounted'
    BY <1>1, <1>3, <2>2, <2>3, <2>7 DEF ResidencyInv, Accounted, LoadedAccounted, ResidencyTypeOK
  <2>9. AdmittedAccounted'
    BY <2>1, <2>2 DEF AdmittedAccounted, Overtaken
  <2> QED  BY <1>1, <1>3, <2>4, <2>5, <2>6, <2>8, <2>9 DEF ResidencyInv, Accounted, StoppedIsEmpty
<1> QED  BY <1>4, <1>5

LEMMA EvictKeeps ==
  ASSUME ResidencyInv, NEW c \in Callers, NEW released \in BOOLEAN, Evict(c, released)
  PROVE  ResidencyInv'
<1> DEFINE m == uses[c].model
<1>1. running /\ uses[c].at = "evicting" /\ m \in Models /\ resident \in Models /\ holder = c
  BY DEF Evict, At, ResidencyInv, CallsMakeSense, LockIsHeld, ResidencyTypeOK
<1>2. /\ uses' \in [Callers -> UseRows] /\ uses'[c].at = "admitted" /\ uses'[c].model = m
      /\ \A d \in Callers \ {c} : uses'[d] = uses[d]
  BY GoesOn DEF Evict, ResidencyInv, UsePoints
<1>3. /\ UNCHANGED <<running, single>> /\ holder' = None /\ resident' = m
      /\ known' = (known \cup Overtaken(c) \cup Leaves(resident, released)) \ {m}
      /\ loaded' = IF released THEN loaded \ {resident} ELSE loaded
  BY DEF Evict, Unload
<1>4. Leaves(resident, released) = IF released THEN {} ELSE {resident}
  BY DEF Leaves
<1>5. None \notin Models /\ None \notin Callers
  BY ModelResidencyAssumption DEF Callers
<1> HIDE DEF m
<1>6. ResidencyTypeOK'
  BY <1>1, <1>2, <1>3, <1>4, OvertakenModels DEF ResidencyInv, ResidencyTypeOK
<1>7. \A d \in Callers \ {c} : uses[d].at \notin {"evicting", "clearing"}
  BY <1>1 DEF ResidencyInv, LockIsHeld
<1>8. LockIsHeld'
  BY <1>2, <1>3, <1>5, <1>7 DEF LockIsHeld
<1>9. CallsMakeSense'
  BY <1>1, <1>2, <1>3, <1>5 DEF ResidencyInv, CallsMakeSense
<1>10. Surplus = {} /\ Surplus' = {}
  <2>1. c = Starter \/ uses'[Starter] = uses[Starter]
    BY <1>2 DEF Callers
  <2>2. c = Starter \/ uses[Starter].at # "clearing"
    BY <1>7 DEF Callers
  <2> QED  BY <1>1, <1>2, <2>1, <2>2 DEF Surplus
<1>11. single => LoadedAccounted'
  BY <1>1, <1>3, <1>4, <1>10 DEF ResidencyInv, Accounted, LoadedAccounted
<1>12. AdmittedAccounted'
  BY <1>2, <1>3 DEF AdmittedAccounted, Overtaken
<1> QED
  BY <1>1, <1>3, <1>6, <1>8, <1>9, <1>11, <1>12 DEF ResidencyInv, Accounted, StoppedIsEmpty

\* keep_alive runs out: what is still admitted for the model keeps it on record.
LEMMA ExpireKeeps ==
  ASSUME ResidencyInv, NEW m \in Models, Expire(m)
  PROVE  ResidencyInv'
<1>1. /\ UNCHANGED <<running, single, resident, holder, uses>>
      /\ loaded' = loaded \ {m} /\ known' = known \ ({m} \ Overtaken(None))
  BY DEF Expire
<1>2. Surplus' = Surplus
  BY <1>1 DEF Surplus
<1>3. \A c \in Callers : uses[c].at \in {"admitted", "calling"} => uses[c].model \in Overtaken(None)
  BY ModelResidencyAssumption DEF Overtaken, Callers
<1>4. ResidencyTypeOK' /\ LockIsHeld' /\ CallsMakeSense' /\ StoppedIsEmpty'
  BY <1>1 DEF ResidencyInv, ResidencyTypeOK, LockIsHeld, CallsMakeSense, StoppedIsEmpty
<1>5. Accounted'
  BY <1>1, <1>2, <1>3 DEF ResidencyInv, Accounted, LoadedAccounted, AdmittedAccounted
<1> QED  BY <1>4, <1>5 DEF ResidencyInv

LEMMA ReconcileKeeps ==
  ASSUME ResidencyInv, Reconcile
  PROVE  ResidencyInv'
<1>1. /\ running /\ uses[Starter].at = "starting" /\ holder = None /\ Starter \in Callers
      /\ UNCHANGED <<running, single, loaded>>
  BY DEF Reconcile, At, Callers
<1>2. CASE Go(Starter, "warming") /\ UNCHANGED <<resident, holder>>
           /\ (known' = known \/ (loaded = {} /\ known' = known \cap Overtaken(Starter)))
  <2>1. /\ uses' \in [Callers -> UseRows] /\ uses'[Starter].at = "warming"
        /\ \A d \in Callers \ {Starter} : uses'[d] = uses[d]
    BY <1>1, <1>2, GoesOn DEF ResidencyInv, UsePoints
  <2>2. ResidencyTypeOK'
    BY <1>1, <1>2, <2>1 DEF ResidencyInv, ResidencyTypeOK
  <2>3. LockIsHeld'
    BY <1>1, <1>2, <2>1 DEF ResidencyInv, LockIsHeld
  <2>4. CallsMakeSense'
    BY <1>1, <1>2, <2>1 DEF ResidencyInv, CallsMakeSense
  <2>5. Surplus' = {} /\ Surplus = {}
    BY <1>1, <2>1 DEF Surplus
  <2>6. single => LoadedAccounted'
    BY <1>1, <1>2, <2>5 DEF ResidencyInv, Accounted, LoadedAccounted
  <2>7. single => AdmittedAccounted'
    BY <1>1, <1>2, <2>1 DEF ResidencyInv, Accounted, AdmittedAccounted, Overtaken
  <2> QED
    BY <1>1, <2>2, <2>3, <2>4, <2>6, <2>7 DEF ResidencyInv, Accounted, StoppedIsEmpty
<1>3. ASSUME NEW m \in Chosen, NEW others, others = (IF single THEN loaded \ {m} ELSE {}),
             resident' = m, known' = Overtaken(Starter) \ {m}, holder' = Starter,
             uses' = [uses EXCEPT ![Starter] = [at |-> "clearing", model |-> None, surplus |-> others]]
      PROVE  ResidencyInv'
  <2> DEFINE r == [at |-> "clearing", model |-> None, surplus |-> others]
  <2>1. m \in loaded /\ m \in Models /\ others \subseteq Models
    BY <1>3, ModelResidencyAssumption DEF Chosen, ResidencyInv, ResidencyTypeOK
  <2>2. r \in UseRows /\ r.at = "clearing" /\ r.surplus = others
    BY <2>1 DEF UseRows, UsePoints
  <2>3. uses' = [uses EXCEPT ![Starter] = r]
    BY <1>3
  <2> HIDE DEF r
  <2>4. /\ uses' \in [Callers -> UseRows] /\ uses'[Starter] = r
        /\ \A d \in Callers \ {Starter} : uses'[d] = uses[d]
    BY <1>1, <2>2, <2>3, Turns DEF ResidencyInv
  <2>5. ResidencyTypeOK'
    BY <1>1, <1>3, <2>1, <2>4, OvertakenModels DEF ResidencyInv, ResidencyTypeOK
  <2>6. LockIsHeld'
    BY <1>1, <1>3, <2>2, <2>4, ModelResidencyAssumption DEF ResidencyInv, LockIsHeld, Callers
  <2>7. CallsMakeSense'
    BY <1>1, <1>3, <2>2, <2>4, ModelResidencyAssumption DEF ResidencyInv, CallsMakeSense, LockIsHeld, Callers
  <2>8. single => LoadedAccounted'
    BY <1>1, <1>3, <2>2, <2>4 DEF LoadedAccounted, Surplus
  <2>9. AdmittedAccounted'
    BY <1>3, <2>2, <2>4 DEF AdmittedAccounted, Overtaken
  <2> QED
    BY <1>1, <2>5, <2>6, <2>7, <2>8, <2>9 DEF ResidencyInv, Accounted, StoppedIsEmpty
<1> QED  BY <1>2, <1>3 DEF Reconcile

LEMMA ClearOneKeeps ==
  ASSUME ResidencyInv, NEW m \in Models, NEW released \in BOOLEAN, ClearOne(m, released)
  PROVE  ResidencyInv'
<1>1. /\ running /\ uses[Starter].at = "clearing" /\ Starter \in Callers
      /\ UNCHANGED <<running, single, resident, holder>>
      /\ known' = known \cup Leaves(m, released)
      /\ loaded' = IF released THEN loaded \ {m} ELSE loaded
  BY DEF ClearOne, At, Callers, Unload
<1>2. Leaves(m, released) = IF released THEN {} ELSE {m}
  BY DEF Leaves
<1>3. uses \in [Callers -> UseRows]
      /\ uses' = [uses EXCEPT ![Starter].surplus = uses[Starter].surplus \ {m}]
  BY DEF ClearOne, ResidencyInv, ResidencyTypeOK
<1>4. /\ uses'[Starter] = [uses[Starter] EXCEPT !.surplus = uses[Starter].surplus \ {m}]
      /\ \A d \in Callers \ {Starter} : uses'[d] = uses[d]
      /\ uses[Starter] \in UseRows
  BY <1>1, <1>3
<1>5. /\ uses'[Starter] \in UseRows /\ uses'[Starter].at = "clearing"
      /\ uses'[Starter].surplus = uses[Starter].surplus \ {m}
  BY <1>1, <1>4 DEF UseRows
<1>6. uses' \in [Callers -> UseRows]
  BY <1>3, <1>4, <1>5
<1>7. ResidencyTypeOK'
  BY <1>1, <1>2, <1>6 DEF ResidencyInv, ResidencyTypeOK
<1>8. LockIsHeld'
  BY <1>1, <1>4, <1>5 DEF ResidencyInv, LockIsHeld
<1>9. CallsMakeSense'
  BY <1>1, <1>4, <1>5 DEF ResidencyInv, CallsMakeSense
<1>10. single => LoadedAccounted'
  BY <1>1, <1>2, <1>5 DEF ResidencyInv, Accounted, LoadedAccounted, Surplus
<1>11. single => AdmittedAccounted'
  BY <1>1, <1>4, <1>5 DEF ResidencyInv, Accounted, AdmittedAccounted
<1> QED
  BY <1>1, <1>7, <1>8, <1>9, <1>10, <1>11 DEF ResidencyInv, Accounted, StoppedIsEmpty

LEMMA ReconciledKeeps ==
  ASSUME ResidencyInv, Reconciled
  PROVE  ResidencyInv'
<1>1. /\ running /\ uses[Starter].at = "clearing" /\ uses[Starter].surplus = {} /\ holder' = None
      /\ Starter \in Callers /\ UNCHANGED <<running, single, resident, loaded, known>>
  BY DEF Reconciled, At, Callers
<1>2. /\ uses' \in [Callers -> UseRows] /\ uses'[Starter].at = "warming"
      /\ \A d \in Callers \ {Starter} : uses'[d] = uses[d]
  BY <1>1, GoesOn DEF Reconciled, ResidencyInv, UsePoints
<1>3. ResidencyTypeOK'
  BY <1>1, <1>2 DEF ResidencyInv, ResidencyTypeOK
<1>4. LockIsHeld'
  BY <1>1, <1>2, ModelResidencyAssumption DEF ResidencyInv, LockIsHeld, Callers
<1>5. CallsMakeSense'
  BY <1>1, <1>2 DEF ResidencyInv, CallsMakeSense
<1>6. single => LoadedAccounted'
  BY <1>1, <1>2 DEF ResidencyInv, Accounted, LoadedAccounted, Surplus
<1>7. single => AdmittedAccounted'
  BY <1>1, <1>2 DEF ResidencyInv, Accounted, AdmittedAccounted
<1> QED
  BY <1>1, <1>3, <1>4, <1>5, <1>6, <1>7 DEF ResidencyInv, Accounted, StoppedIsEmpty

LEMMA StopKeeps ==
  ASSUME ResidencyInv, Stop
  PROVE  ResidencyInv'
<1>1. /\ ~ running' /\ single' = single /\ resident' = None /\ holder' = None /\ uses' = NoUses
      /\ loaded' \subseteq loaded /\ known' = {}
  BY DEF Stop, Unload
<1>2. \A c \in Callers : uses'[c].at = "idle"
  BY <1>1, NoUseRow DEF NoUses
<1>3. ResidencyTypeOK'
  BY <1>1, NoUseRow DEF Stop, ResidencyInv, ResidencyTypeOK
<1>4. LockIsHeld' /\ CallsMakeSense'
  BY <1>1, <1>2, ModelResidencyAssumption DEF LockIsHeld, CallsMakeSense, Callers
<1>5. StoppedIsEmpty' /\ Accounted'
  BY <1>1 DEF StoppedIsEmpty, Accounted, NoUses
<1> QED  BY <1>3, <1>4, <1>5 DEF ResidencyInv

LEMMA StartUpKeeps ==
  ASSUME ResidencyInv, StartUp
  PROVE  ResidencyInv'
<1>1. /\ ~ running /\ running' /\ uses = NoUses /\ resident = None /\ known' = loaded
      /\ UNCHANGED <<single, resident, holder, loaded>> /\ Starter \in Callers
      /\ uses' = [NoUses EXCEPT ![Starter].at = "starting"]
  BY DEF StartUp, ResidencyInv, StoppedIsEmpty, Callers
<1>2. \A c \in Callers : uses[c].at = "idle"
  BY <1>1, NoUseRow DEF NoUses
<1>3. Go(Starter, "starting")
  BY <1>1 DEF Go
<1>4. /\ uses' \in [Callers -> UseRows] /\ uses'[Starter].at = "starting"
      /\ \A d \in Callers \ {Starter} : uses'[d] = uses[d]
  BY <1>1, <1>3, GoesOn DEF ResidencyInv, UsePoints
<1>5. ResidencyTypeOK'
  BY <1>1, <1>4 DEF StartUp, ResidencyInv, ResidencyTypeOK
<1>6. LockIsHeld' /\ CallsMakeSense'
  BY <1>1, <1>2, <1>4 DEF ResidencyInv, LockIsHeld, CallsMakeSense
<1>7. Accounted'
  BY <1>1, <1>2, <1>4 DEF Accounted, LoadedAccounted, AdmittedAccounted
<1> QED  BY <1>1, <1>5, <1>6, <1>7 DEF ResidencyInv, StoppedIsEmpty

LEMMA ResidencyKept == ResidencyInv /\ [ResidencyNext]_residencyVars => ResidencyInv'
<1> SUFFICES ASSUME ResidencyInv, [ResidencyNext]_residencyVars PROVE ResidencyInv'
  OBVIOUS
<1>1. ASSUME NEW c \in Workers, NEW m \in Models, AskFor(c, m) PROVE ResidencyInv'
  BY <1>1, AskForKeeps
<1>2. ASSUME NEW c \in Callers,
             \/ AdmitResident(c) \/ Admit(c) \/ Withdraw(c) \/ Call(c) \/ Return(c)
             \/ \E released \in BOOLEAN : Evict(c, released)
      PROVE  ResidencyInv'
  BY <1>2, AdmitResidentKeeps, AdmitKeeps, WithdrawKeeps, CallKeeps, EvictKeeps
<1>3. ASSUME NEW m \in Models, Expire(m) \/ \E released \in BOOLEAN : ClearOne(m, released)
      PROVE  ResidencyInv'
  BY <1>3, ExpireKeeps, ClearOneKeeps
<1>4. CASE Reconcile \/ Reconciled \/ Prewarm \/ Stop \/ StartUp
  BY <1>4, ReconcileKeeps, ReconciledKeeps, PrewarmKeeps, StopKeeps, StartUpKeeps
<1>5. CASE UNCHANGED residencyVars
  BY <1>5 DEF residencyVars, ResidencyInv, ResidencyTypeOK, LockIsHeld, CallsMakeSense, StoppedIsEmpty,
              Accounted, LoadedAccounted, AdmittedAccounted, Surplus
<1> QED  BY <1>1, <1>2, <1>3, <1>4, <1>5 DEF ResidencyNext

\* ResidentsAreKnown for every number of models and workers: with one generation model at a
\* time (inference.single_model_residency), a model in memory that the manager would not evict
\* next is one whose unloading failed, whose caller was admitted before another one was, or
\* that a start could not ask about.
THEOREM MemoryIsAccountedFor == ResidencySpec => []ResidentsAreKnown
<1>1. ResidencyInv => ResidentsAreKnown
  <2> SUFFICES ASSUME ResidencyInv, running, single, holder = None
               PROVE  loaded \subseteq {resident} \cup known
    BY DEF ResidentsAreKnown
  <2>1. uses[Starter].at # "clearing"
    BY ModelResidencyAssumption DEF ResidencyInv, LockIsHeld, Callers
  <2> QED  BY <2>1 DEF ResidencyInv, Accounted, LoadedAccounted, Surplus
<1> QED  BY <1>1, ResidencyStarts, ResidencyKept, PTL DEF ResidencySpec

-----------------------------------------------------------------------------
(***************************************************************************)
(* Sandbox.  The brakes are a count each: a slot is free or belongs to a   *)
(* thread that is not idle, and a user's count is the number of threads    *)
(* that are past the brakes on their behalf.  The confinement is a fact    *)
(* about two moments, the check and the selection; between them only a     *)
(* self-test can change a verdict, since asking a probe again settles only *)
(* what was unknown, and then the run is marked as moved.                  *)
(***************************************************************************)
ExecPoints == {"idle", "slotted", "opening", "executing", "prepared", "selected", "running",
               "testing", "leaving", "releasing"}
Whys == {"none", "console", "test", "agent"}
ExecRows ==
  [at : ExecPoints, why : Whys, user : Testers \cup {NoUser},
   validated : BOOLEAN, in : SUBSET Confinements, probed : BOOLEAN, moved : BOOLEAN]
Places == Threads \cup {EventLoop}

SandboxTypeOK ==
  /\ host \in Hosts
  /\ verdicts \in [Confinements -> {"unknown", "holds", "fails"}]
  /\ slots \in Nat /\ inProgress \in [Testers -> Nat]
  /\ execs \in [Places -> ExecRows]

InConsole == {"slotted", "leaving", "executing", "prepared", "selected", "running", "releasing"}
InTest    == {"opening", "testing", "executing", "prepared", "selected", "running", "releasing"}
InAgent   == {"executing", "prepared", "selected", "running"}

\* who may be where, and for whom
InPlace(t, e) ==
  /\ e.why = "none"    => e.at = "idle"
  /\ e.why = "console" => t \in Threads /\ e.user \in Testers /\ e.at \in InConsole
  /\ e.why = "test"    => t \in Threads /\ e.at \in InTest
  /\ e.why = "agent"   => t = EventLoop /\ e.at \in InAgent

PlacesAreRight == \A t \in Places : InPlace(t, execs[t])

Busy == {t \in Threads : ~ExecAt(t, "idle")}
Inside(user) == {t \in OfUser(user) : execs[t].at \notin {"slotted", "releasing"}}

Counted ==
  /\ slots + Cardinality(Busy) = MaxGlobal
  /\ \A user \in Testers :
       inProgress[user] = Cardinality(Inside(user)) /\ inProgress[user] <= MaxPerUser

BrakesInv == SandboxTypeOK /\ PlacesAreRight /\ Counted

\* A use is replaced by another one, and the others stay.
Becomes(t, e) ==
  /\ execs' \in [Places -> ExecRows] /\ execs'[t] = e
  /\ \A u \in Places \ {t} : execs'[u] = execs[u]

LEMMA Replaced ==
  ASSUME SandboxTypeOK, NEW t \in Places, NEW e \in ExecRows, execs' = [execs EXCEPT ![t] = e]
  PROVE  Becomes(t, e)
BY DEF SandboxTypeOK, Becomes

\* A use is what its fields are.
LEMMA ExecIs ==
  ASSUME NEW e \in ExecRows
  PROVE  e = [at |-> e.at, why |-> e.why, user |-> e.user, validated |-> e.validated,
              in |-> e.in, probed |-> e.probed, moved |-> e.moved]
BY DEF ExecRows

LEMMA NoExecRow ==
  /\ NoExec \in ExecRows
  /\ NoExec.at = "idle" /\ NoExec.why = "none" /\ NoExec.in = {} /\ NoExec.moved = FALSE
BY DEF NoExec, ExecRows, ExecPoints, Whys

\* the form of a use at its next place, whatever else it sets
With(e, at, validated, in, moved) ==
  [at |-> at, why |-> e.why, user |-> e.user, validated |-> validated, in |-> in,
   probed |-> e.probed, moved |-> moved]

LEMMA WithRow ==
  ASSUME NEW e \in ExecRows, NEW at \in ExecPoints, NEW validated \in BOOLEAN,
         NEW in \in SUBSET Confinements, NEW moved \in BOOLEAN
  PROVE  With(e, at, validated, in, moved) \in ExecRows
BY DEF With, ExecRows

LEMMA AtExcept ==
  ASSUME NEW e \in ExecRows, NEW at
  PROVE  [e EXCEPT !.at = at] = With(e, at, e.validated, e.in, e.moved)
BY DEF With, ExecRows

LEMMA WithFields ==
  ASSUME NEW e, NEW at, NEW validated, NEW in, NEW moved, NEW w,
         w = With(e, at, validated, in, moved)
  PROVE  /\ w.at = at /\ w.why = e.why /\ w.user = e.user /\ w.validated = validated
         /\ w.in = in /\ w.probed = e.probed /\ w.moved = moved
BY DEF With

\* A use of which one field is set, field by field.
Row(at, why, user, validated, in, probed, moved) ==
  [at |-> at, why |-> why, user |-> user, validated |-> validated, in |-> in, probed |-> probed,
   moved |-> moved]

LEMMA FieldSet ==
  ASSUME NEW r \in ExecRows, NEW x
  PROVE  /\ [r EXCEPT !.at = x] = Row(x, r.why, r.user, r.validated, r.in, r.probed, r.moved)
         /\ [r EXCEPT !.why = x] = Row(r.at, x, r.user, r.validated, r.in, r.probed, r.moved)
         /\ [r EXCEPT !.user = x] = Row(r.at, r.why, x, r.validated, r.in, r.probed, r.moved)
         /\ [r EXCEPT !.validated = x] = Row(r.at, r.why, r.user, x, r.in, r.probed, r.moved)
         /\ [r EXCEPT !.in = x] = Row(r.at, r.why, r.user, r.validated, x, r.probed, r.moved)
         /\ [r EXCEPT !.probed = x] = Row(r.at, r.why, r.user, r.validated, r.in, x, r.moved)
         /\ [r EXCEPT !.moved = x] = Row(r.at, r.why, r.user, r.validated, r.in, r.probed, x)
<1>1. [r EXCEPT !.at = x] = Row(x, r.why, r.user, r.validated, r.in, r.probed, r.moved)
  BY DEF Row, ExecRows
<1>2. [r EXCEPT !.why = x] = Row(r.at, x, r.user, r.validated, r.in, r.probed, r.moved)
  BY DEF Row, ExecRows
<1>3. [r EXCEPT !.user = x] = Row(r.at, r.why, x, r.validated, r.in, r.probed, r.moved)
  BY DEF Row, ExecRows
<1>4. [r EXCEPT !.validated = x] = Row(r.at, r.why, r.user, x, r.in, r.probed, r.moved)
  BY DEF Row, ExecRows
<1>5. [r EXCEPT !.in = x] = Row(r.at, r.why, r.user, r.validated, x, r.probed, r.moved)
  BY DEF Row, ExecRows
<1>6. [r EXCEPT !.probed = x] = Row(r.at, r.why, r.user, r.validated, r.in, x, r.moved)
  BY DEF Row, ExecRows
<1>7. [r EXCEPT !.moved = x] = Row(r.at, r.why, r.user, r.validated, r.in, r.probed, x)
  BY DEF Row, ExecRows
<1> QED  BY <1>1, <1>2, <1>3, <1>4, <1>5, <1>6, <1>7

LEMMA SetValidated ==
  ASSUME NEW e \in ExecRows, NEW at \in ExecPoints, NEW v \in BOOLEAN
  PROVE  [With(e, at, e.validated, e.in, e.moved) EXCEPT !.validated = v]
            = With(e, at, v, e.in, e.moved)
<1> DEFINE c == With(e, at, e.validated, e.in, e.moved)
<1>1. e.validated \in BOOLEAN /\ e.in \in SUBSET Confinements /\ e.moved \in BOOLEAN
  BY DEF ExecRows
<1>2. c \in ExecRows
  BY <1>1, WithRow
<1>3. [c EXCEPT !.validated = v] = Row(c.at, c.why, c.user, v, c.in, c.probed, c.moved)
  <2> HIDE DEF c
  <2> QED  BY <1>2, FieldSet, Zenon
<1>4. Row(c.at, c.why, c.user, v, c.in, c.probed, c.moved) = With(e, at, v, e.in, e.moved)
  BY DEF Row, With
<1> QED  BY <1>3, <1>4, Zenon

LEMMA SetIn ==
  ASSUME NEW e \in ExecRows, NEW at \in ExecPoints, NEW v \in BOOLEAN,
         NEW in \in SUBSET Confinements
  PROVE  [With(e, at, v, e.in, e.moved) EXCEPT !.in = in] = With(e, at, v, in, e.moved)
<1> DEFINE d == With(e, at, v, e.in, e.moved)
<1>1. e.in \in SUBSET Confinements /\ e.moved \in BOOLEAN
  BY DEF ExecRows
<1>2. d \in ExecRows
  BY <1>1, WithRow
<1>3. [d EXCEPT !.in = in] = Row(d.at, d.why, d.user, d.validated, in, d.probed, d.moved)
  <2> HIDE DEF d
  <2> QED  BY <1>2, FieldSet, Zenon
<1>4. Row(d.at, d.why, d.user, d.validated, in, d.probed, d.moved) = With(e, at, v, in, e.moved)
  BY DEF Row, With
<1> QED  BY <1>3, <1>4, Zenon

LEMMA MoveIs ==
  ASSUME SandboxTypeOK, NEW t \in Places, NEW at \in ExecPoints, Move(t, at)
  PROVE  Becomes(t, With(execs[t], at, execs[t].validated, execs[t].in, execs[t].moved))
<1> DEFINE e == With(execs[t], at, execs[t].validated, execs[t].in, execs[t].moved)
<1>1. execs[t] \in ExecRows
  BY DEF SandboxTypeOK
<1>2. e \in ExecRows
  BY <1>1, WithRow DEF ExecRows
<1>3. execs' = [execs EXCEPT ![t] = [execs[t] EXCEPT !.at = at]]
  BY Zenon DEF Move
<1>4. execs' = [execs EXCEPT ![t] = e]
  BY <1>1, <1>3, AtExcept, Zenon
<1> HIDE DEF e
<1>5. Becomes(t, e)
  BY <1>2, <1>4, Replaced
<1> QED  BY <1>5 DEF e

LEMMA StartIs ==
  ASSUME SandboxTypeOK, NEW t \in Places, NEW in \in SUBSET Confinements, Start(t, in)
  PROVE  Becomes(t, With(execs[t], "running", execs[t].validated, in, execs[t].moved))
<1> DEFINE x == [execs EXCEPT ![t].at = "running"]
           d == With(execs[t], "running", execs[t].validated, execs[t].in, execs[t].moved)
           e == With(execs[t], "running", execs[t].validated, in, execs[t].moved)
<1>1. execs[t] \in ExecRows /\ execs \in [Places -> ExecRows]
  BY DEF SandboxTypeOK
<1>2. execs[t].validated \in BOOLEAN /\ execs[t].in \in SUBSET Confinements
      /\ execs[t].moved \in BOOLEAN /\ "running" \in ExecPoints
  BY <1>1 DEF ExecRows, ExecPoints, Whys
<1>3. e \in ExecRows /\ d \in ExecRows
  BY <1>1, <1>2, WithRow
<1>4. [d EXCEPT !.in = in] = e
  BY DEF With
<1>5. x = [execs EXCEPT ![t] = d]
  BY <1>1, AtExcept, ZenonT(40)
<1>6. x[t] = d
  BY <1>1, <1>5
<1>7. execs' = [x EXCEPT ![t] = [x[t] EXCEPT !.in = in]]
  BY Zenon DEF Start
<1>8. execs' = [x EXCEPT ![t] = e]
  BY <1>4, <1>6, <1>7, ZenonT(40)
<1> HIDE DEF d, e, x
<1>9. execs' = [execs EXCEPT ![t] = e]
  BY <1>1, <1>5, <1>8
<1>10. Becomes(t, e)
  BY <1>3, <1>9, Replaced
<1> QED  BY <1>10 DEF e

LEMMA FieldsTyped ==
  ASSUME SandboxTypeOK, NEW t \in Places
  PROVE  /\ execs[t] \in ExecRows /\ execs \in [Places -> ExecRows]
         /\ execs[t].validated \in BOOLEAN /\ execs[t].in \in SUBSET Confinements
         /\ execs[t].moved \in BOOLEAN
<1>1. execs[t] \in ExecRows /\ execs \in [Places -> ExecRows]
  BY DEF SandboxTypeOK
<1> QED  BY <1>1 DEF ExecRows

\* The other forms in which actions replace a use.
LEMMA TestRunIs ==
  ASSUME SandboxTypeOK, NEW t \in Places, NEW reviewed \in BOOLEAN, TestRuns(t, reviewed)
  PROVE  Becomes(t, With(execs[t], "executing", reviewed, execs[t].in, execs[t].moved))
<1> DEFINE x == [execs EXCEPT ![t].at = "executing"]
           d == With(execs[t], "executing", execs[t].validated, execs[t].in, execs[t].moved)
           e == With(execs[t], "executing", reviewed, execs[t].in, execs[t].moved)
<1>1. "executing" \in ExecPoints
  BY DEF ExecPoints
<1>2. e \in ExecRows /\ d \in ExecRows
  BY <1>1, FieldsTyped, WithRow
<1>3. [d EXCEPT !.validated = reviewed] = e
  BY DEF With
<1>4. x = [execs EXCEPT ![t] = d]
  BY FieldsTyped, AtExcept, ZenonT(40)
<1>5. x[t] = d
  BY <1>4, FieldsTyped
<1>6. execs' = [x EXCEPT ![t] = [x[t] EXCEPT !.validated = reviewed]]
  BY Zenon DEF TestRuns
<1>7. execs' = [x EXCEPT ![t] = e]
  BY <1>3, <1>5, <1>6, ZenonT(40)
<1> HIDE DEF d, e, x
<1>8. execs' = [execs EXCEPT ![t] = e]
  BY <1>4, <1>7, FieldsTyped
<1>9. Becomes(t, e)
  BY <1>2, <1>8, Replaced
<1> QED  BY <1>9 DEF e

LEMMA TestJobIs ==
  ASSUME SandboxTypeOK, NEW t \in Places, TestJob(t)
  PROVE  Becomes(t, With(execs[t], "running", FALSE, {"job"}, execs[t].moved))
<1> DEFINE x == [execs EXCEPT ![t].at = "running"]
           y == [x EXCEPT ![t].validated = FALSE]
           no == FALSE
           job == {"job"}
           c == With(execs[t], "running", execs[t].validated, execs[t].in, execs[t].moved)
           d == With(execs[t], "running", no, execs[t].in, execs[t].moved)
           e == With(execs[t], "running", no, job, execs[t].moved)
<1>1. "running" \in ExecPoints /\ job \in SUBSET Confinements
  BY DEF ExecPoints, Confinements
<1>2. e \in ExecRows /\ d \in ExecRows /\ c \in ExecRows
  BY <1>1, FieldsTyped, WithRow
<1>3. [c EXCEPT !.validated = no] = d /\ [d EXCEPT !.in = job] = e
  <2>1. no \in BOOLEAN
    OBVIOUS
  <2>2. execs[t] \in ExecRows
    BY FieldsTyped
  <2> HIDE DEF no, job
  <2>3. [c EXCEPT !.validated = no] = d
    BY <1>1, <2>1, <2>2, SetValidated, ZenonT(40)
  <2>4. [d EXCEPT !.in = job] = e
    BY <1>1, <2>1, <2>2, SetIn, ZenonT(40)
  <2> QED  BY <2>3, <2>4
<1>4. x = [execs EXCEPT ![t] = c]
  BY FieldsTyped, AtExcept, ZenonT(40)
<1>5. x[t] = c
  BY <1>4, FieldsTyped
<1>6. y = [x EXCEPT ![t] = d]
  BY <1>3, <1>5, ZenonT(40)
<1>7. x \in [Places -> ExecRows] /\ y[t] = d
  <2> HIDE DEF x, y, c, d
  <2>1. x \in [Places -> ExecRows]
    BY <1>2, <1>4, FieldsTyped
  <2> QED  BY <1>6, <2>1
<1>8. execs' = [y EXCEPT ![t] = [y[t] EXCEPT !.in = {"job"}]]
  BY Zenon DEF TestJob
<1>9. execs' = [y EXCEPT ![t] = e]
  BY <1>3, <1>7, <1>8, ZenonT(40)
<1> HIDE DEF c, d, e, x, y
<1>10. execs' = [execs EXCEPT ![t] = e]
  BY <1>4, <1>6, <1>9, FieldsTyped
<1>11. Becomes(t, e)
  BY <1>2, <1>10, Replaced
<1> QED  BY <1>11 DEF e

LEMMA PreparedIs ==
  ASSUME SandboxTypeOK, NEW t \in Places,
         execs' = [execs EXCEPT ![t].at = "prepared", ![t].moved = @ /\ execs[t].why = "test"]
  PROVE  Becomes(t, With(execs[t], "prepared", execs[t].validated, execs[t].in,
                         execs[t].moved /\ execs[t].why = "test"))
<1> DEFINE m == execs[t].moved /\ execs[t].why = "test"
           x == [execs EXCEPT ![t].at = "prepared"]
           d == With(execs[t], "prepared", execs[t].validated, execs[t].in, execs[t].moved)
           e == With(execs[t], "prepared", execs[t].validated, execs[t].in, m)
<1>1. "prepared" \in ExecPoints /\ m \in BOOLEAN
  BY DEF ExecPoints
<1>2. e \in ExecRows /\ d \in ExecRows
  BY <1>1, FieldsTyped, WithRow
<1>3. x = [execs EXCEPT ![t] = d]
  BY FieldsTyped, AtExcept, ZenonT(40)
<1>4. x[t] = d
  BY <1>3, FieldsTyped
<1>5. d.moved = execs[t].moved
  BY DEF With
<1>6. [d EXCEPT !.moved = m] = e
  <2> HIDE DEF m
  <2> QED  BY DEF With
<1>7. execs' = [x EXCEPT ![t] = [x[t] EXCEPT !.moved = x[t].moved /\ execs[t].why = "test"]]
  BY Zenon
<1>8. execs' = [x EXCEPT ![t] = e]
  BY <1>4, <1>5, <1>6, <1>7, ZenonT(40)
<1> HIDE DEF d, e, x
<1>9. execs' = [execs EXCEPT ![t] = e]
  BY <1>3, <1>8, FieldsTyped
<1>10. Becomes(t, e)
  BY <1>2, <1>9, Replaced
<1> QED  BY <1>10 DEF e

\* What is over goes back to where it was asked for.
Over(t) ==
  IF execs[t].why \in {"console", "test"}
  THEN With(execs[t], IF execs[t].why = "console" THEN "leaving" ELSE "testing", TRUE, {}, execs[t].moved)
  ELSE NoExec

LEMMA FinishIs ==
  ASSUME SandboxTypeOK, NEW t \in Places, Finish(t)
  PROVE  Becomes(t, Over(t))
<1>1. CASE execs[t].why \in {"console", "test"}
  <2> DEFINE p == IF execs[t].why = "console" THEN "leaving" ELSE "testing"
             c == With(execs[t], p, execs[t].validated, execs[t].in, execs[t].moved)
             yes == TRUE
             none == {}
             d == With(execs[t], p, yes, execs[t].in, execs[t].moved)
             e == With(execs[t], p, yes, none, execs[t].moved)
  <2>1. After(t) = p /\ p # "idle" /\ p \in ExecPoints
    BY <1>1 DEF After, ExecPoints
  <2>2. execs' = [execs EXCEPT ![t] = [execs[t] EXCEPT !.at = p, !.validated = TRUE, !.in = {}]]
    BY <2>1, Zenon DEF Finish
  <2>3. [execs[t] EXCEPT !.at = p] = c
    BY FieldsTyped, AtExcept, ZenonT(40)
  <2>4. c \in ExecRows /\ d \in ExecRows /\ e \in ExecRows
    <3> HIDE DEF p
    <3> QED  BY <2>1, FieldsTyped, WithRow
  <2>4a. [c EXCEPT !.validated = yes] = d /\ [d EXCEPT !.in = none] = e
    <3>1. yes \in BOOLEAN /\ none \in SUBSET Confinements
      OBVIOUS
    <3>2. execs[t] \in ExecRows
      BY FieldsTyped
    <3> HIDE DEF yes, none, p
    <3>3. [c EXCEPT !.validated = yes] = d
      BY <2>1, <3>1, <3>2, SetValidated, ZenonT(40)
    <3>4. [d EXCEPT !.in = none] = e
      BY <2>1, <3>1, <3>2, SetIn, ZenonT(40)
    <3> QED  BY <3>3, <3>4
  <2>5. [execs[t] EXCEPT !.at = p, !.validated = TRUE, !.in = {}]
           = [[[execs[t] EXCEPT !.at = p] EXCEPT !.validated = TRUE] EXCEPT !.in = {}]
    BY Zenon
  <2>6. execs' = [execs EXCEPT ![t] = e]
    <3> HIDE DEF p, c, d, e
    <3> QED  BY <2>2, <2>3, <2>4a, <2>5, ZenonT(40)
  <2>8. Over(t) = e
    BY <1>1 DEF Over
  <2> HIDE DEF e
  <2> QED  BY <2>4, <2>6, <2>8, Replaced
<1>2. CASE execs[t].why \notin {"console", "test"}
  <2>1. After(t) = "idle"
    BY <1>2 DEF After
  <2>2. execs' = [execs EXCEPT ![t] = NoExec]
    BY <2>1, Zenon DEF Finish
  <2> QED  BY <1>2, <2>2, NoExecRow, Replaced DEF Over
<1> QED  BY <1>1, <1>2

Asked(at, why, user) ==
  [at |-> at, why |-> why, user |-> user, validated |-> TRUE, in |-> {}, probed |-> FALSE,
   moved |-> FALSE]

LEMMA AskedIs ==
  ASSUME NEW at \in ExecPoints, NEW why \in Whys,
         NEW user \in Testers \cup {NoUser}
  PROVE  /\ [NoExec EXCEPT !.at = at, !.why = why] = Asked(at, why, NoUser)
         /\ [NoExec EXCEPT !.at = at, !.why = why, !.user = user] = Asked(at, why, user)
<1> DEFINE n == NoExec
           a == Asked(at, "none", NoUser)
           b == Asked(at, why, NoUser)
<1>1. [n EXCEPT !.at = at] = a
  <2>1. n \in ExecRows /\ n.why = "none" /\ n.user = NoUser /\ n.validated = TRUE /\ n.in = {}
        /\ n.probed = FALSE /\ n.moved = FALSE
    BY NoExecRow DEF NoExec
  <2>2. Row(at, n.why, n.user, n.validated, n.in, n.probed, n.moved) = a
    BY <2>1 DEF Asked, Row
  <2> HIDE DEF n, a, b
  <2>3. [n EXCEPT !.at = at] = Row(at, n.why, n.user, n.validated, n.in, n.probed, n.moved)
    BY <2>1, FieldSet, ZenonT(40)
  <2> QED  BY <2>2, <2>3, ZenonT(40)
<1>2. [a EXCEPT !.why = why] = b
  <2>1. a \in ExecRows /\ a.at = at /\ a.user = NoUser /\ a.validated = TRUE /\ a.in = {}
        /\ a.probed = FALSE /\ a.moved = FALSE
    BY DEF Asked, ExecRows, Whys
  <2>2. Row(a.at, why, a.user, a.validated, a.in, a.probed, a.moved) = b
    BY <2>1 DEF Asked, Row
  <2> HIDE DEF n, a, b
  <2>3. [a EXCEPT !.why = why] = Row(a.at, why, a.user, a.validated, a.in, a.probed, a.moved)
    BY <2>1, FieldSet, ZenonT(40)
  <2> QED  BY <2>2, <2>3, ZenonT(40)
<1>3. [b EXCEPT !.user = user] = Asked(at, why, user)
  <2>1. b \in ExecRows /\ b.at = at /\ b.why = why /\ b.validated = TRUE /\ b.in = {}
        /\ b.probed = FALSE /\ b.moved = FALSE
    BY DEF Asked, ExecRows
  <2>2. Row(b.at, b.why, user, b.validated, b.in, b.probed, b.moved) = Asked(at, why, user)
    BY <2>1 DEF Asked, Row
  <2> HIDE DEF n, a, b
  <2>3. [b EXCEPT !.user = user] = Row(b.at, b.why, user, b.validated, b.in, b.probed, b.moved)
    BY <2>1, FieldSet, ZenonT(40)
  <2> QED  BY <2>2, <2>3, ZenonT(40)
<1>4. [NoExec EXCEPT !.at = at, !.why = why] = [[NoExec EXCEPT !.at = at] EXCEPT !.why = why]
  BY Zenon
<1>5. [NoExec EXCEPT !.at = at, !.why = why, !.user = user]
         = [[[NoExec EXCEPT !.at = at] EXCEPT !.why = why] EXCEPT !.user = user]
  BY Zenon
<1> QED  BY <1>1, <1>2, <1>3, <1>4, <1>5, ZenonT(40)

LEMMA AcquireIs ==
  ASSUME SandboxTypeOK, NEW t \in Places, NEW why \in {"console", "test"}, NEW user \in Testers,
         Acquire(t, why, user)
  PROVE  Becomes(t, Asked(IF why = "console" THEN "slotted" ELSE "opening", why, user))
<1> DEFINE p == IF why = "console" THEN "slotted" ELSE "opening"
           e == Asked(p, why, user)
<1>1. execs' = [execs EXCEPT ![t] = [NoExec EXCEPT !.at = p, !.why = why, !.user = user]]
  BY Zenon DEF Acquire
<1>2. [NoExec EXCEPT !.at = p, !.why = why, !.user = user] = e
  <2>1. /\ p \in ExecPoints /\ why \in Whys
        /\ user \in Testers \cup {NoUser}
    BY DEF ExecPoints, Whys
  <2> HIDE DEF p
  <2> QED  BY <2>1, AskedIs, ZenonT(40)
<1>3. execs' = [execs EXCEPT ![t] = e]
  BY <1>1, <1>2, ZenonT(40)
<1>4. e \in ExecRows
  BY DEF Asked, ExecRows, ExecPoints, Whys
<1> HIDE DEF e
<1>5. Becomes(t, e)
  BY <1>3, <1>4, Replaced
<1> QED  BY <1>5 DEF e

LEMMA AgentRunIs ==
  ASSUME SandboxTypeOK, AgentRuns
  PROVE  Becomes(EventLoop, Asked("executing", "agent", NoUser))
<1> DEFINE e == Asked("executing", "agent", NoUser)
<1>1. [NoExec EXCEPT !.at = "executing", !.why = "agent"] = e
  <2> DEFINE p == "executing"
             w == "agent"
  <2>1. /\ p \in ExecPoints /\ w \in Whys
        /\ NoUser \in Testers \cup {NoUser}
    BY DEF ExecPoints, Whys
  <2> HIDE DEF p, w
  <2>2. [NoExec EXCEPT !.at = p, !.why = w] = Asked(p, w, NoUser)
    BY <2>1, AskedIs, Zenon
  <2> QED  BY <2>2, Zenon DEF p, w
<1>2. execs' = [execs EXCEPT ![EventLoop] = e]
  BY <1>1, Zenon DEF AgentRuns
<1>3. e \in ExecRows /\ EventLoop \in Places
  BY DEF Asked, ExecRows, ExecPoints, Whys, Places
<1> HIDE DEF e
<1>4. Becomes(EventLoop, e)
  BY <1>2, <1>3, Replaced
<1> QED  BY <1>4 DEF e

\* A step that leaves everybody's place valid keeps them so.
LEMMA StaysInPlace ==
  ASSUME PlacesAreRight, NEW t \in Places, NEW e, Becomes(t, e), InPlace(t, e)
  PROVE  PlacesAreRight'
BY DEF PlacesAreRight, Becomes, InPlace

LEMMA CountsAreFinite ==
  /\ IsFiniteSet(Busy) /\ Cardinality(Busy) \in Nat
  /\ \A user \in Testers : IsFiniteSet(Inside(user)) /\ Cardinality(Inside(user)) \in Nat
<1>1. IsFiniteSet(Threads) /\ Busy \subseteq Threads
  BY SandboxAssumption DEF Busy
<1>2. \A user \in Testers : Inside(user) \subseteq Threads
  BY DEF Inside, OfUser
<1> QED  BY <1>1, <1>2, FS_Subset, FS_CardinalityType

\* How a use is counted.
Taken(t, e)        == t \in Threads /\ e.at # "idle"
Within(t, e, user) ==
  /\ t \in Threads /\ e.why = "console" /\ e.user = user /\ e.at \notin {"slotted", "releasing"}

\* A step after which a use is counted as before touches no brake.
LEMMA CountsKeep ==
  ASSUME BrakesInv, NEW t \in Places, NEW e, Becomes(t, e), UNCHANGED <<slots, inProgress>>,
         Taken(t, e) <=> Taken(t, execs[t]),
         \A user \in Testers : Within(t, e, user) <=> Within(t, execs[t], user)
  PROVE  Counted'
<1>1. Busy' = Busy
  BY DEF Becomes, Busy, ExecAt, Taken, Places
<1>2. \A user \in Testers : Inside(user)' = Inside(user)
  BY DEF Becomes, Inside, OfUser, Within, Places
<1> QED  BY <1>1, <1>2 DEF BrakesInv, Counted

LEMMA CountsTake ==
  ASSUME BrakesInv, NEW t \in Threads, NEW e, Becomes(t, e), slots > 0, slots' = slots - 1,
         inProgress' = inProgress, ~ Taken(t, execs[t]), Taken(t, e),
         \A user \in Testers : ~ Within(t, execs[t], user) /\ ~ Within(t, e, user)
  PROVE  Counted' /\ slots' \in Nat
<1>1. Busy' = Busy \cup {t} /\ t \notin Busy
  BY DEF Becomes, Busy, ExecAt, Taken, Places
<1>2. \A user \in Testers : Inside(user)' = Inside(user)
  BY DEF Becomes, Inside, OfUser, Within, Places
<1>3. Cardinality(Busy') = Cardinality(Busy) + 1
  BY <1>1, CountsAreFinite, FS_AddElement
<1>4. slots \in Nat /\ MaxGlobal \in Nat /\ Cardinality(Busy) \in Nat
  BY CountsAreFinite, SandboxAssumption DEF BrakesInv, SandboxTypeOK
<1> QED  BY <1>2, <1>3, <1>4 DEF BrakesInv, Counted

LEMMA CountsGive ==
  ASSUME BrakesInv, NEW t \in Threads, NEW e, Becomes(t, e), slots' = slots + 1,
         inProgress' = inProgress, Taken(t, execs[t]), ~ Taken(t, e),
         \A user \in Testers : ~ Within(t, execs[t], user) /\ ~ Within(t, e, user)
  PROVE  Counted' /\ slots' \in Nat
<1>1. Busy' = Busy \ {t} /\ t \in Busy
  BY DEF Becomes, Busy, ExecAt, Taken, Places
<1>2. \A user \in Testers : Inside(user)' = Inside(user)
  BY DEF Becomes, Inside, OfUser, Within, Places
<1>3. Cardinality(Busy') = Cardinality(Busy) - 1
  BY <1>1, CountsAreFinite, FS_RemoveElement
<1>4. slots \in Nat /\ MaxGlobal \in Nat /\ Cardinality(Busy) \in Nat
  BY CountsAreFinite, SandboxAssumption DEF BrakesInv, SandboxTypeOK
<1> QED  BY <1>2, <1>3, <1>4 DEF BrakesInv, Counted

LEMMA CountsEnter ==
  ASSUME BrakesInv, NEW t \in Threads, NEW e, Becomes(t, e), NEW own \in Testers,
         slots' = slots, inProgress[own] < MaxPerUser,
         inProgress' = [inProgress EXCEPT ![own] = inProgress[own] + 1],
         Taken(t, execs[t]), Taken(t, e), ~ Within(t, execs[t], own), Within(t, e, own),
         execs[t].user = own
  PROVE  Counted' /\ inProgress' \in [Testers -> Nat]
<1>1. Busy' = Busy
  BY DEF Becomes, Busy, ExecAt, Taken, Places
<1>2. Inside(own)' = Inside(own) \cup {t} /\ t \notin Inside(own)
  BY DEF Becomes, Inside, OfUser, Within, Places
<1>3. \A user \in Testers \ {own} : Inside(user)' = Inside(user)
  BY DEF Becomes, Inside, OfUser, Within, Places
<1>4. Cardinality(Inside(own)') = Cardinality(Inside(own)) + 1
  BY <1>2, CountsAreFinite, FS_AddElement
<1>5. inProgress \in [Testers -> Nat] /\ MaxPerUser \in Nat
  BY SandboxAssumption DEF BrakesInv, SandboxTypeOK
<1>6. \A user \in Testers : inProgress[user] = Cardinality(Inside(user)) /\ inProgress[user] <= MaxPerUser
  BY DEF BrakesInv, Counted
<1> QED  BY <1>1, <1>3, <1>4, <1>5, <1>6 DEF BrakesInv, Counted

LEMMA CountsLeave ==
  ASSUME BrakesInv, NEW t \in Threads, NEW e, Becomes(t, e), NEW own \in Testers,
         slots' = slots,
         inProgress' = [inProgress EXCEPT ![own] = IF inProgress[own] = 0 THEN 0 ELSE inProgress[own] - 1],
         Taken(t, execs[t]), Taken(t, e), Within(t, execs[t], own), ~ Within(t, e, own),
         e.user = own
  PROVE  Counted' /\ inProgress' \in [Testers -> Nat]
<1>1. Busy' = Busy
  BY DEF Becomes, Busy, ExecAt, Taken, Places
<1>2. Inside(own)' = Inside(own) \ {t} /\ t \in Inside(own)
  BY DEF Becomes, Inside, OfUser, Within, Places
<1>3. \A user \in Testers \ {own} : Inside(user)' = Inside(user)
  BY DEF Becomes, Inside, OfUser, Within, Places
<1>4. Cardinality(Inside(own)') = Cardinality(Inside(own)) - 1
  BY <1>2, CountsAreFinite, FS_RemoveElement
<1>5. inProgress \in [Testers -> Nat] /\ MaxPerUser \in Nat
  BY SandboxAssumption DEF BrakesInv, SandboxTypeOK
<1>5a. Cardinality(Inside(own)) \in Nat \ {0}
  <2>1. IsFiniteSet(Inside(own)) /\ Cardinality(Inside(own)) \in Nat
    BY CountsAreFinite
  <2>2. Inside(own) # {}
    BY <1>2
  <2> HIDE DEF Inside
  <2> QED  BY <2>1, <2>2, FS_EmptySet
<1>6. \A user \in Testers : inProgress[user] = Cardinality(Inside(user)) /\ inProgress[user] <= MaxPerUser
  BY DEF BrakesInv, Counted
<1> QED  BY <1>1, <1>3, <1>4, <1>5, <1>5a, <1>6 DEF BrakesInv, Counted

\* The steps of one use while it is in progress: nobody's count changes.
LEMMA UnderWay ==
  ASSUME BrakesInv, NEW t \in Places, UNCHANGED <<host, slots, inProgress>>,
         verdicts' \in [Confinements -> {"unknown", "holds", "fails"}],
         NEW e, Becomes(t, e), execs[t].at # "idle",
         \/ /\ e.why = execs[t].why /\ e.user = execs[t].user /\ InPlace(t, e) /\ e.at # "idle"
            /\ (e.at \in {"slotted", "releasing"}) <=> (execs[t].at \in {"slotted", "releasing"})
         \/ /\ e.why = execs[t].why /\ e.user = execs[t].user /\ InPlace(t, e) /\ e.at # "idle"
            /\ e.why # "console"
         \/ e = NoExec /\ t = EventLoop
  PROVE  BrakesInv'
<1>1. SandboxTypeOK'
  BY DEF BrakesInv, SandboxTypeOK, Becomes
<1>2. InPlace(t, NoExec)
  BY NoExecRow DEF InPlace
<1>3. PlacesAreRight'
  BY <1>2, StaysInPlace DEF BrakesInv
<1>4. EventLoop \notin Threads
  BY SandboxAssumption
<1>5. Taken(t, e) <=> Taken(t, execs[t])
  BY <1>4 DEF Taken
<1>6. \A user \in Testers : Within(t, e, user) <=> Within(t, execs[t], user)
  BY <1>4 DEF Within
<1>7. Counted'
  BY <1>5, <1>6, CountsKeep
<1> QED  BY <1>1, <1>3, <1>7 DEF BrakesInv

\* A probe answers "holds" or "fails" where nothing was known, and keeps what was.
LEMMA AnswersSettle ==
  ASSUME NEW v \in [Confinements -> {"unknown", "holds", "fails"}], NEW kind \in Confinements,
         NEW w \in Answers(v, kind)
  PROVE  /\ w \in [Confinements -> {"unknown", "holds", "fails"}]
         /\ \A k \in Confinements : v[k] # "unknown" => w[k] = v[k]
BY DEF Answers

\* So does whatever a use asks.
Settles(v, w) ==
  /\ w \in [Confinements -> {"unknown", "holds", "fails"}]
  /\ \A k \in Confinements : v[k] # "unknown" => w[k] = v[k]

LEMMA ProbesSettle ==
  ASSUME NEW v \in [Confinements -> {"unknown", "holds", "fails"}]
  PROVE  \A w \in ProbeContainer(v) \cup ProbeNamespace(v) \cup ProbeJob(v) : Settles(v, w)
<1>1. \A kind \in {"container", "namespace", "job"} : kind \in Confinements
  BY DEF Confinements
<1>2. Settles(v, v)
  BY DEF Settles
<1>3. \A kind \in Confinements : \A w \in Answers(v, kind) : Settles(v, w)
  BY AnswersSettle DEF Settles
<1> QED  BY <1>1, <1>2, <1>3 DEF ProbeContainer, ProbeNamespace, ProbeJob

LEMMA ConsultedSettle ==
  ASSUME SandboxTypeOK
  PROVE  \A w \in Consulted : Settles(verdicts, w)
<1> SUFFICES ASSUME NEW w \in Consulted PROVE Settles(verdicts, w)
  OBVIOUS
<1>1. verdicts \in [Confinements -> {"unknown", "holds", "fails"}]
  BY DEF SandboxTypeOK
<1>2. CASE ~ host.enabled
  BY <1>1, <1>2 DEF Consulted, Settles
<1>3. CASE host.enabled
  <2>1. PICK v \in ProbeContainer(verdicts) :
          w \in IF Selection(v) = "refused" THEN {v} ELSE UNION {ProbeJob(x) : x \in ProbeNamespace(v)}
    BY <1>3, Zenon DEF Consulted
  <2>2. Settles(verdicts, v)
    BY <1>1, ProbesSettle
  <2>3. CASE Selection(v) = "refused"
    BY <2>1, <2>2, <2>3
  <2>4. CASE Selection(v) # "refused"
    <3>1. PICK x \in ProbeNamespace(v) : w \in ProbeJob(x)
      BY <2>1, <2>4
    <3>2. Settles(v, x)
      BY <2>2, ProbesSettle DEF Settles
    <3>3. Settles(x, w)
      BY <3>1, <3>2, ProbesSettle DEF Settles
    <3> QED  BY <2>2, <3>2, <3>3 DEF Settles
  <2> QED  BY <2>3, <2>4
<1> QED  BY <1>2, <1>3

LEMMA BrakesStart == SandboxInit => BrakesInv
<1> SUFFICES ASSUME SandboxInit PROVE BrakesInv
  OBVIOUS
<1>1. \A t \in Places : execs[t] = NoExec
  BY DEF SandboxInit, Places
<1>2. SandboxTypeOK
  <2>1. execs \in [Places -> ExecRows]
    BY <1>1, NoExecRow DEF SandboxInit, Places
  <2>2. inProgress \in [Testers -> Nat] /\ slots \in Nat
    BY SandboxAssumption DEF SandboxInit
  <2> QED  BY <2>1, <2>2 DEF SandboxInit, SandboxTypeOK
<1>3. PlacesAreRight
  BY <1>1, NoExecRow DEF PlacesAreRight, InPlace
<1>4. Busy = {} /\ \A user \in Testers : Inside(user) = {}
  BY <1>1, NoExecRow DEF Busy, ExecAt, Inside, OfUser, Places
<1>5. Counted
  <2>1. Cardinality(Busy) = 0 /\ \A user \in Testers : Cardinality(Inside(user)) = 0
    BY <1>4, FS_EmptySet
  <2> QED  BY <2>1, SandboxAssumption DEF SandboxInit, Counted
<1> QED  BY <1>2, <1>3, <1>5 DEF BrakesInv

\* Fields of a use that is replaced by another.
LEMMA AskedFields ==
  ASSUME NEW at, NEW why, NEW user, NEW e, e = Asked(at, why, user)
  PROVE  e.at = at /\ e.why = why /\ e.user = user /\ e.in = {} /\ e.moved = FALSE
BY DEF Asked

LEMMA AcquireBrakes ==
  ASSUME BrakesInv, NEW t \in Threads, NEW why \in {"console", "test"}, NEW user \in Testers,
         Acquire(t, why, user)
  PROVE  BrakesInv'
<1> DEFINE e == Asked(IF why = "console" THEN "slotted" ELSE "opening", why, user)
<1>1. Becomes(t, e) /\ t \in Places
  BY AcquireIs DEF BrakesInv, Places
<1>2. e.at = (IF why = "console" THEN "slotted" ELSE "opening") /\ e.why = why /\ e.user = user
  BY DEF Asked
<1> HIDE DEF e
<1>3. /\ execs[t].at = "idle" /\ slots > 0 /\ slots' = slots - 1
      /\ UNCHANGED <<host, verdicts, inProgress>>
  BY DEF Acquire, ExecAt
<1>4. InPlace(t, e)
  BY <1>2 DEF InPlace, InConsole, InTest
<1>5. InPlace(t, execs[t])
  BY <1>1 DEF BrakesInv, PlacesAreRight
<1>6. /\ ~ Taken(t, execs[t]) /\ Taken(t, e)
      /\ \A u \in Testers : ~ Within(t, execs[t], u) /\ ~ Within(t, e, u)
  <2>1. ~ Taken(t, execs[t]) /\ Taken(t, e)
    BY <1>2, <1>3 DEF Taken
  <2>2. execs[t].why # "console"
    BY <1>3, <1>5 DEF InPlace, InConsole
  <2>3. e.why # "console" \/ e.at = "slotted"
    BY <1>2
  <2> QED  BY <2>1, <2>2, <2>3 DEF Within
<1>7. Counted' /\ slots' \in Nat
  BY <1>1, <1>3, <1>6, CountsTake
<1>8. SandboxTypeOK'
  BY <1>1, <1>3, <1>7 DEF BrakesInv, SandboxTypeOK, Becomes
<1>9. PlacesAreRight'
  BY <1>1, <1>4, StaysInPlace DEF BrakesInv
<1> QED  BY <1>7, <1>8, <1>9 DEF BrakesInv

LEMMA ReleaseBrakes ==
  ASSUME BrakesInv, NEW t \in Threads, Release(t)
  PROVE  BrakesInv'
<1>1. /\ execs[t].at = "releasing" /\ slots' = slots + 1 /\ execs' = [execs EXCEPT ![t] = NoExec]
      /\ UNCHANGED <<host, verdicts, inProgress>> /\ t \in Places
  BY DEF Release, ExecAt, Places
<1>2. Becomes(t, NoExec)
  BY <1>1, NoExecRow, Replaced DEF BrakesInv
<1>3. InPlace(t, NoExec)
  BY NoExecRow DEF InPlace
<1>4. /\ Taken(t, execs[t]) /\ ~ Taken(t, NoExec)
      /\ \A u \in Testers : ~ Within(t, execs[t], u) /\ ~ Within(t, NoExec, u)
  BY <1>1, NoExecRow DEF Taken, Within
<1>5. Counted' /\ slots' \in Nat
  BY <1>1, <1>2, <1>4, CountsGive
<1>6. SandboxTypeOK'
  BY <1>1, <1>2, <1>5 DEF BrakesInv, SandboxTypeOK, Becomes
<1>7. PlacesAreRight'
  BY <1>1, <1>2, <1>3, StaysInPlace DEF BrakesInv
<1> QED  BY <1>5, <1>6, <1>7 DEF BrakesInv

\* The user of a use on its way to or from the user's place.
LEMMA ConsolesOwner ==
  ASSUME BrakesInv, NEW t \in Threads, execs[t].at \in {"slotted", "leaving"}
  PROVE  t \in Places /\ execs[t].why = "console" /\ execs[t].user \in Testers
<1>1. t \in Places /\ InPlace(t, execs[t]) /\ execs[t].why \in Whys
  BY DEF BrakesInv, PlacesAreRight, Places, SandboxTypeOK, ExecRows
<1> QED  BY <1>1 DEF InPlace, InTest, InAgent, Whys

LEMMA EnterBrakes ==
  ASSUME BrakesInv, NEW t \in Threads, Enter(t)
  PROVE  BrakesInv'
<1> DEFINE own == execs[t].user
           e == With(execs[t], "executing", execs[t].validated, execs[t].in, execs[t].moved)
<1>1. /\ execs[t].at = "slotted" /\ inProgress[own] < MaxPerUser
      /\ inProgress' = [inProgress EXCEPT ![own] = inProgress[own] + 1]
      /\ Move(t, "executing") /\ UNCHANGED <<host, verdicts, slots>>
  BY DEF Enter, ExecAt
<1>2. t \in Places /\ execs[t].why = "console" /\ own \in Testers
  BY <1>1, ConsolesOwner
<1>3. Becomes(t, e)
  BY <1>1, <1>2, MoveIs DEF BrakesInv, ExecPoints
<1>4. e.at = "executing" /\ e.why = "console" /\ e.user = own
  BY <1>2, WithFields
<1> HIDE DEF e
<1>5. InPlace(t, e)
  BY <1>2, <1>4 DEF InPlace, InConsole
<1>6. /\ Taken(t, execs[t]) /\ Taken(t, e) /\ ~ Within(t, execs[t], own) /\ Within(t, e, own)
  BY <1>1, <1>4 DEF Taken, Within
<1> HIDE DEF own
<1>7. Counted' /\ inProgress' \in [Testers -> Nat]
  BY <1>1, <1>2, <1>3, <1>6, CountsEnter DEF own
<1>8. SandboxTypeOK'
  BY <1>1, <1>3, <1>7 DEF BrakesInv, SandboxTypeOK, Becomes
<1>9. PlacesAreRight'
  BY <1>2, <1>3, <1>5, StaysInPlace DEF BrakesInv
<1> QED  BY <1>7, <1>8, <1>9 DEF BrakesInv

LEMMA LeaveBrakes ==
  ASSUME BrakesInv, NEW t \in Threads, LeaveUser(t)
  PROVE  BrakesInv'
<1> DEFINE own == execs[t].user
           e == With(execs[t], "releasing", execs[t].validated, execs[t].in, execs[t].moved)
<1>1. /\ execs[t].at = "leaving"
      /\ inProgress' = [inProgress EXCEPT ![own] = IF inProgress[own] = 0 THEN 0 ELSE inProgress[own] - 1]
      /\ Move(t, "releasing") /\ UNCHANGED <<host, verdicts, slots>>
  BY DEF LeaveUser, ExecAt
<1>2. t \in Places /\ execs[t].why = "console" /\ own \in Testers
  BY <1>1, ConsolesOwner
<1>3. Becomes(t, e)
  BY <1>1, <1>2, MoveIs DEF BrakesInv, ExecPoints
<1>4. e.at = "releasing" /\ e.why = "console" /\ e.user = own
  BY <1>2, WithFields
<1> HIDE DEF e
<1>5. InPlace(t, e)
  BY <1>2, <1>4 DEF InPlace, InConsole
<1>6. /\ Taken(t, execs[t]) /\ Taken(t, e) /\ Within(t, execs[t], own) /\ ~ Within(t, e, own)
  BY <1>1, <1>2, <1>4 DEF Taken, Within
<1> HIDE DEF own
<1>7. Counted' /\ inProgress' \in [Testers -> Nat]
  BY <1>1, <1>2, <1>3, <1>4, <1>6, CountsLeave
<1>8. SandboxTypeOK'
  BY <1>1, <1>3, <1>7 DEF BrakesInv, SandboxTypeOK, Becomes
<1>9. PlacesAreRight'
  BY <1>2, <1>3, <1>5, StaysInPlace DEF BrakesInv
<1> QED  BY <1>7, <1>8, <1>9 DEF BrakesInv

\* Where a use that is not idle may be, by who asked for it.
LEMMA PlaceOf ==
  ASSUME BrakesInv, NEW t \in Places
  PROVE  /\ InPlace(t, execs[t]) /\ execs[t].why \in Whys /\ execs[t].at \in ExecPoints
         /\ (execs[t].why = "none") => (execs[t].at = "idle")
         /\ (execs[t].at = "idle") => (execs[t].why = "none")
<1>1. InPlace(t, execs[t]) /\ execs[t].why \in Whys /\ execs[t].at \in ExecPoints
  BY DEF BrakesInv, PlacesAreRight, SandboxTypeOK, ExecRows
<1> QED  BY <1>1 DEF InPlace, InConsole, InTest, InAgent, Whys

\* A use that is at work on a program, and goes on to At or is over.
InWork == {"executing", "prepared", "selected", "running"}

LEMMA WorkGoesOn ==
  ASSUME BrakesInv, NEW t \in Places, UNCHANGED <<host, slots, inProgress>>,
         verdicts' \in [Confinements -> {"unknown", "holds", "fails"}], execs[t].at \in InWork,
         NEW at \in InWork, NEW validated, NEW in, NEW moved,
         Becomes(t, With(execs[t], at, validated, in, moved))
  PROVE  BrakesInv'
<1> DEFINE e == With(execs[t], at, validated, in, moved)
<1>1. e.at = at /\ e.why = execs[t].why /\ e.user = execs[t].user
  BY WithFields
<1>2. Becomes(t, e)
  OBVIOUS
<1> HIDE DEF e
<1>3. InPlace(t, execs[t])
  BY PlaceOf
<1>4. InPlace(t, e)
  BY <1>1, <1>3 DEF InPlace, InWork, InConsole, InTest, InAgent
<1>5. /\ e.at # "idle" /\ execs[t].at # "idle"
      /\ e.at \notin {"slotted", "releasing"} /\ execs[t].at \notin {"slotted", "releasing"}
  BY <1>1 DEF InWork
<1> QED  BY <1>1, <1>2, <1>4, <1>5, UnderWay

LEMMA WorkIsOver ==
  ASSUME BrakesInv, NEW t \in Places, UNCHANGED <<host, slots, inProgress>>,
         verdicts' \in [Confinements -> {"unknown", "holds", "fails"}], execs[t].at \in InWork,
         Finish(t)
  PROVE  BrakesInv'
<1>1. Becomes(t, Over(t))
  BY FinishIs DEF BrakesInv
<1>2. InPlace(t, execs[t]) /\ execs[t].why \in Whys \ {"none"} /\ execs[t].at # "idle"
      /\ execs[t].at \notin {"slotted", "releasing"}
  BY PlaceOf DEF InWork
<1>3. CASE execs[t].why \in {"console", "test"}
  <2> DEFINE at == IF execs[t].why = "console" THEN "leaving" ELSE "testing"
             e  == With(execs[t], at, TRUE, {}, execs[t].moved)
  <2>1. e.at = at /\ e.why = execs[t].why /\ e.user = execs[t].user
    BY DEF With
  <2>2. Becomes(t, e)
    BY <1>1, <1>3 DEF Over
  <2> HIDE DEF e
  <2>3. InPlace(t, e) /\ e.at # "idle" /\ e.at \notin {"slotted", "releasing"}
    BY <1>2, <1>3, <2>1 DEF InPlace, InConsole, InTest
  <2> QED  BY <1>2, <2>1, <2>2, <2>3, UnderWay
<1>4. CASE execs[t].why = "agent"
  <2>1. Becomes(t, NoExec) /\ t = EventLoop
    BY <1>1, <1>2, <1>4 DEF Over, InPlace
  <2> QED  BY <1>2, <2>1, UnderWay
<1> QED  BY <1>2, <1>3, <1>4 DEF Whys

LEMMA ProbesTyped ==
  ASSUME SandboxTypeOK
  PROVE  /\ \A w \in Consulted : w \in [Confinements -> {"unknown", "holds", "fails"}]
         /\ \A w \in ProbeNamespace(verdicts) : w \in [Confinements -> {"unknown", "holds", "fails"}]
<1>1. verdicts \in [Confinements -> {"unknown", "holds", "fails"}]
  BY DEF SandboxTypeOK
<1>2. \A w \in Consulted : w \in [Confinements -> {"unknown", "holds", "fails"}]
  BY ConsultedSettle DEF Settles
<1>3. \A w \in ProbeNamespace(verdicts) : w \in [Confinements -> {"unknown", "holds", "fails"}]
  BY <1>1, ProbesSettle DEF Settles
<1> QED  BY <1>2, <1>3

\* A program is checked, started in one confinement or another, and ends.
LEMMA WorkBrakes ==
  ASSUME BrakesInv, NEW t \in Places,
         \/ Check(t) \/ Select(t) \/ RunContainer(t) \/ RunWindows(t) \/ RunPosix(t)
         \/ ContainerEnds(t) \/ PosixEnds(t) \/ JobEnds(t)
  PROVE  BrakesInv'
<1>0. /\ {"container"} \in SUBSET Confinements /\ {"job"} \in SUBSET Confinements
      /\ {"namespace"} \in SUBSET Confinements /\ {} \in SUBSET Confinements
      /\ "prepared" \in InWork /\ "selected" \in InWork /\ "running" \in InWork
      /\ "executing" \in InWork /\ "selected" \in ExecPoints
  BY DEF Confinements, InWork, ExecPoints
<1>1. SandboxTypeOK /\ verdicts \in [Confinements -> {"unknown", "holds", "fails"}]
  BY DEF BrakesInv, SandboxTypeOK
<1>2. CASE Check(t)
  <2>1. /\ UNCHANGED <<host, slots, inProgress>> /\ execs[t].at \in InWork
        /\ verdicts' \in [Confinements -> {"unknown", "holds", "fails"}]
    BY <1>0, <1>1, <1>2, ProbesTyped DEF Check, ExecAt
  <2>2. \/ execs' = [execs EXCEPT ![t].at = "prepared", ![t].moved = @ /\ execs[t].why = "test"]
        \/ Finish(t)
    BY <1>2, Zenon DEF Check
  <2>3. CASE execs' = [execs EXCEPT ![t].at = "prepared", ![t].moved = @ /\ execs[t].why = "test"]
    BY <1>0, <1>1, <2>1, <2>3, PreparedIs, WorkGoesOn
  <2>4. CASE Finish(t)
    BY <2>1, <2>4, WorkIsOver
  <2> QED  BY <2>2, <2>3, <2>4
<1>3. CASE Select(t)
  <2>1. UNCHANGED <<host, verdicts, slots, inProgress>> /\ execs[t].at \in InWork /\ Move(t, "selected")
    BY <1>0, <1>3 DEF Select, ExecAt
  <2> QED  BY <1>0, <1>1, <2>1, MoveIs, WorkGoesOn
<1>4. ASSUME NEW in \in SUBSET Confinements, Start(t, in), UNCHANGED <<host, slots, inProgress>>,
             verdicts' \in [Confinements -> {"unknown", "holds", "fails"}], execs[t].at \in InWork
      PROVE  BrakesInv'
  BY <1>0, <1>1, <1>4, StartIs, WorkGoesOn
<1>5. CASE RunContainer(t) \/ RunWindows(t)
  <2>1. UNCHANGED <<host, verdicts, slots, inProgress>> /\ execs[t].at \in InWork
    BY <1>0, <1>5 DEF RunContainer, RunWindows, ExecAt
  <2>2. Start(t, {"container"}) \/ Start(t, {"job"}) \/ Finish(t)
    BY <1>5 DEF RunContainer, RunWindows
  <2> QED  BY <1>0, <1>1, <1>4, <2>1, <2>2, WorkIsOver
<1>6. CASE RunPosix(t)
  <2>1. /\ UNCHANGED <<host, slots, inProgress>> /\ execs[t].at \in InWork
        /\ verdicts' \in [Confinements -> {"unknown", "holds", "fails"}]
    BY <1>0, <1>1, <1>6, ProbesTyped DEF RunPosix, ExecAt
  <2>2. Start(t, {"namespace"}) \/ Start(t, {}) \/ Finish(t)
    BY <1>6 DEF RunPosix
  <2> QED  BY <1>0, <1>4, <2>1, <2>2, WorkIsOver
<1>7. CASE ContainerEnds(t) \/ PosixEnds(t) \/ JobEnds(t)
  <2>1. UNCHANGED <<host, verdicts, slots, inProgress>> /\ execs[t].at \in InWork /\ Finish(t)
    BY <1>0, <1>7 DEF ContainerEnds, PosixEnds, JobEnds, Ends, ExecAt
  <2> QED  BY <1>1, <2>1, WorkIsOver
<1> QED  BY <1>2, <1>3, <1>5, <1>6, <1>7

\* A use of a console's brake or of a self-test goes on to At.
LEMMA MoveBrakes ==
  ASSUME BrakesInv, NEW t \in Threads, NEW at \in ExecPoints, Move(t, at),
         UNCHANGED <<host, slots, inProgress>>,
         verdicts' \in [Confinements -> {"unknown", "holds", "fails"}],
         \/ execs[t].at = "slotted" /\ at = "releasing"
         \/ execs[t].at \in {"opening", "testing"} /\ at \in {"testing", "releasing"}
  PROVE  BrakesInv'
<1> DEFINE e == With(execs[t], at, execs[t].validated, execs[t].in, execs[t].moved)
<1>1. t \in Places /\ SandboxTypeOK
  BY DEF Places, BrakesInv
<1>2. Becomes(t, e)
  BY <1>1, MoveIs
<1>3. e.at = at /\ e.why = execs[t].why /\ e.user = execs[t].user
  BY WithFields
<1> HIDE DEF e
<1>4. InPlace(t, execs[t]) /\ execs[t].why \in Whys
  BY <1>1, PlaceOf
<1>5. \/ execs[t].why = "console" /\ execs[t].at = "slotted" /\ at = "releasing"
      \/ execs[t].why = "test"
  BY <1>4 DEF InPlace, InConsole, InTest, InAgent, Whys
<1>6. InPlace(t, e)
  BY <1>3, <1>4, <1>5 DEF InPlace, InConsole, InTest
<1> QED  BY <1>1, <1>2, <1>3, <1>5, <1>6, UnderWay

LEMMA TestBrakes ==
  ASSUME BrakesInv, NEW t \in Threads, TestJob(t) \/ \E reviewed \in BOOLEAN : TestRuns(t, reviewed)
  PROVE  BrakesInv'
<1>1. t \in Places /\ SandboxTypeOK /\ execs[t].at = "testing"
      /\ UNCHANGED <<host, verdicts, slots, inProgress>>
      /\ verdicts \in [Confinements -> {"unknown", "holds", "fails"}]
  BY DEF Places, BrakesInv, SandboxTypeOK, TestJob, TestRuns, ExecAt
<1>2. \E validated, in, moved : \E at \in {"running", "executing"} :
        Becomes(t, With(execs[t], at, validated, in, moved))
  BY <1>1, TestJobIs, TestRunIs
<1>3. PICK validated, in, moved : \E at \in {"running", "executing"} :
        Becomes(t, With(execs[t], at, validated, in, moved))
  BY <1>2
<1>4. PICK at \in {"running", "executing"} : Becomes(t, With(execs[t], at, validated, in, moved))
  BY <1>3
<1> DEFINE e == With(execs[t], at, validated, in, moved)
<1>5. e.at = at /\ e.why = execs[t].why /\ e.user = execs[t].user
  BY WithFields
<1>6. Becomes(t, e)
  BY <1>4
<1> HIDE DEF e
<1>7. InPlace(t, execs[t]) /\ execs[t].why \in Whys
  BY <1>1, PlaceOf
<1>8. execs[t].why = "test"
  BY <1>1, <1>7 DEF InPlace, InConsole, InTest, InAgent, Whys
<1>9. InPlace(t, e)
  BY <1>5, <1>8 DEF InPlace, InTest
<1> QED  BY <1>1, <1>5, <1>6, <1>8, <1>9, UnderWay

\* A self-test takes a probe anew: of the other uses only the mark changes.
LEMMA ReprobedIs ==
  ASSUME SandboxTypeOK, NEW t \in Places, NEW kind \in Confinements, NEW found \in {"holds", "fails"},
         NEW then \in ExecPoints, Reprobed(t, kind, found, then)
  PROVE  /\ SandboxTypeOK'
         /\ verdicts'[kind] = found /\ \A k \in Confinements \ {kind} : verdicts'[k] = verdicts[k]
         /\ execs'[t].at = then /\ execs'[t].why = execs[t].why /\ execs'[t].user = execs[t].user
         /\ execs'[t].in = execs[t].in /\ execs'[t].moved = execs[t].moved
         /\ \A u \in Places \ {t} :
              /\ execs'[u].at = execs[u].at /\ execs'[u].why = execs[u].why
              /\ execs'[u].user = execs[u].user /\ execs'[u].in = execs[u].in
              /\ execs'[u].moved = (execs[u].moved \/ (Allowed(u) /\ found # verdicts[kind]))
<1>1. /\ verdicts' = [verdicts EXCEPT ![kind] = found]
      /\ UNCHANGED <<host, slots, inProgress>>
  BY DEF Reprobed
<1>2. verdicts' \in [Confinements -> {"unknown", "holds", "fails"}]
      /\ verdicts'[kind] = found /\ \A k \in Confinements \ {kind} : verdicts'[k] = verdicts[k]
  BY <1>1 DEF SandboxTypeOK
<1>3. execs' = [u \in Places |->
        IF u = t THEN [execs[u] EXCEPT !.probed = TRUE, !.at = then]
        ELSE [execs[u] EXCEPT !.moved = @ \/ (Allowed(u) /\ found # verdicts[kind])]]
  <2>1. DOMAIN execs = Places
    BY DEF SandboxTypeOK
  <2> QED  BY <2>1, Zenon DEF Reprobed
<1>4. ASSUME NEW u \in Places \ {t}
      PROVE  /\ execs'[u] \in ExecRows
             /\ execs'[u].at = execs[u].at /\ execs'[u].why = execs[u].why
             /\ execs'[u].user = execs[u].user /\ execs'[u].in = execs[u].in
             /\ execs'[u].moved = (execs[u].moved \/ (Allowed(u) /\ found # verdicts[kind]))
  <2> DEFINE m == execs[u].moved \/ (Allowed(u) /\ found # verdicts[kind])
             r == execs[u]
  <2>1. execs'[u] = [r EXCEPT !.moved = m]
    BY <1>3, Zenon
  <2>2. r \in ExecRows /\ m \in BOOLEAN
    BY FieldsTyped DEF ExecRows
  <2> HIDE DEF m, r
  <2>3. [r EXCEPT !.moved = m] = Row(r.at, r.why, r.user, r.validated, r.in, r.probed, m)
    BY <2>2, FieldSet, ZenonT(40)
  <2>4. Row(r.at, r.why, r.user, r.validated, r.in, r.probed, m) \in ExecRows
    BY <2>2 DEF Row, ExecRows
  <2>5. execs'[u] \in ExecRows /\ execs'[u].at = r.at /\ execs'[u].why = r.why
        /\ execs'[u].user = r.user /\ execs'[u].in = r.in /\ execs'[u].moved = m
    BY <2>1, <2>3, <2>4 DEF Row
  <2> QED  BY <2>5 DEF m, r
<1>5. /\ execs'[t] \in ExecRows
      /\ execs'[t].at = then /\ execs'[t].why = execs[t].why /\ execs'[t].user = execs[t].user
      /\ execs'[t].in = execs[t].in /\ execs'[t].moved = execs[t].moved
  <2> DEFINE r == execs[t]
             q == [r EXCEPT !.probed = TRUE]
             yes == TRUE
  <2>1. execs'[t] = [q EXCEPT !.at = then]
    BY <1>3, Zenon
  <2>2. r \in ExecRows /\ yes \in BOOLEAN
    BY FieldsTyped
  <2>3. q = Row(r.at, r.why, r.user, r.validated, r.in, yes, r.moved)
    <3> HIDE DEF r
    <3>1. [r EXCEPT !.probed = yes] = Row(r.at, r.why, r.user, r.validated, r.in, yes, r.moved)
      <4> HIDE DEF yes
      <4> QED  BY <2>2, FieldSet, Zenon
    <3> QED  BY <3>1, Zenon DEF yes
  <2>4. q \in ExecRows /\ q.at = r.at /\ q.why = r.why /\ q.user = r.user /\ q.in = r.in
        /\ q.moved = r.moved
    <3> HIDE DEF r, q
    <3> QED  BY <2>2, <2>3 DEF Row, ExecRows
  <2> HIDE DEF r, q
  <2>5. [q EXCEPT !.at = then] = Row(then, q.why, q.user, q.validated, q.in, q.probed, q.moved)
    BY <2>4, FieldSet, Zenon
  <2>6. Row(then, q.why, q.user, q.validated, q.in, q.probed, q.moved) \in ExecRows
    BY <2>4 DEF Row, ExecRows
  <2>7. /\ execs'[t] \in ExecRows /\ execs'[t].at = then /\ execs'[t].why = r.why
        /\ execs'[t].user = r.user /\ execs'[t].in = r.in /\ execs'[t].moved = r.moved
    BY <2>1, <2>4, <2>5, <2>6 DEF Row
  <2> QED  BY <2>7 DEF r
<1>6. execs' \in [Places -> ExecRows]
  BY <1>3, <1>4, <1>5
<1>7. SandboxTypeOK'
  BY <1>1, <1>2, <1>6 DEF SandboxTypeOK
<1> QED  BY <1>2, <1>4, <1>5, <1>7

LEMMA ReprobedBrakes ==
  ASSUME BrakesInv, NEW t \in Threads, NEW kind \in Confinements, NEW found \in {"holds", "fails"},
         NEW then \in {"testing", "releasing"}, Reprobed(t, kind, found, then)
  PROVE  BrakesInv'
<1>1. t \in Places /\ SandboxTypeOK /\ then \in ExecPoints /\ execs[t].at = "testing"
      /\ UNCHANGED <<host, slots, inProgress>>
  BY DEF Places, BrakesInv, ExecPoints, Reprobed, ExecAt
<1>2. /\ SandboxTypeOK'
      /\ execs'[t].at = then /\ execs'[t].why = execs[t].why /\ execs'[t].user = execs[t].user
      /\ \A u \in Places \ {t} :
           /\ execs'[u].at = execs[u].at /\ execs'[u].why = execs[u].why
           /\ execs'[u].user = execs[u].user
  BY <1>1, ReprobedIs
<1>3. InPlace(t, execs[t]) /\ execs[t].why \in Whys
  BY <1>1, PlaceOf
<1>4. execs[t].why = "test"
  BY <1>1, <1>3 DEF InPlace, InConsole, InTest, InAgent, Whys
<1>5. PlacesAreRight'
  <2>1. InPlace(t, execs'[t])
    BY <1>2, <1>4 DEF InPlace, InTest
  <2>2. ASSUME NEW u \in Places \ {t} PROVE InPlace(u, execs'[u])
    BY <1>2, <2>2 DEF BrakesInv, PlacesAreRight, InPlace
  <2> QED  BY <2>1, <2>2 DEF PlacesAreRight
<1>6. Busy' = Busy
  BY <1>1, <1>2 DEF Busy, ExecAt, Places
<1>7. \A user \in Testers : Inside(user)' = Inside(user)
  BY <1>2, <1>4 DEF Inside, OfUser, Places
<1>8. Counted'
  BY <1>1, <1>6, <1>7 DEF BrakesInv, Counted
<1> QED  BY <1>2, <1>5, <1>8 DEF BrakesInv

LEMMA BrakesKept == BrakesInv /\ [SandboxNext]_sandboxVars => BrakesInv'
<1> SUFFICES ASSUME BrakesInv, [SandboxNext]_sandboxVars PROVE BrakesInv'
  OBVIOUS
<1>0. SandboxTypeOK /\ verdicts \in [Confinements -> {"unknown", "holds", "fails"}]
  BY DEF BrakesInv, SandboxTypeOK
<1>1. ASSUME NEW t \in Threads, NEW user \in Testers,
             Acquire(t, "console", user) \/ Acquire(t, "test", user)
      PROVE  BrakesInv'
  BY <1>1, AcquireBrakes
<1>2. ASSUME NEW t \in Threads, RefuseUser(t) PROVE BrakesInv'
  <2>1. execs[t].at = "slotted" /\ Move(t, "releasing") /\ UNCHANGED <<host, verdicts, slots, inProgress>>
    BY <1>2 DEF RefuseUser, ExecAt
  <2>2. "releasing" \in ExecPoints
    BY DEF ExecPoints
  <2> QED  BY <1>0, <2>1, <2>2, MoveBrakes
<1>3. ASSUME NEW t \in Threads, Enter(t) \/ LeaveUser(t) \/ Release(t) PROVE BrakesInv'
  BY <1>3, EnterBrakes, LeaveBrakes, ReleaseBrakes
<1>4. ASSUME NEW t \in Threads, OpenTest(t) PROVE BrakesInv'
  <2>1. /\ execs[t].at = "opening" /\ (Move(t, "testing") \/ Move(t, "releasing"))
        /\ verdicts' \in Consulted /\ UNCHANGED <<host, slots, inProgress>>
    BY <1>4 DEF OpenTest, ExecAt
  <2>2. "releasing" \in ExecPoints /\ "testing" \in ExecPoints
    BY DEF ExecPoints
  <2>3. verdicts' \in [Confinements -> {"unknown", "holds", "fails"}]
    BY <1>0, <2>1, ProbesTyped
  <2> QED  BY <2>1, <2>2, <2>3, MoveBrakes
<1>5. ASSUME NEW t \in Threads, CloseTest(t) PROVE BrakesInv'
  <2>1. execs[t].at = "testing" /\ Move(t, "releasing") /\ UNCHANGED <<host, verdicts, slots, inProgress>>
    BY <1>5 DEF CloseTest, ExecAt
  <2>2. "releasing" \in ExecPoints
    BY DEF ExecPoints
  <2> QED  BY <1>0, <2>1, <2>2, MoveBrakes
<1>6. ASSUME NEW t \in Threads, TestJob(t) \/ \E reviewed \in BOOLEAN : TestRuns(t, reviewed)
      PROVE  BrakesInv'
  BY <1>6, TestBrakes
<1>7. ASSUME NEW t \in Threads, NEW found \in {"holds", "fails"},
             TestContainer(t, found) \/ TestNamespace(t, found)
      PROVE  BrakesInv'
  <2>1. \E kind \in Confinements : \E then \in {"testing", "releasing"} : Reprobed(t, kind, found, then)
    BY <1>7 DEF TestContainer, TestNamespace, Confinements
  <2> QED  BY <2>1, ReprobedBrakes
<1>8. ASSUME NEW t \in Places,
             \/ Check(t) \/ Select(t) \/ RunContainer(t) \/ RunWindows(t) \/ RunPosix(t)
             \/ ContainerEnds(t) \/ PosixEnds(t) \/ JobEnds(t)
      PROVE  BrakesInv'
  BY <1>8, WorkBrakes
<1>9. CASE AgentRuns
  <2> DEFINE e == Asked("executing", "agent", NoUser)
  <2>1. Becomes(EventLoop, e) /\ EventLoop \in Places
    BY <1>0, <1>9, AgentRunIs DEF Places
  <2>2. e.at = "executing" /\ e.why = "agent"
    BY DEF Asked
  <2> HIDE DEF e
  <2>3. UNCHANGED <<host, verdicts, slots, inProgress>> /\ EventLoop \notin Threads
    BY <1>9, SandboxAssumption DEF AgentRuns
  <2>4. InPlace(EventLoop, e)
    BY <2>2 DEF InPlace, InAgent
  <2>5. PlacesAreRight'
    BY <2>1, <2>4, StaysInPlace DEF BrakesInv
  <2>6. Counted'
    BY <2>1, <2>3, CountsKeep DEF Taken, Within
  <2>7. SandboxTypeOK'
    BY <1>0, <2>1, <2>3 DEF SandboxTypeOK, Becomes
  <2> QED  BY <2>5, <2>6, <2>7 DEF BrakesInv
<1>10. CASE UNCHANGED sandboxVars
  BY <1>10 DEF sandboxVars, BrakesInv, SandboxTypeOK, PlacesAreRight, InPlace, Counted, Busy, Inside,
               OfUser, ExecAt
<1> QED
  BY <1>1, <1>2, <1>3, <1>4, <1>5, <1>6, <1>7, <1>8, <1>9, <1>10 DEF SandboxNext, Places

\* BrakesHold for every number of threads, users and slots: what runs for the console and for
\* self-tests never outnumbers the slots, a user never has more at once than they may, and
\* every slot and place is given back by the request that took it.
THEOREM BrakesAlwaysHold == SandboxSpec => []BrakesHold
<1>1. BrakesInv => BrakesHold
  <2> SUFFICES ASSUME BrakesInv PROVE BrakesHold
    OBVIOUS
  <2>1. DOMAIN execs = Places
    BY DEF BrakesInv, SandboxTypeOK
  <2>2. Running \cap Threads \subseteq Busy
    BY DEF Running, Busy, ExecAt
  <2>3. \A user \in Testers : Running \cap OfUser(user) \subseteq Inside(user)
    BY DEF Running, Inside, ExecAt
  <2>4. /\ Cardinality(Running \cap Threads) <= Cardinality(Busy)
        /\ Cardinality(Running \cap Threads) \in Nat
    BY <2>2, CountsAreFinite, FS_Subset, FS_CardinalityType
  <2>5. ASSUME NEW user \in Testers
        PROVE  /\ Cardinality(Running \cap OfUser(user)) <= Cardinality(Inside(user))
               /\ Cardinality(Running \cap OfUser(user)) \in Nat
    BY <2>3, CountsAreFinite, FS_Subset, FS_CardinalityType
  <2>6. slots \in Nat /\ MaxGlobal \in Nat /\ MaxPerUser \in Nat /\ inProgress \in [Testers -> Nat]
        /\ Cardinality(Busy) \in Nat /\ \A user \in Testers : Cardinality(Inside(user)) \in Nat
    BY CountsAreFinite, SandboxAssumption DEF BrakesInv, SandboxTypeOK
  <2>7. slots + Cardinality(Busy) = MaxGlobal /\ Cardinality(Running \cap Threads) <= MaxGlobal
    BY <2>4, <2>6 DEF BrakesInv, Counted
  <2>8. \A user \in Testers :
          /\ Cardinality(Running \cap OfUser(user)) <= MaxPerUser
          /\ inProgress[user] = Cardinality(Inside(user))
    <3> HIDE DEF Inside, OfUser, Running
    <3> QED  BY <2>5, <2>6 DEF BrakesInv, Counted
  <2> QED  BY <2>7, <2>8 DEF BrakesHold, Busy, Inside
<1> QED  BY <1>1, BrakesStart, BrakesKept, PTL DEF SandboxSpec

-----------------------------------------------------------------------------
(***************************************************************************)
(* The confinement.  A use that is not marked as moved was checked against *)
(* verdicts that still say what they said; a self-test's own is known to   *)
(* on Windows, where it starts programs without a check of their own.      *)
(***************************************************************************)
DemandedIn(in) ==
  /\ host.enabled
  /\ host.container /\ host.fallback = "refuse" => "container" \in in
  /\ Posix /\ host.namespaces = "require" => in \cap {"container", "namespace"} # {}
  /\ ~Posix => in # {}

Sound(v, e) ==
  \/ e.moved
  \/ /\ (e.at = "prepared") => ExecutionAllowed(v)
     /\ (e.at = "selected") => (ExecutionAllowed(v) /\ Posix /\ Selection(v) # "container")
     /\ (e.why = "test" /\ e.at \in {"testing", "executing", "prepared", "running"}
           /\ host.platform = "windows") => ExecutionAllowed(v)
     /\ (e.at = "running") => DemandedIn(e.in)

ContainerIsProbed == host.container => verdicts["container"] # "unknown"

ConfinedInv == BrakesInv /\ ContainerIsProbed /\ \A t \in Places : Sound(verdicts, execs[t])

\* Asking a probe again takes no permission back.
LEMMA PermissionStays ==
  ASSUME SandboxTypeOK, ContainerIsProbed, NEW w, Settles(verdicts, w)
  PROVE  /\ Selection(w) = Selection(verdicts)
         /\ Namespaced(w) = Namespaced(verdicts)
         /\ ExecutionAllowed(verdicts) => ExecutionAllowed(w)
<1>1. \A k \in {"container", "namespace", "job"} : verdicts[k] # "unknown" => w[k] = verdicts[k]
  BY DEF Settles, Confinements
<1>2. Selection(w) = Selection(verdicts)
  BY <1>1 DEF Selection, ContainerIsProbed
<1>3. Namespaced(w) = Namespaced(verdicts)
  BY <1>2 DEF Namespaced
<1>4. ExecutionAllowed(verdicts) => ExecutionAllowed(w)
  BY <1>1, <1>2, <1>3 DEF ExecutionAllowed
<1> QED  BY <1>2, <1>3, <1>4

LEMMA SoundStays ==
  ASSUME SandboxTypeOK, ContainerIsProbed, NEW w, Settles(verdicts, w), NEW e, Sound(verdicts, e)
  PROVE  Sound(w, e)
BY PermissionStays DEF Sound

\* A step of one use that only asks probes keeps what is known of the others.
LEMMA ConfinedByStep ==
  ASSUME ConfinedInv, BrakesInv', host' = host, Settles(verdicts, verdicts'),
         NEW t \in Places, NEW e, Becomes(t, e), Sound(verdicts', e)
  PROVE  ConfinedInv'
<1>1. SandboxTypeOK /\ ContainerIsProbed
  BY DEF ConfinedInv, BrakesInv
<1>2. ContainerIsProbed'
  BY <1>1 DEF ContainerIsProbed, Settles, Confinements
<1>3. ASSUME NEW u \in Places PROVE Sound(verdicts', execs'[u])
  <2>1. CASE u = t
    BY <2>1 DEF Becomes
  <2>2. CASE u # t
    <3>1. execs'[u] = execs[u] /\ Sound(verdicts, execs[u])
      BY <2>2 DEF Becomes, ConfinedInv
    <3> QED  BY <1>1, <3>1, SoundStays
  <2> QED  BY <2>1, <2>2
<1>4. \A u \in Places : Sound(verdicts, execs[u])'
  BY <1>3 DEF Sound, DemandedIn, ExecutionAllowed, Selection, Namespaced, Posix
<1> QED  BY <1>2, <1>4 DEF ConfinedInv

LEMMA SettlesNothing == ASSUME SandboxTypeOK PROVE Settles(verdicts, verdicts)
BY DEF SandboxTypeOK, Settles

LEMMA ConfinedStart == SandboxInit => ConfinedInv
<1> SUFFICES ASSUME SandboxInit PROVE ConfinedInv
  OBVIOUS
<1>1. \A t \in Places : execs[t] = NoExec
  BY DEF SandboxInit, Places
<1>2. \A t \in Places : Sound(verdicts, execs[t])
  BY <1>1, NoExecRow DEF Sound
<1>3. ContainerIsProbed
  BY DEF SandboxInit, ContainerIsProbed, Confinements
<1> QED  BY <1>2, <1>3, BrakesStart DEF ConfinedInv

\* A use that is neither checked nor started: nothing is claimed of it.
LEMMA Unclaimed ==
  ASSUME NEW v, NEW e, e.at \notin {"prepared", "selected", "running"},
         e.why = "test" => e.at \notin {"testing", "executing"}
  PROVE  Sound(v, e)
BY DEF Sound

\* A program that is over leaves a test as it was allowed.
LEMMA OverIsSound ==
  ASSUME ConfinedInv, NEW t \in Places, execs[t].at \in InWork, Settles(verdicts, verdicts')
  PROVE  Sound(verdicts', Over(t))
<1>1. SandboxTypeOK /\ ContainerIsProbed /\ Sound(verdicts, execs[t]) /\ host \in Hosts
  BY DEF ConfinedInv, BrakesInv, SandboxTypeOK
<1>2. CASE execs[t].why = "test"
  <2> DEFINE e == With(execs[t], "testing", TRUE, {}, execs[t].moved)
  <2>1. Over(t) = e
    BY <1>2 DEF Over
  <2>2. e.at = "testing" /\ e.moved = execs[t].moved
    BY DEF With
  <2> HIDE DEF e
  <2>3. execs[t].moved \/ ExecutionAllowed(verdicts) \/ host.platform # "windows"
    BY <1>1, <1>2 DEF Sound, InWork, Posix
  <2>4. e.moved \/ ExecutionAllowed(verdicts') \/ host.platform # "windows"
    BY <1>1, <2>2, <2>3, PermissionStays
  <2> QED  BY <2>1, <2>2, <2>4 DEF Sound
<1>3. CASE execs[t].why = "console"
  <2> DEFINE e == With(execs[t], "leaving", TRUE, {}, execs[t].moved)
  <2>1. Over(t) = e
    BY <1>3 DEF Over
  <2>2. e.at = "leaving"
    BY DEF With
  <2> HIDE DEF e
  <2> QED  BY <2>1, <2>2, Unclaimed
<1>4. CASE execs[t].why \notin {"test", "console"}
  <2>1. Over(t) = NoExec
    BY <1>4 DEF Over
  <2> QED  BY <2>1, NoExecRow, Unclaimed
<1> QED  BY <1>2, <1>3, <1>4

LEMMA FinishConfined ==
  ASSUME ConfinedInv, BrakesInv', host' = host, Settles(verdicts, verdicts'),
         NEW t \in Places, execs[t].at \in InWork, Finish(t)
  PROVE  ConfinedInv'
<1>1. Becomes(t, Over(t))
  BY FinishIs DEF ConfinedInv, BrakesInv
<1> QED  BY <1>1, OverIsSound, ConfinedByStep

\* A child of a checked use is inside what the settings demand.
LEMMA StartConfined ==
  ASSUME ConfinedInv, BrakesInv', host' = host, Settles(verdicts, verdicts'),
         NEW t \in Places, execs[t].at \in {"prepared", "selected"}, NEW in \in SUBSET Confinements,
         Start(t, in),
         ~ execs[t].moved /\ ExecutionAllowed(verdicts') => DemandedIn(in)
  PROVE  ConfinedInv'
<1> DEFINE e == With(execs[t], "running", execs[t].validated, in, execs[t].moved)
<1>1. SandboxTypeOK /\ ContainerIsProbed /\ Sound(verdicts, execs[t]) /\ Sound(verdicts', execs[t])
  BY SoundStays DEF ConfinedInv, BrakesInv
<1>2. Becomes(t, e)
  BY <1>1, StartIs
<1>3. e.at = "running" /\ e.why = execs[t].why /\ e.in = in /\ e.moved = execs[t].moved
  BY WithFields
<1> HIDE DEF e
<1>4. execs[t].moved \/ ExecutionAllowed(verdicts')
  BY <1>1 DEF Sound
<1>5. Sound(verdicts', e)
  BY <1>3, <1>4 DEF Sound
<1> QED  BY <1>2, <1>5, ConfinedByStep

LEMMA WorkConfined ==
  ASSUME ConfinedInv, BrakesInv', NEW t \in Places,
         \/ Check(t) \/ Select(t) \/ RunContainer(t) \/ RunWindows(t) \/ RunPosix(t)
         \/ ContainerEnds(t) \/ PosixEnds(t) \/ JobEnds(t)
  PROVE  ConfinedInv'
<1>1. /\ SandboxTypeOK /\ ContainerIsProbed /\ Sound(verdicts, execs[t])
      /\ host \in Hosts /\ Settles(verdicts, verdicts)
      /\ verdicts \in [Confinements -> {"unknown", "holds", "fails"}]
  BY SettlesNothing DEF ConfinedInv, BrakesInv, SandboxTypeOK
<1>2. \A in \in {{"container"}, {"job"}, {"namespace"}, {}} : in \in SUBSET Confinements
  BY DEF Confinements
<1>3. CASE Check(t)
  <2>1. host' = host /\ execs[t].at \in InWork /\ verdicts' \in Consulted
    BY <1>3 DEF Check, ExecAt, InWork
  <2>2. Settles(verdicts, verdicts')
    BY <1>1, <2>1, ConsultedSettle
  <2>3. \/ /\ ExecutionAllowed(verdicts')
           /\ execs' = [execs EXCEPT ![t].at = "prepared", ![t].moved = @ /\ execs[t].why = "test"]
        \/ Finish(t)
    BY <1>3, Zenon DEF Check
  <2>4. CASE /\ ExecutionAllowed(verdicts')
             /\ execs' = [execs EXCEPT ![t].at = "prepared", ![t].moved = @ /\ execs[t].why = "test"]
    <3> DEFINE e == With(execs[t], "prepared", execs[t].validated, execs[t].in,
                         execs[t].moved /\ execs[t].why = "test")
    <3>1. Becomes(t, e)
      BY <1>1, <2>4, PreparedIs
    <3>2. e.at = "prepared"
      BY DEF With
    <3> HIDE DEF e
    <3>3. Sound(verdicts', e)
      BY <2>4, <3>2 DEF Sound
    <3> QED  BY <2>1, <2>2, <3>1, <3>3, ConfinedByStep
  <2>5. CASE Finish(t)
    BY <2>1, <2>2, <2>5, FinishConfined
  <2> QED  BY <2>3, <2>4, <2>5
<1>4. CASE Select(t)
  <2> DEFINE e == With(execs[t], "selected", execs[t].validated, execs[t].in, execs[t].moved)
  <2>1. /\ UNCHANGED <<host, verdicts>> /\ execs[t].at = "prepared" /\ Move(t, "selected")
        /\ Selection(verdicts) # "container" /\ Posix
    BY <1>4 DEF Select, ExecAt
  <2>2. "selected" \in ExecPoints
    BY DEF ExecPoints
  <2>3. Becomes(t, e)
    BY <1>1, <2>1, <2>2, MoveIs
  <2>4. e.at = "selected" /\ e.moved = execs[t].moved
    BY DEF With
  <2> HIDE DEF e
  <2>5. Sound(verdicts', e)
    BY <1>1, <2>1, <2>4 DEF Sound
  <2> QED  BY <1>1, <2>1, <2>3, <2>5, ConfinedByStep
<1>5. CASE RunContainer(t)
  <2>1. /\ UNCHANGED <<host, verdicts>> /\ execs[t].at = "prepared"
        /\ Selection(verdicts) = "container" /\ (Start(t, {"container"}) \/ Finish(t))
    BY <1>5 DEF RunContainer, ExecAt
  <2>2. ExecutionAllowed(verdicts) => DemandedIn({"container"})
    BY DEF ExecutionAllowed, DemandedIn
  <2> QED  BY <1>1, <1>2, <2>1, <2>2, StartConfined, FinishConfined DEF InWork
<1>6. CASE RunWindows(t)
  <2>1. /\ UNCHANGED <<host, verdicts>> /\ execs[t].at = "prepared"
        /\ Selection(verdicts) # "container" /\ ~ Posix /\ (Start(t, {"job"}) \/ Finish(t))
    BY <1>6 DEF RunWindows, ExecAt
  <2>2. ExecutionAllowed(verdicts) => DemandedIn({"job"})
    BY <2>1 DEF ExecutionAllowed, DemandedIn, Selection
  <2> QED  BY <1>1, <1>2, <2>1, <2>2, StartConfined, FinishConfined DEF InWork
<1>7. CASE RunPosix(t)
  <2>1. host' = host /\ execs[t].at = "selected" /\ verdicts' \in ProbeNamespace(verdicts)
    BY <1>7 DEF RunPosix, ExecAt
  <2>2. Settles(verdicts, verdicts')
    BY <1>1, <2>1, ProbesSettle
  <2>3. Sound(verdicts', execs[t])
    BY <1>1, <2>2, SoundStays
  <2>4. ASSUME ~ execs[t].moved
        PROVE  /\ DemandedIn({"namespace"})
               /\ (Namespaced(verdicts') /\ verdicts'["namespace"] = "holds") \/ DemandedIn({})
    <3>1. ExecutionAllowed(verdicts') /\ Posix /\ Selection(verdicts') # "container"
      BY <2>1, <2>3, <2>4 DEF Sound
    <3>2. host.enabled /\ ~ (host.container /\ host.fallback = "refuse")
      BY <3>1 DEF ExecutionAllowed, Selection
    <3>3. host.namespaces = "require" => Namespaced(verdicts') /\ verdicts'["namespace"] = "holds"
      BY <3>1 DEF ExecutionAllowed, Posix
    <3> QED  BY <3>1, <3>2, <3>3 DEF DemandedIn
  <2>5. CASE Namespaced(verdicts') /\ verdicts'["namespace"] = "holds"
    <3>1. Start(t, {"namespace"}) \/ Finish(t)
      BY <1>7, <2>5 DEF RunPosix
    <3> QED  BY <1>2, <2>1, <2>2, <2>4, <3>1, StartConfined, FinishConfined DEF InWork
  <2>6. CASE ~ (Namespaced(verdicts') /\ verdicts'["namespace"] = "holds")
    <3>1. Start(t, {})
      BY <1>7, <2>6 DEF RunPosix
    <3> QED  BY <1>2, <2>1, <2>2, <2>4, <2>6, <3>1, StartConfined
  <2> QED  BY <2>5, <2>6
<1>8. CASE ContainerEnds(t) \/ PosixEnds(t) \/ JobEnds(t)
  <2>1. UNCHANGED <<host, verdicts>> /\ execs[t].at \in InWork /\ Finish(t)
    BY <1>8 DEF ContainerEnds, PosixEnds, JobEnds, Ends, ExecAt, InWork
  <2> QED  BY <1>1, <2>1, FinishConfined
<1> QED  BY <1>3, <1>4, <1>5, <1>6, <1>7, <1>8

LEMMA TestConfined ==
  ASSUME ConfinedInv, BrakesInv', NEW t \in Threads,
         TestJob(t) \/ \E reviewed \in BOOLEAN : TestRuns(t, reviewed)
  PROVE  ConfinedInv'
<1>1. /\ SandboxTypeOK /\ Sound(verdicts, execs[t]) /\ Settles(verdicts, verdicts) /\ BrakesInv
      /\ t \in Places /\ UNCHANGED <<host, verdicts>> /\ execs[t].at = "testing"
  BY SettlesNothing DEF ConfinedInv, BrakesInv, Places, TestJob, TestRuns, ExecAt
<1>2. execs[t].why = "test"
  <2>1. InPlace(t, execs[t]) /\ execs[t].why \in Whys
    BY <1>1, PlaceOf
  <2> QED  BY <1>1, <2>1 DEF InPlace, InConsole, InAgent, Whys
<1>3. execs[t].moved \/ (host.platform = "windows" => ExecutionAllowed(verdicts))
  BY <1>1, <1>2 DEF Sound
<1>4. CASE TestJob(t)
  <2> DEFINE e == With(execs[t], "running", FALSE, {"job"}, execs[t].moved)
  <2>1. Becomes(t, e)
    BY <1>1, <1>4, TestJobIs
  <2>2. e.at = "running" /\ e.in = {"job"} /\ e.moved = execs[t].moved
    BY DEF With
  <2> HIDE DEF e
  <2>3. host.platform = "windows" /\ Selection(verdicts) # "container" /\ ~ Posix
    BY <1>4 DEF TestJob, Posix
  <2>4. ExecutionAllowed(verdicts) => DemandedIn({"job"})
    BY <2>3 DEF ExecutionAllowed, DemandedIn, Selection
  <2>5. Sound(verdicts', e)
    BY <1>1, <1>3, <2>2, <2>3, <2>4 DEF Sound
  <2> QED  BY <1>1, <2>1, <2>5, ConfinedByStep
<1>5. ASSUME NEW reviewed \in BOOLEAN, TestRuns(t, reviewed) PROVE ConfinedInv'
  <2> DEFINE e == With(execs[t], "executing", reviewed, execs[t].in, execs[t].moved)
  <2>1. Becomes(t, e)
    BY <1>1, <1>5, TestRunIs
  <2>2. e.at = "executing" /\ e.moved = execs[t].moved
    BY WithFields
  <2> HIDE DEF e
  <2>3. Sound(verdicts', e)
    BY <1>1, <1>3, <2>2 DEF Sound
  <2> QED  BY <1>1, <2>1, <2>3, ConfinedByStep
<1> QED  BY <1>4, <1>5

\* A probe taken anew that says what it said changes nothing; one that says something else
\* marks every use that was allowed before it.
LEMMA ReprobedConfined ==
  ASSUME ConfinedInv, BrakesInv', NEW t \in Threads, NEW found \in {"holds", "fails"},
         TestContainer(t, found) \/ TestNamespace(t, found)
  PROVE  ConfinedInv'
<1>1. PICK kind \in Confinements, then \in {"testing", "releasing"} :
        /\ Reprobed(t, kind, found, then)
        /\ then = "releasing" \/ found = verdicts[kind] \/ host.platform = "linux"
  BY DEF TestContainer, TestNamespace, Confinements, Selection, Namespaced
<1>2. SandboxTypeOK /\ t \in Places /\ then \in ExecPoints /\ host' = host /\ BrakesInv
      /\ \A u \in Places : Sound(verdicts, execs[u])
  BY <1>1 DEF ConfinedInv, BrakesInv, Places, ExecPoints, Reprobed
<1>3. /\ verdicts'[kind] = found /\ \A k \in Confinements \ {kind} : verdicts'[k] = verdicts[k]
      /\ execs'[t].at = then /\ execs'[t].why = execs[t].why /\ execs'[t].moved = execs[t].moved
      /\ \A u \in Places \ {t} :
           /\ execs'[u].at = execs[u].at /\ execs'[u].why = execs[u].why /\ execs'[u].in = execs[u].in
           /\ execs'[u].moved = (execs[u].moved \/ (Allowed(u) /\ found # verdicts[kind]))
      /\ SandboxTypeOK'
  BY <1>1, <1>2, ReprobedIs
<1>4. found = verdicts[kind] => verdicts' = verdicts
  BY <1>2, <1>3 DEF SandboxTypeOK
<1>5. ContainerIsProbed'
  BY <1>2, <1>3 DEF ConfinedInv, ContainerIsProbed, Confinements
<1>6. Sound(verdicts', execs'[t])
  <2>1. Sound(verdicts, execs[t]) /\ execs[t].at = "testing"
    BY <1>1, <1>2 DEF Reprobed, ExecAt
  <2> QED  BY <1>1, <1>3, <1>4, <2>1 DEF Sound
<1>7. ASSUME NEW u \in Places \ {t} PROVE Sound(verdicts', execs'[u])
  <2>1. Sound(verdicts, execs[u]) /\ InPlace(u, execs[u])
    BY <1>2, PlaceOf
  <2>2. CASE found = verdicts[kind]
    BY <1>3, <1>4, <2>1, <2>2 DEF Sound
  <2>3. CASE found # verdicts[kind] /\ Allowed(u)
    BY <1>3, <2>3 DEF Sound
  <2>4. CASE ~ Allowed(u)
    <3>1. execs[u].at \notin {"prepared", "selected"} /\ (execs[u].why = "test" => execs[u].at = "opening")
      BY <2>4 DEF Allowed, ExecAt
    <3>2. execs'[u].moved = execs[u].moved
      <4>1. execs[u].moved \in BOOLEAN
        BY <1>2, FieldsTyped
      <4> QED  BY <1>3, <2>4, <4>1
    <3> QED  BY <1>3, <2>1, <3>1, <3>2 DEF Sound
  <2> QED  BY <2>2, <2>3, <2>4
<1>8. \A u \in Places : Sound(verdicts, execs[u])'
  BY <1>2, <1>6, <1>7 DEF Sound, DemandedIn, ExecutionAllowed, Selection, Namespaced, Posix
<1> QED  BY <1>5, <1>8 DEF ConfinedInv

LEMMA ConfinedKept == ConfinedInv /\ [SandboxNext]_sandboxVars => ConfinedInv'
<1> SUFFICES ASSUME ConfinedInv, [SandboxNext]_sandboxVars PROVE ConfinedInv'
  OBVIOUS
<1>0. /\ BrakesInv' /\ BrakesInv /\ SandboxTypeOK /\ Settles(verdicts, verdicts)
      /\ Threads \subseteq Places
  BY BrakesKept, SettlesNothing DEF ConfinedInv, BrakesInv, Places
<1>1. ASSUME NEW t \in Threads, NEW user \in Testers, NEW why \in {"console", "test"},
             Acquire(t, why, user)
      PROVE  ConfinedInv'
  <2> DEFINE e == Asked(IF why = "console" THEN "slotted" ELSE "opening", why, user)
  <2>1. Becomes(t, e) /\ UNCHANGED <<host, verdicts>>
    BY <1>0, <1>1, AcquireIs DEF Acquire
  <2>2. e.at \in {"slotted", "opening"}
    BY DEF Asked
  <2> HIDE DEF e
  <2>3. Sound(verdicts', e)
    BY <2>2, Unclaimed
  <2> QED  BY <1>0, <2>1, <2>3, ConfinedByStep
<1>2. ASSUME NEW t \in Threads, RefuseUser(t) \/ LeaveUser(t) \/ CloseTest(t) PROVE ConfinedInv'
  <2> DEFINE e == With(execs[t], "releasing", execs[t].validated, execs[t].in, execs[t].moved)
  <2>1. Move(t, "releasing") /\ UNCHANGED <<host, verdicts>> /\ "releasing" \in ExecPoints
    BY <1>2 DEF RefuseUser, LeaveUser, CloseTest, ExecPoints
  <2>2. Becomes(t, e) /\ e.at = "releasing"
    BY <1>0, <2>1, MoveIs, WithFields
  <2> HIDE DEF e
  <2>3. Sound(verdicts', e)
    BY <2>2, Unclaimed
  <2> QED  BY <1>0, <2>1, <2>2, <2>3, ConfinedByStep
<1>3. ASSUME NEW t \in Threads, Enter(t) PROVE ConfinedInv'
  <2> DEFINE e == With(execs[t], "executing", execs[t].validated, execs[t].in, execs[t].moved)
  <2>1. /\ Move(t, "executing") /\ UNCHANGED <<host, verdicts>> /\ "executing" \in ExecPoints
        /\ execs[t].at = "slotted"
    BY <1>3 DEF Enter, ExecPoints, ExecAt
  <2>2. Becomes(t, e) /\ e.at = "executing" /\ e.why = execs[t].why
    BY <1>0, <2>1, MoveIs, WithFields
  <2>3. e.why = "console"
    BY <1>0, <2>1, <2>2, ConsolesOwner
  <2> HIDE DEF e
  <2>4. Sound(verdicts', e)
    BY <2>2, <2>3, Unclaimed
  <2> QED  BY <1>0, <2>1, <2>2, <2>4, ConfinedByStep
<1>4. ASSUME NEW t \in Threads, Release(t) PROVE ConfinedInv'
  <2>1. execs' = [execs EXCEPT ![t] = NoExec] /\ UNCHANGED <<host, verdicts>>
    BY <1>4 DEF Release
  <2>2. Becomes(t, NoExec)
    BY <1>0, <2>1, NoExecRow, Replaced
  <2>3. Sound(verdicts', NoExec)
    BY NoExecRow, Unclaimed
  <2> QED  BY <1>0, <2>1, <2>2, <2>3, ConfinedByStep
<1>5. ASSUME NEW t \in Threads, OpenTest(t) PROVE ConfinedInv'
  <2> DEFINE at == IF ExecutionAllowed(verdicts') THEN "testing" ELSE "releasing"
             e  == With(execs[t], at, execs[t].validated, execs[t].in, execs[t].moved)
  <2>1. Move(t, at) /\ host' = host /\ verdicts' \in Consulted /\ at \in ExecPoints
    BY <1>5 DEF OpenTest, ExecPoints
  <2>2. Becomes(t, e)
    BY <1>0, <2>1, MoveIs
  <2>3. e.at = at
    BY WithFields
  <2> HIDE DEF e
  <2>4. Sound(verdicts', e)
    BY <2>3 DEF Sound
  <2> QED  BY <1>0, <2>1, <2>2, <2>4, ConsultedSettle, ConfinedByStep
<1>6. ASSUME NEW t \in Threads, TestJob(t) \/ \E reviewed \in BOOLEAN : TestRuns(t, reviewed)
      PROVE  ConfinedInv'
  BY <1>0, <1>6, TestConfined
<1>7. ASSUME NEW t \in Threads, NEW found \in {"holds", "fails"},
             TestContainer(t, found) \/ TestNamespace(t, found)
      PROVE  ConfinedInv'
  BY <1>0, <1>7, ReprobedConfined
<1>8. ASSUME NEW t \in Places,
             \/ Check(t) \/ Select(t) \/ RunContainer(t) \/ RunWindows(t) \/ RunPosix(t)
             \/ ContainerEnds(t) \/ PosixEnds(t) \/ JobEnds(t)
      PROVE  ConfinedInv'
  BY <1>0, <1>8, WorkConfined
<1>9. CASE AgentRuns
  <2> DEFINE e == Asked("executing", "agent", NoUser)
  <2>1. Becomes(EventLoop, e) /\ EventLoop \in Places /\ UNCHANGED <<host, verdicts>>
    BY <1>0, <1>9, AgentRunIs DEF Places, AgentRuns
  <2>2. e.at = "executing" /\ e.why = "agent"
    BY DEF Asked
  <2> HIDE DEF e
  <2>3. Sound(verdicts', e)
    BY <2>2, Unclaimed
  <2> QED  BY <1>0, <2>1, <2>3, ConfinedByStep
<1>10. CASE UNCHANGED sandboxVars
  BY <1>0, <1>10 DEF sandboxVars, ConfinedInv, ContainerIsProbed, Sound, DemandedIn, ExecutionAllowed,
                     Selection, Namespaced, Posix
<1> QED
  BY <1>1, <1>2, <1>3, <1>4, <1>5, <1>6, <1>7, <1>8, <1>9, <1>10 DEF SandboxNext, Places

\* ConfinedAsChecked for every number of threads and users and every host: a program runs
\* inside what container_fallback and network_namespace demand, unless a self-test changed a
\* verdict between its check and its start.
THEOREM ProgramsAreConfined == SandboxSpec => []ConfinedAsChecked
<1>1. ConfinedInv => ConfinedAsChecked
  <2> SUFFICES ASSUME ConfinedInv, NEW t \in Running PROVE execs[t].moved \/ Demanded(t)
    BY DEF ConfinedAsChecked
  <2>1. t \in Places /\ execs[t].at = "running"
    BY DEF ConfinedInv, BrakesInv, SandboxTypeOK, Running, ExecAt
  <2>2. Sound(verdicts, execs[t])
    BY <2>1 DEF ConfinedInv
  <2> QED  BY <2>1, <2>2 DEF Sound, Demanded, DemandedIn
<1> QED  BY <1>1, ConfinedStart, ConfinedKept, PTL DEF SandboxSpec

-----------------------------------------------------------------------------
(***************************************************************************)
(* SignIn.  A session is opened from what authenticate accepted earlier, so *)
(* the property is carried by the sign-ins about to open one: an accepted   *)
(* password is the one in force, or the account's sessions are still to be  *)
(* ended, or they were ended in between and the sign-in is late.            *)
(***************************************************************************)
Attempts    == [at : {"read", "open", "opened", "refused"}, name : People, client : Clients,
                password : Nat, late : BOOLEAN]
SessionRows == [user : People, password : Nat, spared : BOOLEAN]
UserRows    == [password : Nat, active : BOOLEAN, ending : BOOLEAN]
SignInRows  == Attempts \cup {Waiting}

StillGood(a, p) == users[a].ending \/ (users[a].active /\ p = users[a].password)
Stands(e)     == e.at = "open" => e.late \/ StillGood(e.name, e.password)

SignInTypes ==
  /\ users \in [People -> UserRows]
  /\ sessions \subseteq SessionRows
  /\ signIns \in [Logins -> SignInRows]

SignedOutInv ==
  /\ SignInTypes
  /\ \A t \in Logins : Stands(signIns[t])
  /\ \A s \in sessions : s.spared \/ StillGood(s.user, s.password)

LEMMA WaitingStands ==
  /\ Waiting \in SignInRows /\ Waiting.at = "idle" /\ Stands(Waiting)
BY DEF Waiting, SignInRows, Stands

LEMMA AttemptIs ==
  ASSUME NEW e \in SignInRows, e.at # "idle"
  PROVE  e \in Attempts
BY DEF SignInRows, Waiting

LEMMA AttemptFields ==
  ASSUME NEW e \in Attempts
  PROVE  e.name \in People /\ e.password \in Nat /\ e.late \in BOOLEAN
BY DEF Attempts

LEMMA AttemptMoves ==
  ASSUME NEW e \in Attempts, NEW x \in {"read", "open", "opened", "refused"}
  PROVE  /\ [e EXCEPT !.at = x] \in Attempts /\ [e EXCEPT !.at = x].at = x
         /\ [e EXCEPT !.at = x].name = e.name /\ [e EXCEPT !.at = x].password = e.password
         /\ [e EXCEPT !.at = x].late = e.late
BY DEF Attempts

LEMMA AttemptLate ==
  ASSUME NEW e \in Attempts
  PROVE  /\ [e EXCEPT !.late = TRUE] \in Attempts /\ [e EXCEPT !.late = TRUE].late
BY DEF Attempts

LEMMA RestartedRow ==
  ASSUME NEW u \in UserRows
  PROVE  /\ [u EXCEPT !.ending = FALSE] \in UserRows /\ [u EXCEPT !.ending = FALSE].ending = FALSE
         /\ [u EXCEPT !.ending = FALSE].active = u.active
         /\ [u EXCEPT !.ending = FALSE].password = u.password
BY DEF UserRows

LEMMA RestartedSession ==
  ASSUME NEW s \in SessionRows, NEW b \in BOOLEAN
  PROVE  /\ [s EXCEPT !.spared = @ \/ b] \in SessionRows /\ [s EXCEPT !.spared = @ \/ b].user = s.user
         /\ [s EXCEPT !.spared = @ \/ b].password = s.password
         /\ [s EXCEPT !.spared = @ \/ b].spared = (s.spared \/ b)
BY DEF SessionRows

LEMMA SignedOutStart == SignInInit => SignedOutInv
<1> SUFFICES ASSUME SignInInit PROVE SignedOutInv
  OBVIOUS
<1>1. users \in [People -> UserRows] /\ sessions = {}
  BY DEF SignInInit, UserRows
<1>2. signIns \in [Logins -> SignInRows] /\ \A t \in Logins : Stands(signIns[t])
  BY WaitingStands DEF SignInInit, NoSignIns
<1> QED  BY <1>1, <1>2 DEF SignedOutInv, SignInTypes

(***************************************************************************)
(* Steps that leave the accounts alone and move one sign-in.               *)
(***************************************************************************)
LEMMA OneSignInMoves ==
  ASSUME SignedOutInv, NEW t \in Logins, NEW e \in SignInRows, Stands(e), UNCHANGED users,
         signIns' = [signIns EXCEPT ![t] = e], sessions' \subseteq SessionRows,
         \A s \in sessions' \ sessions : s.spared \/ StillGood(s.user, s.password)
  PROVE  SignedOutInv'
<1>1. \A d : Stands(d)' <=> Stands(d)
  BY DEF Stands, StillGood
<1>2. \A a, p : StillGood(a, p)' <=> StillGood(a, p)
  BY DEF StillGood
<1>3. signIns' \in [Logins -> SignInRows] /\ \A u \in Logins : Stands(signIns'[u])
  BY DEF SignedOutInv, SignInTypes
<1>4. \A u \in Logins : Stands(signIns[u])'
  BY <1>1, <1>3
<1>5. \A s \in sessions' : s.spared \/ StillGood(s.user, s.password)'
  BY <1>2 DEF SignedOutInv
<1> QED  BY <1>3, <1>4, <1>5 DEF SignedOutInv, SignInTypes

LEMMA LoginKeeps ==
  ASSUME SignedOutInv, NEW t \in Logins, NEW a \in People
  PROVE  /\ \A c \in Clients, p \in {0, users[a].password} : AskToSignIn(t, a, c, p) => SignedOutInv'
         /\ (CheckPassword(t, a) \/ OpenSession(t, a) \/ Welcome(t, a) \/ Refuse(t, a)) => SignedOutInv'
<1>0. /\ signIns[t] \in SignInRows /\ users[a] \in UserRows
      /\ sessions \subseteq SessionRows /\ Stands(signIns[t])
  BY DEF SignedOutInv, SignInTypes
<1>1. ASSUME NEW c \in Clients, NEW p \in {0, users[a].password}, AskToSignIn(t, a, c, p)
      PROVE  SignedOutInv'
  <2> DEFINE e == [at |-> "read", name |-> a, client |-> c, password |-> p, late |-> FALSE]
  <2>1. e \in SignInRows /\ Stands(e)
    BY <1>0 DEF SignInRows, Attempts, UserRows, Stands
  <2>2. UNCHANGED users /\ sessions' = sessions /\ signIns' = [signIns EXCEPT ![t] = e]
    BY <1>1 DEF AskToSignIn
  <2> HIDE DEF e
  <2> QED  BY <1>0, <2>1, <2>2, OneSignInMoves
<1>2. ASSUME CheckPassword(t, a) PROVE SignedOutInv'
  <2>1. signIns[t] \in Attempts /\ signIns[t].name = a
    BY <1>0, <1>2, AttemptIs DEF CheckPassword, Step
  <2> DEFINE x == IF Admitted(a, signIns[t].password) THEN "open" ELSE "refused"
             e == [signIns[t] EXCEPT !.at = x]
  <2>2. e \in SignInRows /\ e.at = x /\ e.name = a /\ e.password = signIns[t].password
    <3>1. x \in {"read", "open", "opened", "refused"}
      OBVIOUS
    <3> HIDE DEF x
    <3> QED  BY <2>1, <3>1, AttemptMoves DEF SignInRows
  <2>3. UNCHANGED users /\ sessions' = sessions /\ signIns' = [signIns EXCEPT ![t] = e]
    BY <1>2 DEF CheckPassword
  <2>4. x = "open" => Admitted(a, signIns[t].password)
    OBVIOUS
  <2> HIDE DEF e, x
  <2>5. Stands(e)
    BY <2>2, <2>4 DEF Stands, StillGood, Admitted
  <2> QED  BY <1>0, <2>2, <2>3, <2>5, OneSignInMoves
<1>3. ASSUME OpenSession(t, a) PROVE SignedOutInv'
  <2>1. signIns[t] \in Attempts /\ signIns[t].name = a /\ signIns[t].at = "open"
    BY <1>0, <1>3, AttemptIs DEF OpenSession, Step
  <2> DEFINE e == [signIns[t] EXCEPT !.at = "opened"]
             s == [user |-> a, password |-> signIns[t].password, spared |-> signIns[t].late]
  <2>2. e \in SignInRows /\ Stands(e)
    BY <2>1, AttemptMoves DEF SignInRows, Stands
  <2>3. s \in SessionRows
    BY <2>1, AttemptFields DEF SessionRows
  <2>4. s.spared \/ StillGood(s.user, s.password)
    BY <1>0, <2>1 DEF Stands
  <2>5. UNCHANGED users /\ sessions' = sessions \cup {s} /\ signIns' = [signIns EXCEPT ![t] = e]
    BY <1>3 DEF OpenSession
  <2> HIDE DEF e, s
  <2> QED  BY <1>0, <2>2, <2>3, <2>4, <2>5, OneSignInMoves
<1>4. ASSUME Welcome(t, a) \/ Refuse(t, a) PROVE SignedOutInv'
  <2>1. UNCHANGED users /\ sessions' = sessions /\ signIns' = [signIns EXCEPT ![t] = Waiting]
    BY <1>4 DEF Welcome, Refuse
  <2> QED  BY <1>0, <2>1, WaitingStands, OneSignInMoves
<1> QED  BY <1>1, <1>2, <1>3, <1>4

(***************************************************************************)
(* A change makes what was accepted of the account stand as long as its    *)
(* second write is to come.                                                *)
(***************************************************************************)
LEMMA ChangeKeeps ==
  ASSUME SignedOutInv, NEW a \in People, users' \in [People -> UserRows],
         \A b \in People \ {a} : users'[b] = users[b],
         \/ users'[a].ending
         \/ ~ users[a].ending /\ ~ users[a].active,
         UNCHANGED <<sessions, signIns>>
  PROVE  SignedOutInv'
<1>1. ASSUME NEW b \in People, NEW p, StillGood(b, p) PROVE StillGood(b, p)'
  BY <1>1 DEF StillGood
<1>2. ASSUME NEW t \in Logins PROVE Stands(signIns[t])'
  <2>1. CASE signIns[t].at = "open"
    <3>1. signIns[t] \in Attempts
      BY <2>1, AttemptIs DEF SignedOutInv, SignInTypes
    <3>2. signIns[t].name \in People /\ (signIns[t].late \/ StillGood(signIns[t].name, signIns[t].password))
      BY <2>1, <3>1, AttemptFields DEF SignedOutInv, Stands
    <3> QED  BY <3>2, <1>1 DEF Stands
  <2> QED  BY <2>1 DEF Stands
<1>3. ASSUME NEW s \in sessions PROVE s.spared \/ StillGood(s.user, s.password)'
  <2>1. s.user \in People
    BY DEF SignedOutInv, SignInTypes, SessionRows
  <2> QED  BY <2>1, <1>1 DEF SignedOutInv
<1> QED  BY <1>2, <1>3 DEF SignedOutInv, SignInTypes

LEMMA AccountKeeps ==
  ASSUME SignedOutInv, NEW a \in People
  PROVE  /\ ChangePassword(a) => SignedOutInv'
         /\ \A on \in BOOLEAN : SetActive(a, on) => SignedOutInv'
<1>0. users \in [People -> UserRows] /\ users[a] \in UserRows
  BY DEF SignedOutInv, SignInTypes
<1>1. ASSUME ChangePassword(a) PROVE SignedOutInv'
  <2>1. /\ users' \in [People -> UserRows] /\ users'[a].ending
        /\ \A b \in People \ {a} : users'[b] = users[b]
    BY <1>0, <1>1 DEF ChangePassword, UserRows
  <2>2. UNCHANGED <<sessions, signIns>>
    BY <1>1 DEF ChangePassword
  <2> QED  BY <2>1, <2>2, ChangeKeeps
<1>2. ASSUME NEW on \in BOOLEAN, SetActive(a, on) PROVE SignedOutInv'
  <2>1. /\ users' \in [People -> UserRows] /\ users'[a].ending = ~ on
        /\ \A b \in People \ {a} : users'[b] = users[b]
    BY <1>0, <1>2 DEF SetActive, UserRows
  <2>2. UNCHANGED <<sessions, signIns>> /\ users[a].ending = FALSE /\ users[a].active # on
    BY <1>2 DEF SetActive
  <2>3. users[a].active \in BOOLEAN /\ users[a].ending \in BOOLEAN
    BY <1>0 DEF UserRows
  <2> QED  BY <2>1, <2>2, <2>3, ChangeKeeps
<1> QED  BY <1>1, <1>2

LEMMA EndKeeps ==
  ASSUME SignedOutInv, NEW a \in People, EndSessions(a)
  PROVE  SignedOutInv'
<1>0. users \in [People -> UserRows] /\ users[a] \in UserRows
  BY DEF SignedOutInv, SignInTypes
<1>1. /\ users' \in [People -> UserRows]
      /\ \A b \in People \ {a} : users'[b] = users[b]
  BY <1>0 DEF EndSessions, UserRows
<1>2. ASSUME NEW b \in People \ {a}, NEW p, StillGood(b, p) PROVE StillGood(b, p)'
  BY <1>1, <1>2 DEF StillGood
<1>3. ASSUME NEW t \in Logins
      PROVE  signIns'[t] \in SignInRows /\ Stands(signIns[t])'
  <2>0. signIns[t] \in SignInRows
    BY DEF SignedOutInv, SignInTypes
  <2>1. CASE Step(t, a, "open")
    <3>1. signIns[t] \in Attempts
      BY <2>0, <2>1, AttemptIs DEF Step
    <3>2. signIns'[t] = [signIns[t] EXCEPT !.late = TRUE]
      BY <2>1 DEF EndSessions
    <3>3. signIns'[t] \in Attempts /\ signIns'[t].late
      BY <3>1, <3>2, AttemptLate
    <3> QED  BY <3>3 DEF Stands, SignInRows
  <2>2. CASE ~ Step(t, a, "open")
    <3>1. signIns'[t] = signIns[t]
      BY <2>2 DEF EndSessions
    <3>2. CASE signIns[t].at = "open"
      <4>1. signIns[t] \in Attempts /\ signIns[t].name # a
        BY <2>0, <2>2, <3>2, AttemptIs DEF Step
      <4>2. signIns[t].name \in People \ {a}
        BY <4>1, AttemptFields
      <4>3. signIns[t].late \/ StillGood(signIns[t].name, signIns[t].password)
        BY <3>2 DEF SignedOutInv, Stands
      <4>4. signIns[t].late \/ StillGood(signIns[t].name, signIns[t].password)'
        <5>1. CASE signIns[t].late
          BY <5>1
        <5>2. CASE StillGood(signIns[t].name, signIns[t].password)
          <6> DEFINE n == signIns[t].name
                     p == signIns[t].password
          <6>0. n \in People \ {a} /\ StillGood(n, p) /\ n' = n /\ p' = p
            BY <3>1, <4>2, <5>2
          <6> HIDE DEF n, p
          <6>1. users'[n] = users[n]
            BY <6>0, <1>1
          <6>2. StillGood(n, p)'
            BY <6>0, <6>1 DEF StillGood
          <6> QED  BY <6>2 DEF n, p
        <5> QED  BY <4>3, <5>1, <5>2
      <4> QED  BY <2>0, <3>1, <4>4 DEF Stands
    <3> QED  BY <2>0, <3>1, <3>2 DEF Stands
  <2> QED  BY <2>1, <2>2
<1>4. ASSUME NEW s \in sessions' PROVE s \in SessionRows /\ (s.spared \/ StillGood(s.user, s.password)')
  <2>1. s \in sessions /\ s.user # a
    BY DEF EndSessions, Remaining
  <2>2. s.user \in People \ {a} /\ s \in SessionRows
    BY <2>1 DEF SignedOutInv, SignInTypes, SessionRows
  <2> QED  BY <2>1, <2>2, <1>2 DEF SignedOutInv
<1>5. DOMAIN signIns' = Logins /\ signIns' = [t \in Logins |-> signIns'[t]]
  BY DEF EndSessions
<1>6. signIns' \in [Logins -> SignInRows]
  BY <1>3, <1>5
<1> QED  BY <1>1, <1>3, <1>4, <1>6 DEF SignedOutInv, SignInTypes

LEMMA RestartKeeps ==
  ASSUME SignedOutInv, RestartLogin
  PROVE  SignedOutInv'
<1>1. users' \in [People -> UserRows]
      /\ \A a \in People : users'[a] = [users[a] EXCEPT !.ending = FALSE]
  BY RestartedRow DEF SignedOutInv, SignInTypes, RestartLogin
<1>2. signIns' \in [Logins -> SignInRows] /\ \A t \in Logins : signIns'[t] = Waiting
  BY WaitingStands DEF RestartLogin, NoSignIns
<1>3. \A t \in Logins : Stands(signIns[t])'
  BY <1>2, WaitingStands DEF Stands
<1>4. ASSUME NEW r \in sessions'
      PROVE  r \in SessionRows /\ (r.spared \/ StillGood(r.user, r.password)')
  <2>1. PICK s \in sessions : r = [s EXCEPT !.spared = @ \/ users[s.user].ending]
    BY DEF RestartLogin
  <2>2. s \in SessionRows /\ s.user \in People /\ (s.spared \/ StillGood(s.user, s.password))
    BY DEF SignedOutInv, SignInTypes, SessionRows
  <2>3. users[s.user] \in UserRows /\ users[s.user].ending \in BOOLEAN
    BY <2>2 DEF SignedOutInv, SignInTypes, UserRows
  <2>4. /\ r \in SessionRows /\ r.user = s.user /\ r.password = s.password
        /\ r.spared = (s.spared \/ users[s.user].ending)
    BY <2>1, <2>2, <2>3, RestartedSession
  <2>5. users'[s.user].active = users[s.user].active /\ users'[s.user].password = users[s.user].password
    BY <1>1, <2>2, <2>3, RestartedRow
  <2> QED  BY <2>2, <2>4, <2>5 DEF StillGood
<1> QED  BY <1>1, <1>2, <1>3, <1>4 DEF SignedOutInv, SignInTypes

LEMMA SignedOutKept == SignedOutInv /\ [SignInNext]_signInVars => SignedOutInv'
<1> SUFFICES ASSUME SignedOutInv, [SignInNext]_signInVars PROVE SignedOutInv'
  OBVIOUS
<1>1. ASSUME NEW t \in Logins, NEW a \in People,
             \/ \E c \in Clients, p \in {0, users[a].password} : AskToSignIn(t, a, c, p)
             \/ CheckPassword(t, a) \/ OpenSession(t, a) \/ Welcome(t, a) \/ Refuse(t, a)
      PROVE  SignedOutInv'
  BY <1>1, LoginKeeps
<1>2. ASSUME NEW a \in People,
             ChangePassword(a) \/ EndSessions(a) \/ (\E on \in BOOLEAN : SetActive(a, on))
      PROVE  SignedOutInv'
  BY <1>2, AccountKeeps, EndKeeps
<1>3. ASSUME NEW s \in sessions, Logout(s) PROVE SignedOutInv'
  BY <1>3 DEF Logout, SignedOutInv, SignInTypes, Stands, StillGood
<1>4. CASE Tick \/ UNCHANGED signInVars
  BY <1>4 DEF Tick, signInVars, SignedOutInv, SignInTypes, Stands, StillGood
<1>5. CASE RestartLogin
  BY <1>5, RestartKeeps
<1> QED  BY <1>1, <1>2, <1>3, <1>4, <1>5 DEF SignInNext

\* OldPasswordsSignedOut for every number of accounts and sign-ins in flight: once a password
\* is changed or an account deactivated, and its sessions ended, no session rests on what was
\* before, but those of sign-ins accepted in between and those a death spared.
THEOREM OldSessionsEnd == SignInSpec => []OldPasswordsSignedOut
<1>1. SignedOutInv => OldPasswordsSignedOut
  BY DEF SignedOutInv, StillGood, OldPasswordsSignedOut
<1> QED  BY <1>1, SignedOutStart, SignedOutKept, PTL DEF SignInSpec

(***************************************************************************)
(* SignIn, the throttle.  An account's guesses are counted against its     *)
(* failures and the threads that still have one to report: of those after  *)
(* a time from which no lock stands, there are no more guesses than these. *)
(* While a lock stands no thread joins those that may yet guess.           *)
(***************************************************************************)
LaterThan(times, x) == {i \in 1..Len(times) : times[i] > x}

InStep(a, at) == {t \in Logins : Step(t, a, at)}

ThrottleTypes ==
  /\ now \in Nat
  /\ failures \in [People -> Seq(Nat)] /\ guesses \in [People -> Seq(Nat)]
  /\ lockedTill \in [People \cup Clients -> Nat]
  /\ signIns \in [Logins -> SignInRows]

FewFailures(a) == Len(failures[a]) < MaxFailures

RecentGuesses(a) ==
  /\ \A i \in 1..Len(guesses[a]) : guesses[a][i] <= now /\ guesses[a][i] + Window > now
  /\ \A i, j \in 1..Len(guesses[a]) : i <= j => guesses[a][i] <= guesses[a][j]

GuessesCounted(a) ==
  \A x \in Int : x + Lockout >= lockedTill[a] =>
    Cardinality(LaterThan(guesses[a], x)) <= Cardinality(LaterThan(failures[a], x)) + Cardinality(InStep(a, "refused"))

GuessesToCome(a) ==
  Len(guesses[a]) + Cardinality(InStep(a, "read")) <= MaxFailures - 1 + Cardinality(Logins)

ThrottledAccount(a) == FewFailures(a) /\ RecentGuesses(a) /\ GuessesCounted(a) /\ GuessesToCome(a)

ThrottleInv == ThrottleTypes /\ \A a \in People : ThrottledAccount(a)

\* A set of naturals that is not empty has a least.
LEMMA LeastTime ==
  ASSUME NEW S, S \subseteq Nat, S # {}
  PROVE  \E n \in S : \A m \in S : n <= m
<1>1. PICK n \in S : \A m \in S : ~(<<m, n>> \in OpToRel(<, Nat))
  BY NatLessThanWellFounded, WFMin
<1>2. ASSUME NEW m \in S, ~(n <= m) PROVE FALSE
  <2>1. m \in Nat /\ n \in Nat /\ m < n
    BY <1>2
  <2>2. <<m, n>> \in OpToRel(<, Nat)
    BY <2>1 DEF OpToRel
  <2> QED  BY <1>1, <2>2
<1> QED  BY <1>2

\* A sequence has as many places as its length.
LEMMA PlacesOf ==
  ASSUME NEW n \in Nat
  PROVE  IsFiniteSet(1..n) /\ Cardinality(1..n) = n
<1>1. 1 \in Int /\ n \in Int
  OBVIOUS
<1>2. IsFiniteSet(1..n) /\ Cardinality(1..n) = IF 1 > n THEN 0 ELSE n - 1 + 1
  BY <1>1, FS_Interval
<1>3. (IF 1 > n THEN 0 ELSE n - 1 + 1) = n
  OBVIOUS
<1> QED  BY <1>2, <1>3

LEMMA AfterIs ==
  ASSUME NEW s \in Seq(Nat), NEW x \in Int
  PROVE  /\ IsFiniteSet(LaterThan(s, x)) /\ Cardinality(LaterThan(s, x)) \in Nat
         /\ Cardinality(LaterThan(s, x)) <= Len(s)
<1>1. Len(s) \in Nat
  OBVIOUS
<1>2. IsFiniteSet(1..Len(s)) /\ Cardinality(1..Len(s)) = Len(s)
  BY <1>1, PlacesOf
<1>3. LaterThan(s, x) \in SUBSET (1..Len(s))
  BY DEF LaterThan
<1> QED  BY <1>2, <1>3, FS_Subset, FS_CardinalityType

LEMMA AllAfter ==
  ASSUME NEW s \in Seq(Nat), NEW x \in Int, \A i \in 1..Len(s) : s[i] > x
  PROVE  Cardinality(LaterThan(s, x)) = Len(s)
<1>1. LaterThan(s, x) = 1..Len(s) /\ Len(s) \in Nat
  BY DEF LaterThan
<1> QED  BY <1>1, PlacesOf

LEMMA NoneAfter ==
  ASSUME NEW s \in Seq(Nat), NEW x \in Int, \A i \in 1..Len(s) : s[i] <= x
  PROVE  Cardinality(LaterThan(s, x)) = 0
<1>1. LaterThan(s, x) = {}
  BY DEF LaterThan
<1> QED  BY <1>1, FS_EmptySet

LEMMA FewerAfter ==
  ASSUME NEW s \in Seq(Nat), NEW x \in Int, NEW y \in Int, x <= y
  PROVE  Cardinality(LaterThan(s, y)) <= Cardinality(LaterThan(s, x))
<1>1. LaterThan(s, y) \in SUBSET LaterThan(s, x)
  BY DEF LaterThan
<1> QED  BY <1>1, AfterIs, FS_Subset

LEMMA AfterAppend ==
  ASSUME NEW s \in Seq(Nat), NEW e \in Nat, NEW x \in Int
  PROVE  Cardinality(LaterThan(Append(s, e), x)) = Cardinality(LaterThan(s, x)) + (IF e > x THEN 1 ELSE 0)
<1>1. /\ Len(Append(s, e)) = Len(s) + 1 /\ Len(s) \in Nat /\ Append(s, e)[Len(s) + 1] = e
      /\ \A i \in 1..Len(s) : Append(s, e)[i] = s[i]
  OBVIOUS
<1>2. LaterThan(Append(s, e), x) = IF e > x THEN LaterThan(s, x) \cup {Len(s) + 1} ELSE LaterThan(s, x)
  BY <1>1 DEF LaterThan
<1>3. Len(s) + 1 \notin LaterThan(s, x)
  BY <1>1 DEF LaterThan
<1>4. IsFiniteSet(LaterThan(s, x)) /\ Cardinality(LaterThan(s, x)) \in Nat
  BY AfterIs
<1>5. CASE e > x
  <2>1. Cardinality(LaterThan(s, x) \cup {Len(s) + 1}) = Cardinality(LaterThan(s, x)) + 1
    BY <1>3, <1>4, FS_AddElement
  <2> QED  BY <1>2, <1>5, <2>1
<1>6. CASE ~(e > x)
  BY <1>2, <1>4, <1>6
<1> QED  BY <1>5, <1>6

LEMMA OneMoreAfter ==
  ASSUME NEW s \in Seq(Nat), NEW e \in Nat, NEW r, r = s \/ r = Append(s, e)
  PROVE  /\ r \in Seq(Nat) /\ Len(r) \in Nat /\ Len(r) <= Len(s) + 1
         /\ \A x \in Int : /\ Cardinality(LaterThan(r, x)) \in Nat
                           /\ Cardinality(LaterThan(r, x)) <= Cardinality(LaterThan(s, x)) + 1
<1>1. r \in Seq(Nat) /\ Len(r) \in Nat /\ Len(r) <= Len(s) + 1
  OBVIOUS
<1>2. ASSUME NEW x \in Int
      PROVE  /\ Cardinality(LaterThan(r, x)) \in Nat
             /\ Cardinality(LaterThan(r, x)) <= Cardinality(LaterThan(s, x)) + 1
  <2>1. Cardinality(LaterThan(r, x)) \in Nat /\ Cardinality(LaterThan(s, x)) \in Nat
    BY <1>1, AfterIs
  <2>2. CASE r = s
    BY <2>1, <2>2
  <2>3. CASE r = Append(s, e)
    <3>1. Cardinality(LaterThan(r, x)) = Cardinality(LaterThan(s, x)) + (IF e > x THEN 1 ELSE 0)
      BY <2>3, AfterAppend
    <3> QED  BY <2>1, <3>1
  <2> QED  BY <2>2, <2>3
<1> QED  BY <1>1, <1>2

\* What is left of a deque is its end, from the first time that is not too old.
LEMMA SinceIs ==
  ASSUME NEW s \in Seq(Nat), NEW time \in Nat
  PROVE  \/ Since(s, time) = <<>> /\ \A i \in 1..Len(s) : s[i] + Window < time
         \/ \E f \in 1..Len(s) : /\ Since(s, time) = SubSeq(s, f, Len(s)) /\ s[f] + Window >= time
                                 /\ \A i \in 1..(f - 1) : s[i] + Window < time
<1> DEFINE kept == {i \in 1..Len(s) : s[i] + Window >= time}
<1>1. Len(s) \in Nat /\ Window \in Nat /\ \A i \in 1..Len(s) : s[i] \in Nat
  BY SignInAssumption
<1>2. CASE kept = {}
  <2>1. Since(s, time) = <<>>
    BY <1>2 DEF Since
  <2>2. ASSUME NEW i \in 1..Len(s) PROVE s[i] + Window < time
    <3>1. ~(s[i] + Window >= time)
      BY <1>2
    <3> QED  BY <1>1, <3>1
  <2> QED  BY <2>1, <2>2
<1>3. CASE kept # {}
  <2> DEFINE f == CHOOSE i \in kept : \A j \in kept : i <= j
  <2>1. f \in kept /\ \A j \in kept : f <= j
    <3>1. kept \subseteq Nat
      OBVIOUS
    <3> QED  BY <1>3, <3>1, LeastTime
  <2>2. Since(s, time) = SubSeq(s, f, Len(s))
    BY <1>3 DEF Since
  <2> HIDE DEF f
  <2>3. f \in 1..Len(s) /\ s[f] + Window >= time
    BY <2>1
  <2>4. ASSUME NEW i \in 1..(f - 1) PROVE s[i] + Window < time
    <3>1. i \in 1..Len(s) /\ ~(f <= i)
      BY <1>1, <2>3
    <3>2. i \notin kept
      BY <2>1, <3>1
    <3> QED  BY <1>1, <3>1, <3>2
  <2> QED  BY <2>2, <2>3, <2>4
<1> QED  BY <1>2, <1>3

LEMMA EndOf ==
  ASSUME NEW s \in Seq(Nat), NEW f \in 1..Len(s)
  PROVE  /\ SubSeq(s, f, Len(s)) \in Seq(Nat) /\ Len(SubSeq(s, f, Len(s))) = Len(s) - f + 1
         /\ \A i \in 1..(Len(s) - f + 1) : SubSeq(s, f, Len(s))[i] = s[f + i - 1]
<1>1. Len(s) \in Nat /\ f \in Nat /\ f >= 1 /\ f <= Len(s) /\ \A i \in f..Len(s) : i \in 1..Len(s)
  OBVIOUS
<1>2. \A i \in f..Len(s) : s[i] \in Nat
  BY <1>1
<1> QED  BY <1>1, <1>2, SubSeqProperties

\* It has no more times than there were, and no others.
LEMMA SinceNoMore ==
  ASSUME NEW s \in Seq(Nat), NEW time \in Nat
  PROVE  /\ Since(s, time) \in Seq(Nat) /\ Len(Since(s, time)) <= Len(s)
         /\ \A x \in Int : Cardinality(LaterThan(Since(s, time), x)) <= Cardinality(LaterThan(s, x))
         /\ \A i \in 1..Len(Since(s, time)) : \E j \in 1..Len(s) : Since(s, time)[i] = s[j]
<1>1. CASE Since(s, time) = <<>>
  <2>1. \A x \in Int : Cardinality(LaterThan(<<>>, x)) = 0 /\ Cardinality(LaterThan(s, x)) \in Nat
    <3>1. ASSUME NEW x \in Int PROVE Cardinality(LaterThan(<<>>, x)) = 0
      <4>1. LaterThan(<<>>, x) = {}
        BY DEF LaterThan
      <4> QED  BY <4>1, FS_EmptySet
    <3> QED  BY <3>1, AfterIs
  <2> QED  BY <1>1, <2>1
<1>2. ASSUME NEW f \in 1..Len(s), Since(s, time) = SubSeq(s, f, Len(s))
      PROVE  /\ Since(s, time) \in Seq(Nat) /\ Len(Since(s, time)) <= Len(s)
             /\ \A x \in Int : Cardinality(LaterThan(Since(s, time), x)) <= Cardinality(LaterThan(s, x))
             /\ \A i \in 1..Len(Since(s, time)) : \E j \in 1..Len(s) : Since(s, time)[i] = s[j]
  <2> DEFINE r == Since(s, time)
  <2>1. /\ r \in Seq(Nat) /\ Len(r) = Len(s) - f + 1 /\ f \in Nat /\ f >= 1 /\ f <= Len(s) /\ Len(s) \in Nat
        /\ \A i \in 1..(Len(s) - f + 1) : r[i] = s[f + i - 1]
    BY <1>2, EndOf
  <2> HIDE DEF r
  <2>2. ASSUME NEW i \in 1..Len(r) PROVE f + i - 1 \in 1..Len(s) /\ r[i] = s[f + i - 1]
    <3>1. i \in Nat /\ i >= 1 /\ i <= Len(s) - f + 1 /\ Len(s) \in Nat
      BY <2>1
    <3> QED  BY <2>1, <3>1
  <2>3. ASSUME NEW x \in Int PROVE Cardinality(LaterThan(r, x)) <= Cardinality(LaterThan(s, x))
    <3> DEFINE g == [i \in LaterThan(r, x) |-> f + i - 1]
    <3>1. \A i \in LaterThan(r, x) : i \in 1..Len(r) /\ g[i] \in LaterThan(s, x)
      BY <2>2 DEF LaterThan
    <3>2. \A i, j \in LaterThan(r, x) : g[i] = g[j] => i = j
      <4>1. \A i \in LaterThan(r, x) : i \in Nat /\ g[i] = f + i - 1
        BY <2>1 DEF LaterThan
      <4> QED  BY <2>1, <4>1
    <3>3. g \in Injection(LaterThan(r, x), LaterThan(s, x))
      BY <3>1, <3>2 DEF Injection, IsInjective
    <3> QED  BY <3>3, AfterIs, FS_Injection
  <2> QED  BY <2>1, <2>2, <2>3 DEF r
<1> QED  BY <1>1, <1>2, SinceIs

\* No time that is not too old is lost.
LEMMA SinceKeeps ==
  ASSUME NEW s \in Seq(Nat), NEW time \in Nat, NEW x \in Int, x + 1 + Window >= time
  PROVE  Cardinality(LaterThan(Since(s, time), x)) >= Cardinality(LaterThan(s, x))
<1>0. Window \in Nat /\ Len(s) \in Nat /\ \A i \in 1..Len(s) : s[i] \in Nat
  BY SignInAssumption
<1>1. ASSUME Since(s, time) = <<>>, \A i \in 1..Len(s) : s[i] + Window < time
      PROVE  Cardinality(LaterThan(Since(s, time), x)) >= Cardinality(LaterThan(s, x))
  <2>1. LaterThan(s, x) = {}
    BY <1>0, <1>1 DEF LaterThan
  <2>2. Cardinality(LaterThan(s, x)) = 0
    BY <2>1, FS_EmptySet
  <2>3. Since(s, time) \in Seq(Nat)
    BY <1>1
  <2> QED  BY <2>2, <2>3, AfterIs
<1>2. ASSUME NEW f \in 1..Len(s), Since(s, time) = SubSeq(s, f, Len(s)),
             \A i \in 1..(f - 1) : s[i] + Window < time
      PROVE  Cardinality(LaterThan(Since(s, time), x)) >= Cardinality(LaterThan(s, x))
  <2> DEFINE r == Since(s, time)
  <2>1. /\ r \in Seq(Nat) /\ Len(r) = Len(s) - f + 1 /\ f \in Nat /\ f >= 1 /\ f <= Len(s)
        /\ \A i \in 1..(Len(s) - f + 1) : r[i] = s[f + i - 1]
    BY <1>2, EndOf
  <2> HIDE DEF r
  <2> DEFINE g == [i \in LaterThan(s, x) |-> i - f + 1]
  <2>2. ASSUME NEW i \in LaterThan(s, x) PROVE i \in 1..Len(s) /\ i \in Nat /\ g[i] = i - f + 1 /\ g[i] \in LaterThan(r, x)
    <3>1. i \in 1..Len(s) /\ s[i] > x /\ s[i] \in Nat
      BY <1>0 DEF LaterThan
    <3>2. i >= f
      BY <1>0, <1>2, <2>1, <3>1
    <3>3. i - f + 1 \in 1..Len(r) /\ r[i - f + 1] = s[i]
      BY <1>0, <2>1, <3>1, <3>2
    <3> QED  BY <3>1, <3>3 DEF LaterThan
  <2>3. \A i, j \in LaterThan(s, x) : g[i] = g[j] => i = j
    BY <2>1, <2>2
  <2>4. g \in Injection(LaterThan(s, x), LaterThan(r, x))
    BY <2>2, <2>3 DEF Injection, IsInjective
  <2>5. Cardinality(LaterThan(s, x)) <= Cardinality(LaterThan(r, x))
    BY <2>1, <2>4, AfterIs, FS_Injection
  <2> QED  BY <2>1, <2>5, AfterIs DEF r
<1> QED  BY <1>1, <1>2, SinceIs

(***************************************************************************)
(* The threads in a step, when one of them moves.                          *)
(***************************************************************************)
LEMMA InStepIs ==
  ASSUME NEW a \in People, NEW at
  PROVE  /\ IsFiniteSet(InStep(a, at)) /\ Cardinality(InStep(a, at)) \in Nat
         /\ Cardinality(InStep(a, at)') \in Nat
<1>1. InStep(a, at) \in SUBSET Logins /\ InStep(a, at)' \in SUBSET Logins
  BY DEF InStep
<1> QED  BY <1>1, SignInAssumption, FS_Subset, FS_CardinalityType

LEMMA InOneStep ==
  ASSUME NEW a \in People
  PROVE  Cardinality(InStep(a, "read")) + Cardinality(InStep(a, "refused")) <= Cardinality(Logins)
<1> DEFINE S == InStep(a, "read")
           T == InStep(a, "refused")
<1>1. S \cap T = {} /\ S \cup T \in SUBSET Logins
  BY DEF InStep, Step
<1>2. IsFiniteSet(S) /\ Cardinality(S) \in Nat /\ IsFiniteSet(T) /\ Cardinality(T) \in Nat
  BY InStepIs
<1> HIDE DEF S, T
<1>3. Cardinality(S \cup T) = Cardinality(S) + Cardinality(T) - Cardinality(S \cap T) /\ Cardinality(S \cap T) = 0
  BY <1>1, <1>2, FS_Union, FS_EmptySet
<1>4. Cardinality(S \cup T) <= Cardinality(Logins)
  BY <1>1, SignInAssumption, FS_Subset
<1>5. Cardinality(S) + Cardinality(T) <= Cardinality(Logins)
  BY <1>2, <1>3, <1>4
<1> QED  BY <1>5 DEF S, T

LEMMA OneMoves ==
  ASSUME signIns \in [Logins -> SignInRows], NEW t \in Logins, NEW e \in SignInRows,
         signIns' = [signIns EXCEPT ![t] = e], NEW a \in People, NEW at
  PROVE  /\ signIns' \in [Logins -> SignInRows]
         /\ InStep(a, at)' = IF e.at = at /\ e.name = a THEN InStep(a, at) \cup {t} ELSE InStep(a, at) \ {t}
<1>1. signIns' \in [Logins -> SignInRows] /\ signIns'[t] = e /\ \A u \in Logins \ {t} : signIns'[u] = signIns[u]
  OBVIOUS
<1>2. \A u \in Logins : u \in InStep(a, at)' <=> signIns'[u].at = at /\ signIns'[u].name = a
  BY DEF InStep, Step
<1>3. \A u \in Logins : u \in InStep(a, at) <=> signIns[u].at = at /\ signIns[u].name = a
  BY DEF InStep, Step
<1>4. InStep(a, at)' \subseteq Logins /\ InStep(a, at) \subseteq Logins
  BY DEF InStep
<1> QED  BY <1>1, <1>2, <1>3, <1>4

\* One more, one fewer or as many.
LEMMA Joins ==
  ASSUME signIns \in [Logins -> SignInRows], NEW t \in Logins, NEW e \in SignInRows,
         signIns' = [signIns EXCEPT ![t] = e], NEW a \in People, NEW at, e.at = at, e.name = a, signIns[t].at # at
  PROVE  Cardinality(InStep(a, at)') = Cardinality(InStep(a, at)) + 1
<1>1. InStep(a, at)' = InStep(a, at) \cup {t} /\ t \notin InStep(a, at)
  BY OneMoves DEF InStep, Step
<1> QED  BY <1>1, InStepIs, FS_AddElement

LEMMA StepsOut ==
  ASSUME signIns \in [Logins -> SignInRows], NEW t \in Logins, NEW e \in SignInRows,
         signIns' = [signIns EXCEPT ![t] = e], NEW a \in People, NEW at, e.at # at, Step(t, a, at)
  PROVE  Cardinality(InStep(a, at)') = Cardinality(InStep(a, at)) - 1
<1>1. InStep(a, at)' = InStep(a, at) \ {t}
  <2>1. ~(e.at = at /\ e.name = a)
    OBVIOUS
  <2>2. InStep(a, at)' = IF e.at = at /\ e.name = a THEN InStep(a, at) \cup {t} ELSE InStep(a, at) \ {t}
    BY OneMoves DEF InStep, Step
  <2> QED  BY <2>1, <2>2
<1>2. t \in InStep(a, at)
  BY DEF InStep
<1> QED  BY <1>1, <1>2, InStepIs, FS_RemoveElement

LEMMA StaysOut ==
  ASSUME signIns \in [Logins -> SignInRows], NEW t \in Logins, NEW e \in SignInRows,
         signIns' = [signIns EXCEPT ![t] = e], NEW a \in People, NEW at,
         e.at # at \/ e.name # a, ~Step(t, a, at)
  PROVE  InStep(a, at)' = InStep(a, at)
<1>1. InStep(a, at)' = InStep(a, at) \ {t}
  <2>1. ~(e.at = at /\ e.name = a)
    OBVIOUS
  <2>2. InStep(a, at)' = IF e.at = at /\ e.name = a THEN InStep(a, at) \cup {t} ELSE InStep(a, at) \ {t}
    BY OneMoves DEF InStep, Step
  <2> QED  BY <2>1, <2>2
<1>2. t \notin InStep(a, at)
  BY DEF InStep
<1> QED  BY <1>1, <1>2

(***************************************************************************)
(* The steps.                                                              *)
(***************************************************************************)
\* What the types make of one account.
AccountParts(a) ==
  /\ now \in Nat /\ failures[a] \in Seq(Nat) /\ guesses[a] \in Seq(Nat) /\ lockedTill[a] \in Nat
  /\ Len(failures[a]) \in Nat /\ Len(guesses[a]) \in Nat /\ \A i \in 1..Len(guesses[a]) : guesses[a][i] \in Nat
  /\ Cardinality(InStep(a, "refused")) \in Nat /\ Cardinality(InStep(a, "read")) \in Nat
  /\ MaxFailures \in Nat \ {0} /\ Window \in Nat \ {0} /\ Lockout \in Nat /\ Window <= Lockout
  /\ Cardinality(Logins) \in Nat
  /\ \A x \in Int : Cardinality(LaterThan(guesses[a], x)) \in Nat /\ Cardinality(LaterThan(failures[a], x)) \in Nat

LEMMA PartsOf ==
  ASSUME ThrottleInv, NEW a \in People
  PROVE  AccountParts(a)
<1>1. now \in Nat /\ failures[a] \in Seq(Nat) /\ guesses[a] \in Seq(Nat) /\ lockedTill[a] \in Nat
  BY DEF ThrottleInv, ThrottleTypes
<1>2. Cardinality(Logins) \in Nat
  BY SignInAssumption, FS_CardinalityType
<1>3. /\ Len(failures[a]) \in Nat /\ Len(guesses[a]) \in Nat
      /\ \A i \in 1..Len(guesses[a]) : guesses[a][i] \in Nat
  BY <1>1
<1>4. Cardinality(InStep(a, "refused")) \in Nat /\ Cardinality(InStep(a, "read")) \in Nat
  BY InStepIs
<1>5. \A x \in Int : Cardinality(LaterThan(guesses[a], x)) \in Nat /\ Cardinality(LaterThan(failures[a], x)) \in Nat
  BY <1>1, AfterIs
<1>6. MaxFailures \in Nat \ {0} /\ Window \in Nat \ {0} /\ Lockout \in Nat /\ Window <= Lockout
  BY SignInAssumption
<1> QED  BY <1>1, <1>2, <1>3, <1>4, <1>5, <1>6 DEF AccountParts

\* Where nothing of an account grows and its lock stays, what was said of it stands.
LEMMA AccountRests ==
  ASSUME ThrottleInv, NEW a \in People, now' = now,
         failures'[a] = failures[a], guesses'[a] = guesses[a], lockedTill'[a] = lockedTill[a],
         InStep(a, "refused")' = InStep(a, "refused"), Cardinality(InStep(a, "read")') <= Cardinality(InStep(a, "read"))
  PROVE  ThrottledAccount(a)'
<1>0. AccountParts(a)
  BY PartsOf
<1> DEFINE read == Cardinality(InStep(a, "read"))
           left == Cardinality(InStep(a, "read")')
<1>1. ThrottledAccount(a)
  BY DEF ThrottleInv
<1>2. FewFailures(a)' /\ RecentGuesses(a)' /\ GuessesCounted(a)'
  BY <1>1 DEF ThrottledAccount, FewFailures, RecentGuesses, GuessesCounted
<1>3. GuessesToCome(a)'
  <2>1. Len(guesses[a]) + read <= MaxFailures - 1 + Cardinality(Logins)
    BY <1>1 DEF ThrottledAccount, GuessesToCome
  <2>2. /\ left \in Nat /\ read \in Nat /\ left <= read /\ Len(guesses[a]) \in Nat
        /\ MaxFailures \in Nat /\ Cardinality(Logins) \in Nat
    BY <1>0, InStepIs DEF AccountParts
  <2>3. Len(guesses[a]) + left <= MaxFailures - 1 + Cardinality(Logins)
    BY <2>1, <2>2
  <2> QED  BY <2>3 DEF GuessesToCome
<1> QED  BY <1>2, <1>3 DEF ThrottledAccount

\* Of nothing there is nothing after any time.
LEMMA NothingCounted ==
  /\ \A x \in Int : Cardinality(LaterThan(<<>>, x)) = 0 /\ Cardinality(LaterThan(<<>>, x)) \in Nat
  /\ \A a \in People : /\ Cardinality(InStep(a, "read")') <= Cardinality(Logins)
                       /\ Cardinality(InStep(a, "read")') \in Nat /\ Cardinality(InStep(a, "refused")') \in Nat
  /\ MaxFailures \in Nat \ {0} /\ Cardinality(Logins) \in Nat
<1>1. ASSUME NEW x \in Int PROVE Cardinality(LaterThan(<<>>, x)) = 0
  <2>1. LaterThan(<<>>, x) = {}
    BY DEF LaterThan
  <2> QED  BY <2>1, FS_EmptySet
<1>2. ASSUME NEW a \in People PROVE Cardinality(InStep(a, "read")') <= Cardinality(Logins)
  <2>1. InStep(a, "read")' \in SUBSET Logins
    BY DEF InStep
  <2> QED  BY <2>1, SignInAssumption, FS_Subset
<1>3. \A a \in People : Cardinality(InStep(a, "read")') \in Nat /\ Cardinality(InStep(a, "refused")') \in Nat
  BY InStepIs
<1> QED  BY <1>1, <1>2, <1>3, SignInAssumption, FS_CardinalityType

\* A sign-in begins only where no lock stands: every guess of the account is then counted.
LEMMA AskCounted ==
  ASSUME ThrottleInv, NEW t \in Logins, NEW a \in People, NEW c \in Clients, NEW p \in Nat, AskToSignIn(t, a, c, p)
  PROVE  ThrottleInv'
<1>0. AccountParts(a)
  BY PartsOf
<1> DEFINE e == [at |-> "read", name |-> a, client |-> c, password |-> p, late |-> FALSE]
<1>1. e \in SignInRows /\ e.at = "read" /\ e.name = a
  BY DEF SignInRows, Attempts
<1>2. /\ signIns \in [Logins -> SignInRows] /\ signIns[t].at = "idle" /\ signIns' = [signIns EXCEPT ![t] = e]
      /\ UNCHANGED <<now, failures, lockedTill, guesses>> /\ ~Locked(a, c)
  BY DEF ThrottleInv, ThrottleTypes, AskToSignIn, Waiting, throttle
<1> HIDE DEF e
<1>3. ThrottleTypes'
  BY <1>1, <1>2, OneMoves DEF ThrottleInv, ThrottleTypes
<1>4. \A b \in People : InStep(b, "refused")' = InStep(b, "refused")
  <2>1. ASSUME NEW b \in People PROVE InStep(b, "refused")' = InStep(b, "refused")
    <3>1. ~Step(t, b, "refused")
      BY <1>2 DEF Step
    <3> QED  BY <1>1, <1>2, <3>1, StaysOut
  <2> QED  BY <2>1
<1>5. ASSUME NEW b \in People, b # a PROVE ThrottledAccount(b)'
  <2>1. ~Step(t, b, "read")
    BY <1>2 DEF Step
  <2>2. InStep(b, "read")' = InStep(b, "read")
    BY <1>1, <1>2, <1>5, <2>1, StaysOut
  <2>3. Cardinality(InStep(b, "read")') <= Cardinality(InStep(b, "read"))
    BY <2>2, InStepIs
  <2> QED  BY <1>2, <1>4, <2>3, AccountRests
<1>6. ThrottledAccount(a)'
  <2>1. ThrottledAccount(a)
    BY DEF ThrottleInv
  <2>2. FewFailures(a)' /\ RecentGuesses(a)' /\ GuessesCounted(a)'
    BY <1>2, <1>4, <2>1 DEF ThrottledAccount, FewFailures, RecentGuesses, GuessesCounted
  <2> DEFINE x == now - Window
             refused == Cardinality(InStep(a, "refused"))
             left == Cardinality(InStep(a, "read")')
  <2>3. x \in Int /\ x + Lockout >= lockedTill[a]
    <3>1. now \in Nat /\ lockedTill[a] \in Nat /\ Window \in Nat /\ Lockout \in Nat /\ Window <= Lockout
      BY <1>0 DEF AccountParts
    <3>2. ~(lockedTill[a] > now)
      BY <1>2 DEF Locked
    <3> QED  BY <3>1, <3>2
  <2>4. Cardinality(LaterThan(guesses[a], x)) <= Cardinality(LaterThan(failures[a], x)) + refused
    BY <2>1, <2>3 DEF ThrottledAccount, GuessesCounted
  <2>5. Cardinality(LaterThan(guesses[a], x)) = Len(guesses[a])
    <3>1. \A i \in 1..Len(guesses[a]) : guesses[a][i] > x
      <4>1. \A i \in 1..Len(guesses[a]) : guesses[a][i] + Window > now /\ guesses[a][i] \in Nat
        BY <1>0, <2>1 DEF ThrottledAccount, RecentGuesses, AccountParts
      <4>2. now \in Nat /\ Window \in Nat
        BY <1>0 DEF AccountParts
      <4> QED  BY <4>1, <4>2
    <3>2. guesses[a] \in Seq(Nat)
      BY <1>0 DEF AccountParts
    <3> QED  BY <2>3, <3>1, <3>2, AllAfter
  <2>6. Cardinality(LaterThan(failures[a], x)) <= Len(failures[a]) /\ Len(failures[a]) < MaxFailures
    BY <2>1, <2>3, <1>0, AfterIs DEF ThrottledAccount, FewFailures, AccountParts
  <2>7. left + refused <= Cardinality(Logins)
    <3>1. (Cardinality(InStep(a, "read")) + Cardinality(InStep(a, "refused")) <= Cardinality(Logins))'
      BY InOneStep, PTL
    <3> QED  BY <1>4, <3>1
  <2>8. left \in Nat /\ refused \in Nat /\ Cardinality(LaterThan(failures[a], x)) \in Nat
    BY <2>3, <1>0, InStepIs DEF AccountParts
  <2>9. Len(guesses[a]) + left <= MaxFailures - 1 + Cardinality(Logins)
    <3> HIDE DEF left, refused, x
    <3> QED  BY <2>4, <2>5, <2>6, <2>7, <2>8, <1>0 DEF AccountParts
  <2>10. GuessesToCome(a)'
    BY <1>2, <2>9 DEF GuessesToCome
  <2> QED  BY <2>2, <2>10 DEF ThrottledAccount
<1> QED  BY <1>3, <1>5, <1>6 DEF ThrottleInv

\* A guess is made by a thread that then has a failure to report.
LEMMA CheckCounted ==
  ASSUME ThrottleInv, NEW t \in Logins, NEW a \in People, CheckPassword(t, a)
  PROVE  ThrottleInv'
<1>0. AccountParts(a)
  BY PartsOf
<1> DEFINE x == IF Admitted(a, signIns[t].password) THEN "open" ELSE "refused"
           e == [signIns[t] EXCEPT !.at = x]
<1>1. /\ signIns \in [Logins -> SignInRows] /\ Step(t, a, "read") /\ signIns' = [signIns EXCEPT ![t] = e]
      /\ UNCHANGED <<now, failures, lockedTill>>
      /\ (guesses' = [guesses EXCEPT ![a] = Append(@, now)] /\ x = "refused") \/ guesses' = guesses
  BY DEF ThrottleInv, ThrottleTypes, CheckPassword, throttle
<1>2. signIns[t] \in Attempts /\ signIns[t].name = a /\ signIns[t].at = "read"
  BY <1>1 DEF Step, SignInRows, Waiting
<1>3. e \in SignInRows /\ e.at = x /\ e.name = a /\ x \in {"open", "refused"}
  BY <1>2 DEF Attempts, SignInRows
<1> HIDE DEF e, x
<1>4. ThrottleTypes'
  <2>1. guesses' \in [People -> Seq(Nat)]
    <3>1. now \in Nat /\ guesses \in [People -> Seq(Nat)] /\ Append(guesses[a], now) \in Seq(Nat)
      BY DEF ThrottleInv, ThrottleTypes
    <3> QED  BY <1>1, <3>1
  <2> QED  BY <1>1, <1>3, <2>1, OneMoves DEF ThrottleInv, ThrottleTypes
<1>5. ASSUME NEW b \in People, b # a PROVE ThrottledAccount(b)'
  <2>1. ~Step(t, b, "read") /\ ~Step(t, b, "refused")
    BY <1>2, <1>5 DEF Step
  <2>2. InStep(b, "read")' = InStep(b, "read") /\ InStep(b, "refused")' = InStep(b, "refused")
    BY <1>1, <1>3, <1>5, <2>1, StaysOut
  <2>3. Cardinality(InStep(b, "read")') <= Cardinality(InStep(b, "read")) /\ guesses'[b] = guesses[b]
    BY <1>1, <1>5, <2>2, InStepIs DEF ThrottleInv, ThrottleTypes
  <2> QED  BY <1>1, <2>2, <2>3, AccountRests
<1>6. Cardinality(InStep(a, "read")') = Cardinality(InStep(a, "read")) - 1
  BY <1>1, <1>3, StepsOut
<1>7. CASE x = "refused"
  <2>1. Cardinality(InStep(a, "refused")') = Cardinality(InStep(a, "refused")) + 1
    BY <1>1, <1>2, <1>3, <1>7, Joins
  <2>2. ThrottledAccount(a)
    BY DEF ThrottleInv
  <2> DEFINE g == guesses[a]
             h == guesses'[a]
             refused == Cardinality(InStep(a, "refused"))
             read == Cardinality(InStep(a, "read"))
  <2>3. g \in Seq(Nat) /\ (h = g \/ h = Append(g, now))
    BY <1>1 DEF ThrottleInv, ThrottleTypes
  <2>4. /\ h \in Seq(Nat) /\ Len(h) \in Nat /\ Len(h) <= Len(g) + 1
        /\ \A y \in Int : /\ Cardinality(LaterThan(h, y)) \in Nat
                          /\ Cardinality(LaterThan(h, y)) <= Cardinality(LaterThan(g, y)) + 1
    <3>1. now \in Nat
      BY <1>0 DEF AccountParts
    <3> QED  BY <2>3, <3>1, OneMoreAfter
  <2>5. FewFailures(a)'
    BY <1>1, <2>2 DEF ThrottledAccount, FewFailures
  <2>6. RecentGuesses(a)'
    <3>1. CASE h = g
      BY <1>1, <2>2, <3>1 DEF ThrottledAccount, RecentGuesses
    <3>2. CASE h = Append(g, now)
      <4>1. /\ Len(h) = Len(g) + 1 /\ Len(g) \in Nat /\ h[Len(g) + 1] = now
            /\ \A i \in 1..Len(g) : h[i] = g[i] /\ g[i] <= now /\ g[i] + Window > now /\ g[i] \in Nat
            /\ \A i, j \in 1..Len(g) : i <= j => g[i] <= g[j]
        BY <2>2, <2>3, <3>2 DEF ThrottledAccount, RecentGuesses
      <4> HIDE DEF g, h
      <4>2. /\ \A i \in 1..Len(h) : h[i] <= now /\ h[i] + Window > now
            /\ \A i, j \in 1..Len(h) : i <= j => h[i] <= h[j]
        <5>1. \A i \in 1..Len(h) : i \in 1..Len(g) \/ i = Len(g) + 1
          BY <4>1
        <5>2. now <= now /\ now + Window > now
          <6>1. now \in Nat /\ Window \in Nat \ {0}
            BY <1>0 DEF AccountParts
          <6> QED  BY <6>1
        <5>3. \A i \in 1..Len(h) : h[i] <= now /\ h[i] + Window > now
          BY <4>1, <5>1, <5>2
        <5>4. ASSUME NEW i \in 1..Len(h), NEW j \in 1..Len(h), i <= j PROVE h[i] <= h[j]
          <6>1. CASE j = Len(g) + 1
            BY <4>1, <5>3, <6>1
          <6>2. CASE j \in 1..Len(g)
            <7>1. i \in 1..Len(g)
              BY <4>1, <5>4, <6>2
            <7> QED  BY <4>1, <5>4, <6>2, <7>1
          <6> QED  BY <5>1, <6>1, <6>2
        <5> QED  BY <5>3, <5>4
      <4> QED  BY <1>1, <4>2 DEF RecentGuesses, g, h
    <3> QED  BY <2>3, <3>1, <3>2
  <2>7. GuessesCounted(a)'
    <3>1. ASSUME NEW y \in Int, y + Lockout >= lockedTill[a]
          PROVE  Cardinality(LaterThan(h, y)) <= Cardinality(LaterThan(failures[a], y)) + (refused + 1)
      <4>1. Cardinality(LaterThan(g, y)) <= Cardinality(LaterThan(failures[a], y)) + refused
        BY <2>2, <3>1 DEF ThrottledAccount, GuessesCounted
      <4>2. Cardinality(LaterThan(h, y)) <= Cardinality(LaterThan(g, y)) + 1
        BY <2>4
      <4>3. /\ Cardinality(LaterThan(h, y)) \in Nat /\ Cardinality(LaterThan(g, y)) \in Nat
            /\ Cardinality(LaterThan(failures[a], y)) \in Nat /\ refused \in Nat
        BY <2>4, AfterIs, <1>0 DEF AccountParts
      <4> HIDE DEF g, h, refused
      <4> QED  BY <4>1, <4>2, <4>3
    <3> QED  BY <1>1, <2>1, <3>1 DEF GuessesCounted
  <2>8. GuessesToCome(a)'
    <3>1. Len(g) + read <= MaxFailures - 1 + Cardinality(Logins)
      BY <2>2 DEF ThrottledAccount, GuessesToCome
    <3>2. Len(h) \in Nat /\ Len(g) \in Nat /\ read \in Nat /\ Cardinality(Logins) \in Nat /\ MaxFailures \in Nat
      <4>1. Len(g) \in Nat /\ read \in Nat /\ Cardinality(Logins) \in Nat /\ MaxFailures \in Nat
        BY <1>0 DEF AccountParts
      <4> QED  BY <2>4, <4>1
    <3>3. Len(h) + (read - 1) <= MaxFailures - 1 + Cardinality(Logins)
      <4> HIDE DEF g, h, read
      <4> QED  BY <2>4, <3>1, <3>2
    <3> QED  BY <1>6, <3>3 DEF GuessesToCome
  <2>9. ThrottledAccount(a)'
    BY <2>5, <2>6, <2>7, <2>8 DEF ThrottledAccount
  <2> QED  BY <1>4, <1>5, <2>9 DEF ThrottleInv
<1>8. CASE x = "open"
  <2>1. ~Step(t, a, "refused") /\ guesses' = guesses
    BY <1>1, <1>2, <1>8 DEF Step
  <2>2. InStep(a, "refused")' = InStep(a, "refused")
    BY <1>1, <1>3, <1>8, <2>1, StaysOut
  <2>3. Cardinality(InStep(a, "read")') <= Cardinality(InStep(a, "read"))
    BY <1>6, InStepIs
  <2> QED  BY <1>1, <1>4, <1>5, <2>1, <2>2, <2>3, AccountRests DEF ThrottleInv
<1> QED  BY <1>3, <1>4, <1>5, <1>7, <1>8 DEF ThrottleInv

\* A sign-in that is through forgets what came before it.
LEMMA WelcomeCounted ==
  ASSUME ThrottleInv, NEW t \in Logins, NEW a \in People, Welcome(t, a)
  PROVE  ThrottleInv'
<1>1. /\ signIns \in [Logins -> SignInRows] /\ Step(t, a, "opened") /\ signIns' = [signIns EXCEPT ![t] = Waiting]
      /\ Waiting \in SignInRows /\ Waiting.at = "idle" /\ now' = now
      /\ failures' = [failures EXCEPT ![a] = <<>>] /\ guesses' = [guesses EXCEPT ![a] = <<>>]
      /\ lockedTill' = [lockedTill EXCEPT ![a] = 0]
  BY DEF ThrottleInv, ThrottleTypes, Welcome, ClearFailures, Waiting, SignInRows
<1>2. ThrottleTypes'
  <2>1. signIns' \in [Logins -> SignInRows]
    BY <1>1
  <2> QED  BY <1>1, <2>1 DEF ThrottleInv, ThrottleTypes
<1>3. ASSUME NEW b \in People
      PROVE  InStep(b, "read")' = InStep(b, "read") /\ InStep(b, "refused")' = InStep(b, "refused")
  <2>1. ~Step(t, b, "read") /\ ~Step(t, b, "refused")
    BY <1>1 DEF Step
  <2> QED  BY <1>1, <2>1, StaysOut
<1>4. ASSUME NEW b \in People, b # a PROVE ThrottledAccount(b)'
  <2>1. failures'[b] = failures[b] /\ guesses'[b] = guesses[b] /\ lockedTill'[b] = lockedTill[b]
    BY <1>1, <1>4 DEF ThrottleInv, ThrottleTypes
  <2>2. Cardinality(InStep(b, "read")') <= Cardinality(InStep(b, "read"))
    BY <1>3, InStepIs
  <2> QED  BY <1>1, <1>3, <2>1, <2>2, AccountRests
<1>5. ThrottledAccount(a)'
  <2>1. failures'[a] = <<>> /\ guesses'[a] = <<>>
    BY <1>1 DEF ThrottleInv, ThrottleTypes
  <2>2. FewFailures(a)' /\ RecentGuesses(a)'
    BY <2>1, SignInAssumption DEF FewFailures, RecentGuesses
  <2>3. GuessesCounted(a)'
    BY <2>1, NothingCounted DEF GuessesCounted
  <2>4. GuessesToCome(a)'
    BY <2>1, NothingCounted DEF GuessesToCome
  <2> QED  BY <2>2, <2>3, <2>4 DEF ThrottledAccount
<1> QED  BY <1>2, <1>4, <1>5 DEF ThrottleInv

\* A failure that is reported is counted, until the count locks the account.
LEMMA RefuseCounted ==
  ASSUME ThrottleInv, NEW t \in Logins, NEW a \in People, Refuse(t, a)
  PROVE  ThrottleInv'
<1>0. AccountParts(a)
  BY PartsOf
<1> DEFINE c == signIns[t].client
           longer == Append(failures[a], now)
           recent == Recent(longer)
           locks == ReachesLimit(recent)
           client == Cardinality(TriedRecently(c) \cup {a}) >= SprayAccounts
<1>1. /\ signIns \in [Logins -> SignInRows] /\ Step(t, a, "refused") /\ signIns' = [signIns EXCEPT ![t] = Waiting]
      /\ Waiting \in SignInRows /\ Waiting.at = "idle" /\ now' = now /\ guesses' = guesses
      /\ failures' = [failures EXCEPT ![a] = IF locks THEN <<>> ELSE recent]
      /\ lockedTill' = [k \in People \cup Clients |->
           IF (k = a /\ locks) \/ (k = c /\ client) THEN now + Lockout ELSE lockedTill[k]]
  BY DEF ThrottleInv, ThrottleTypes, Refuse, RecordFailure, Waiting, SignInRows
<1>2. c \in Clients /\ \A b \in People : b # c
  <2>1. signIns[t] \in Attempts
    BY <1>1 DEF Step, SignInRows, Waiting
  <2> QED  BY <2>1, SignInAssumption DEF Attempts
<1>3. now \in Nat /\ longer \in Seq(Nat)
  BY <1>0 DEF AccountParts
<1>4. /\ recent \in Seq(Nat) /\ Len(recent) \in Nat
      /\ \A x \in Int : /\ Cardinality(LaterThan(recent, x)) \in Nat
                        /\ x + 1 + Window >= now => Cardinality(LaterThan(recent, x)) >= Cardinality(LaterThan(longer, x))
  <2>1. recent \in Seq(Nat)
    BY <1>3, SinceNoMore DEF Recent
  <2>2. \A x \in Int : x + 1 + Window >= now => Cardinality(LaterThan(recent, x)) >= Cardinality(LaterThan(longer, x))
    BY <1>3, SinceKeeps DEF Recent
  <2> QED  BY <2>1, <2>2, AfterIs
<1> HIDE DEF client, c
<1>5. ThrottleTypes'
  <2>1. signIns' \in [Logins -> SignInRows]
    BY <1>1
  <2>2. failures' \in [People -> Seq(Nat)]
    BY <1>1, <1>4 DEF ThrottleInv, ThrottleTypes
  <2>3. lockedTill' \in [People \cup Clients -> Nat]
    BY <1>1, <1>3, SignInAssumption DEF ThrottleInv, ThrottleTypes
  <2> QED  BY <1>1, <2>1, <2>2, <2>3 DEF ThrottleInv, ThrottleTypes
<1>6. ASSUME NEW b \in People PROVE InStep(b, "read")' = InStep(b, "read")
  <2>1. ~Step(t, b, "read")
    BY <1>1 DEF Step
  <2> QED  BY <1>1, <2>1, StaysOut
<1>7. ASSUME NEW b \in People, b # a PROVE ThrottledAccount(b)'
  <2>1. failures'[b] = failures[b] /\ guesses'[b] = guesses[b] /\ lockedTill'[b] = lockedTill[b]
    BY <1>1, <1>2, <1>7 DEF ThrottleInv, ThrottleTypes
  <2>2. Cardinality(InStep(b, "read")') <= Cardinality(InStep(b, "read"))
    BY <1>6, InStepIs
  <2>3. ~Step(t, b, "refused")
    BY <1>1, <1>7 DEF Step
  <2>4. InStep(b, "refused")' = InStep(b, "refused")
    BY <1>1, <2>3, StaysOut
  <2> QED  BY <1>1, <2>1, <2>2, <2>4, AccountRests
<1>8. ThrottledAccount(a)
  BY DEF ThrottleInv
<1>9. RecentGuesses(a)' /\ GuessesToCome(a)'
  BY <1>1, <1>6, <1>8 DEF ThrottledAccount, RecentGuesses, GuessesToCome
<1>10. Cardinality(InStep(a, "refused")') = Cardinality(InStep(a, "refused")) - 1
  BY <1>1, StepsOut
<1>11. CASE locks
  <2>1. failures'[a] = <<>> /\ lockedTill'[a] = now + Lockout
    BY <1>1, <1>2, <1>11 DEF ThrottleInv, ThrottleTypes
  <2>2. FewFailures(a)'
    BY <2>1, SignInAssumption DEF FewFailures
  <2>3. ASSUME NEW x \in Int, x + Lockout >= now + Lockout PROVE Cardinality(LaterThan(guesses[a], x)) = 0
    <3>1. \A i \in 1..Len(guesses[a]) : guesses[a][i] <= now /\ guesses[a][i] \in Nat
      BY <1>0, <1>8 DEF ThrottledAccount, RecentGuesses, AccountParts
    <3>2. now <= x
      BY <1>3, <2>3, SignInAssumption
    <3>3. \A i \in 1..Len(guesses[a]) : guesses[a][i] <= x
      BY <1>3, <3>1, <3>2
    <3>4. guesses[a] \in Seq(Nat)
      BY <1>0 DEF AccountParts
    <3> QED  BY <3>3, <3>4, NoneAfter
  <2>4. GuessesCounted(a)'
    <3>1. Cardinality(InStep(a, "refused")') \in Nat
      BY InStepIs
    <3>2. \A x \in Int : Cardinality(LaterThan(<<>>, x)) \in Nat
      BY NothingCounted
    <3>3. \A x \in Int : x + Lockout >= now + Lockout =>
            Cardinality(LaterThan(guesses[a], x)) <= Cardinality(LaterThan(<<>>, x)) + Cardinality(InStep(a, "refused")')
      BY <2>3, <3>1, <3>2
    <3> QED  BY <1>1, <2>1, <3>3 DEF GuessesCounted
  <2>5. ThrottledAccount(a)'
    BY <1>9, <2>2, <2>4 DEF ThrottledAccount
  <2> QED  BY <1>5, <1>7, <2>5 DEF ThrottleInv
<1>12. CASE ~locks
  <2>1. failures'[a] = recent /\ lockedTill'[a] = lockedTill[a]
    BY <1>1, <1>2, <1>12 DEF ThrottleInv, ThrottleTypes
  <2>2. FewFailures(a)'
    BY <1>4, <1>12, <2>1, SignInAssumption DEF FewFailures, ReachesLimit
  <2> DEFINE refused == Cardinality(InStep(a, "refused"))
             G(x) == Cardinality(LaterThan(guesses[a], x))
             F(x) == Cardinality(LaterThan(failures[a], x))
             R(x) == Cardinality(LaterThan(recent, x))
  <2>3. ASSUME NEW x \in Int, x + Lockout >= lockedTill[a], x + Window >= now, now > x PROVE G(x) <= R(x) + (refused - 1)
    <3>1. G(x) <= F(x) + refused
      BY <1>8, <2>3 DEF ThrottledAccount, GuessesCounted
    <3>2. Cardinality(LaterThan(longer, x)) = F(x) + 1
      <4>1. failures[a] \in Seq(Nat) /\ F(x) \in Nat
        BY <1>0 DEF AccountParts
      <4>2. Cardinality(LaterThan(longer, x)) = F(x) + (IF now > x THEN 1 ELSE 0)
        BY <1>3, <4>1, AfterAppend
      <4> QED  BY <2>3, <4>1, <4>2
    <3>3. x + 1 + Window >= now
      BY <1>3, <2>3, SignInAssumption
    <3>4. R(x) >= Cardinality(LaterThan(longer, x)) /\ R(x) \in Nat
      BY <1>4, <3>3
    <3>5. G(x) \in Nat /\ F(x) \in Nat /\ refused \in Nat
      BY <1>0 DEF AccountParts
    <3> HIDE DEF G, F, R, refused, longer
    <3> QED  BY <3>1, <3>2, <3>4, <3>5
  <2>4. ASSUME NEW x \in Int, x + Lockout >= lockedTill[a] PROVE G(x) <= R(x) + (refused - 1)
    <3>0. now \in Nat /\ Window \in Nat \ {0} /\ Lockout \in Nat /\ lockedTill[a] \in Nat
      BY <1>0 DEF AccountParts
    <3>1. CASE x + Window >= now /\ now > x
      BY <2>3, <2>4, <3>1
    <3>2. CASE ~(now > x)
      <4>1. \A i \in 1..Len(guesses[a]) : guesses[a][i] <= now /\ guesses[a][i] \in Nat
        BY <1>0, <1>8 DEF ThrottledAccount, RecentGuesses, AccountParts
      <4>2. \A i \in 1..Len(guesses[a]) : guesses[a][i] <= x
        BY <3>0, <3>2, <4>1
      <4>3. guesses[a] \in Seq(Nat)
        BY <1>0 DEF AccountParts
      <4>4. G(x) = 0
        BY <4>2, <4>3, NoneAfter
      <4>5. R(x) \in Nat
        BY <1>4
      <4>6. refused - 1 \in Nat
        BY <1>10, InStepIs
      <4> HIDE DEF G, R, refused
      <4> QED  BY <4>4, <4>5, <4>6
    <3>3. CASE ~(x + Window >= now)
      <4> DEFINE y == now - Window
      <4>1. y \in Int /\ y + Lockout >= lockedTill[a] /\ y + Window >= now /\ now > y /\ x <= y
        BY <2>4, <3>0, <3>3
      <4>2. G(y) <= R(y) + (refused - 1)
        BY <2>3, <4>1
      <4>3. G(x) = Len(guesses[a]) /\ G(y) = Len(guesses[a])
        <5>1. \A i \in 1..Len(guesses[a]) : guesses[a][i] + Window > now /\ guesses[a][i] \in Nat
          BY <1>0, <1>8 DEF ThrottledAccount, RecentGuesses, AccountParts
        <5>2. \A i \in 1..Len(guesses[a]) : guesses[a][i] > y /\ guesses[a][i] > x
          BY <3>0, <4>1, <5>1
        <5>3. guesses[a] \in Seq(Nat)
          BY <1>0 DEF AccountParts
        <5> QED  BY <4>1, <5>2, <5>3, AllAfter
      <4>4. R(y) <= R(x)
        BY <1>4, <4>1, FewerAfter
      <4>5. R(x) \in Nat /\ R(y) \in Nat /\ refused \in Nat
        BY <1>0, <1>4, <4>1 DEF AccountParts
      <4>6. Len(guesses[a]) \in Nat
        BY <1>0 DEF AccountParts
      <4> HIDE DEF G, R, refused, y
      <4> QED  BY <4>2, <4>3, <4>4, <4>5, <4>6
    <3> QED  BY <3>1, <3>2, <3>3
  <2>5. GuessesCounted(a)'
    BY <1>1, <1>10, <2>1, <2>4 DEF GuessesCounted
  <2>6. ThrottledAccount(a)'
    BY <1>9, <2>2, <2>5 DEF ThrottledAccount
  <2> QED  BY <1>5, <1>7, <2>6 DEF ThrottleInv
<1> QED  BY <1>11, <1>12

\* What leaves the clock, the throttle and the sign-ins' steps alone.
LEMMA ElsewhereCounted ==
  ASSUME ThrottleInv, UNCHANGED <<now, failures, lockedTill, guesses>>, signIns' \in [Logins -> SignInRows],
         \A u \in Logins, b \in People, at \in {"read", "refused"} : Step(u, b, at)' <=> Step(u, b, at)
  PROVE  ThrottleInv'
<1>1. ThrottleTypes'
  BY DEF ThrottleInv, ThrottleTypes
<1>2. ASSUME NEW b \in People PROVE ThrottledAccount(b)'
  <2>1. InStep(b, "read")' = InStep(b, "read") /\ InStep(b, "refused")' = InStep(b, "refused")
    BY DEF InStep
  <2>2. Cardinality(InStep(b, "read")') <= Cardinality(InStep(b, "read"))
    BY <2>1, InStepIs
  <2> QED  BY <2>1, <2>2, AccountRests
<1> QED  BY <1>1, <1>2 DEF ThrottleInv

LEMMA OpenCounted ==
  ASSUME ThrottleInv, NEW t \in Logins, NEW a \in People, OpenSession(t, a)
  PROVE  ThrottleInv'
<1> DEFINE e == [signIns[t] EXCEPT !.at = "opened"]
<1>1. /\ signIns \in [Logins -> SignInRows] /\ signIns[t].at = "open" /\ signIns' = [signIns EXCEPT ![t] = e]
      /\ UNCHANGED <<now, failures, lockedTill, guesses>>
  BY DEF ThrottleInv, ThrottleTypes, OpenSession, Step, throttle
<1>2. signIns[t] \in Attempts
  BY <1>1 DEF SignInRows, Waiting
<1>3. e \in SignInRows /\ e.at = "opened"
  BY <1>2 DEF Attempts, SignInRows
<1> HIDE DEF e
<1>4. signIns' \in [Logins -> SignInRows] /\ signIns'[t] = e /\ \A u \in Logins \ {t} : signIns'[u] = signIns[u]
  BY <1>1, <1>3
<1>5. \A u \in Logins, b \in People, at \in {"read", "refused"} : Step(u, b, at)' <=> Step(u, b, at)
  BY <1>1, <1>3, <1>4 DEF Step
<1> QED  BY <1>1, <1>4, <1>5, ElsewhereCounted

LEMMA EndCounted ==
  ASSUME ThrottleInv, NEW a \in People, EndSessions(a)
  PROVE  ThrottleInv'
<1>1. /\ signIns \in [Logins -> SignInRows] /\ UNCHANGED <<now, failures, lockedTill, guesses>>
      /\ signIns' = [t \in Logins |-> IF Step(t, a, "open") THEN [signIns[t] EXCEPT !.late = TRUE] ELSE signIns[t]]
  BY DEF ThrottleInv, ThrottleTypes, EndSessions, throttle
<1>2. ASSUME NEW u \in Logins
      PROVE  signIns'[u] \in SignInRows /\ \A b \in People, at \in {"read", "refused"} : Step(u, b, at)' <=> Step(u, b, at)
  <2>1. CASE Step(u, a, "open")
    <3>1. signIns[u] \in Attempts /\ signIns[u].at = "open"
      BY <1>1, <2>1 DEF Step, SignInRows, Waiting
    <3>2. signIns'[u] \in Attempts /\ signIns'[u].at = "open"
      BY <1>1, <2>1, <3>1 DEF Attempts
    <3> QED  BY <3>1, <3>2 DEF Step, SignInRows
  <2>2. CASE ~Step(u, a, "open")
    <3>1. signIns'[u] = signIns[u]
      BY <1>1, <2>2
    <3> QED  BY <1>1, <3>1 DEF Step
  <2> QED  BY <2>1, <2>2
<1>3. signIns' \in [Logins -> SignInRows]
  BY <1>1, <1>2
<1> QED  BY <1>1, <1>2, <1>3, ElsewhereCounted

\* As time passes guesses are forgotten, the oldest first.
LEMMA TickCounted ==
  ASSUME ThrottleInv, Tick
  PROVE  ThrottleInv'
<1>1. /\ now' = now + 1 /\ now \in Nat /\ UNCHANGED <<failures, lockedTill, signIns>>
      /\ guesses \in [People -> Seq(Nat)] /\ guesses' = [a \in People |-> Since(guesses[a], now + 1 + 1)]
  BY DEF ThrottleInv, ThrottleTypes, Tick, throttle
<1> DEFINE time == now + 1 + 1
<1>2. time \in Nat
  BY <1>1
<1>3. ThrottleTypes'
  <2>1. guesses' \in [People -> Seq(Nat)]
    <3>1. \A a \in People : Since(guesses[a], time) \in Seq(Nat)
      BY <1>1, <1>2, SinceNoMore
    <3> QED  BY <1>1, <3>1
  <2> QED  BY <1>1, <2>1 DEF ThrottleInv, ThrottleTypes
<1>4. ASSUME NEW a \in People PROVE ThrottledAccount(a)'
  <2>0. AccountParts(a) /\ ThrottledAccount(a)
    BY PartsOf DEF ThrottleInv
  <2> DEFINE g == guesses[a]
             h == Since(g, time)
  <2>1. guesses'[a] = h /\ g \in Seq(Nat)
    BY <1>1
  <2>2. /\ h \in Seq(Nat) /\ Len(h) <= Len(g) /\ Len(h) \in Nat
        /\ \A x \in Int : Cardinality(LaterThan(h, x)) <= Cardinality(LaterThan(g, x)) /\ Cardinality(LaterThan(h, x)) \in Nat
    <3>1. g \in Seq(Nat) /\ time \in Nat
      BY <1>2, <2>1
    <3> HIDE DEF g, time
    <3>2. /\ h \in Seq(Nat) /\ Len(h) <= Len(g)
          /\ \A x \in Int : Cardinality(LaterThan(h, x)) <= Cardinality(LaterThan(g, x))
      BY <3>1, SinceNoMore
    <3> HIDE DEF h
    <3> QED  BY <3>2, AfterIs
  <2>3. FewFailures(a)'
    BY <1>1, <2>0 DEF ThrottledAccount, FewFailures
  <2>4. InStep(a, "read")' = InStep(a, "read") /\ InStep(a, "refused")' = InStep(a, "refused")
    BY <1>1 DEF InStep, Step
  <2>5. GuessesCounted(a)'
    <3>1. ASSUME NEW x \in Int, x + Lockout >= lockedTill[a]
          PROVE  Cardinality(LaterThan(h, x)) <= Cardinality(LaterThan(failures[a], x)) + Cardinality(InStep(a, "refused"))
      <4>1. Cardinality(LaterThan(g, x)) <= Cardinality(LaterThan(failures[a], x)) + Cardinality(InStep(a, "refused"))
        BY <2>0, <3>1 DEF ThrottledAccount, GuessesCounted
      <4>2. /\ Cardinality(LaterThan(failures[a], x)) \in Nat /\ Cardinality(InStep(a, "refused")) \in Nat
            /\ Cardinality(LaterThan(g, x)) \in Nat
        BY <2>0 DEF AccountParts
      <4>3. Cardinality(LaterThan(h, x)) <= Cardinality(LaterThan(g, x)) /\ Cardinality(LaterThan(h, x)) \in Nat
        BY <2>2
      <4> HIDE DEF g, h
      <4> QED  BY <4>1, <4>2, <4>3
    <3> HIDE DEF h
    <3> QED  BY <1>1, <2>1, <2>4, <3>1 DEF GuessesCounted
  <2>6. GuessesToCome(a)'
    <3>1. Len(g) + Cardinality(InStep(a, "read")) <= MaxFailures - 1 + Cardinality(Logins)
      BY <2>0 DEF ThrottledAccount, GuessesToCome
    <3>2. /\ Len(g) \in Nat /\ Cardinality(InStep(a, "read")) \in Nat /\ MaxFailures \in Nat
          /\ Cardinality(Logins) \in Nat
      BY <2>0 DEF AccountParts
    <3>3. Len(h) \in Nat /\ Len(h) <= Len(g)
      BY <2>2
    <3> HIDE DEF g, h
    <3>4. Len(h) + Cardinality(InStep(a, "read")) <= MaxFailures - 1 + Cardinality(Logins)
      BY <3>1, <3>2, <3>3
    <3> QED  BY <2>1, <2>4, <3>4 DEF GuessesToCome
  <2>7. RecentGuesses(a)'
    <3>0. /\ \A i \in 1..Len(g) : g[i] <= now /\ g[i] \in Nat
          /\ \A i, j \in 1..Len(g) : i <= j => g[i] <= g[j]
      BY <2>0 DEF ThrottledAccount, RecentGuesses, AccountParts
    <3>1. CASE h = <<>>
      BY <2>1, <3>1 DEF RecentGuesses
    <3>2. ASSUME NEW f \in 1..Len(g), h = SubSeq(g, f, Len(g)), g[f] + Window >= time PROVE RecentGuesses(a)'
      <4> HIDE DEF g, h
      <4>1. /\ Len(h) = Len(g) - f + 1 /\ f \in Nat /\ f >= 1 /\ f <= Len(g) /\ Len(g) \in Nat
            /\ \A i \in 1..(Len(g) - f + 1) : h[i] = g[f + i - 1]
        BY <2>1, <3>2, EndOf
      <4>2. \A i \in 1..Len(h) : f + i - 1 \in 1..Len(g) /\ f <= f + i - 1 /\ h[i] = g[f + i - 1]
        BY <4>1
      <4>3. \A i \in 1..Len(h) : h[i] <= now /\ g[f] <= h[i] /\ h[i] \in Nat /\ g[f] \in Nat
        BY <3>0, <4>2
      <4>4. Window \in Nat
        BY SignInAssumption
      <4>5. \A i \in 1..Len(h) : h[i] <= now + 1 /\ h[i] + Window > now + 1
        BY <1>1, <3>2, <4>3, <4>4
      <4>6. ASSUME NEW i \in 1..Len(h), NEW j \in 1..Len(h), i <= j PROVE h[i] <= h[j]
        <5>1. f + i - 1 <= f + j - 1
          BY <4>1, <4>6
        <5> QED  BY <3>0, <4>2, <5>1
      <4> QED  BY <1>1, <2>1, <4>5, <4>6 DEF RecentGuesses
    <3> QED  BY <1>2, <2>1, <3>1, <3>2, SinceIs
  <2> QED  BY <2>3, <2>5, <2>6, <2>7 DEF ThrottledAccount
<1> QED  BY <1>3, <1>4 DEF ThrottleInv

\* Nothing has been tried at the start, nor after one.
Untried ==
  now \in Nat /\ failures = NoTimes /\ guesses = NoTimes /\ lockedTill = NoLock /\ signIns = NoSignIns

LEMMA NothingTried == Untried => ThrottleInv
<1> SUFFICES ASSUME Untried PROVE ThrottleInv
  OBVIOUS
<1> USE DEF Untried
<1>1. ThrottleTypes
  BY DEF ThrottleTypes, NoTimes, NoLock, NoSignIns, SignInRows
<1>2. ASSUME NEW a \in People PROVE ThrottledAccount(a)
  <2>1. failures[a] = <<>> /\ guesses[a] = <<>>
    BY DEF NoTimes
  <2>2. InStep(a, "read") = {} /\ InStep(a, "refused") = {}
    BY DEF InStep, Step, NoSignIns, Waiting
  <2>3. Cardinality(InStep(a, "read")) = 0 /\ Cardinality(InStep(a, "refused")) = 0
    BY <2>2, FS_EmptySet
  <2>4. FewFailures(a) /\ RecentGuesses(a)
    BY <2>1, SignInAssumption DEF FewFailures, RecentGuesses
  <2>5. GuessesCounted(a)
    BY <2>1, <2>3, NothingCounted DEF GuessesCounted
  <2>6. GuessesToCome(a)
    BY <2>1, <2>3, NothingCounted DEF GuessesToCome
  <2> QED  BY <2>4, <2>5, <2>6 DEF ThrottledAccount
<1> QED  BY <1>1, <1>2 DEF ThrottleInv

LEMMA RestartCounted ==
  ASSUME ThrottleInv, RestartLogin
  PROVE  ThrottleInv'
<1>1. Untried'
  BY DEF ThrottleInv, ThrottleTypes, RestartLogin, Untried, NoTimes, NoLock, NoSignIns, Waiting
<1>2. (Untried => ThrottleInv)'
  BY NothingTried, PTL
<1> QED  BY <1>1, <1>2

LEMMA ThrottleKept == SignedOutInv /\ ThrottleInv /\ [SignInNext]_signInVars => ThrottleInv'
<1> SUFFICES ASSUME SignedOutInv, ThrottleInv, [SignInNext]_signInVars PROVE ThrottleInv'
  OBVIOUS
<1>1. ASSUME NEW t \in Logins, NEW a \in People, NEW c \in Clients, NEW p \in {0, users[a].password},
             AskToSignIn(t, a, c, p)
      PROVE  ThrottleInv'
  <2>1. p \in Nat
    BY DEF SignedOutInv, SignInTypes, UserRows
  <2> QED  BY <1>1, <2>1, AskCounted
<1>2. ASSUME NEW t \in Logins, NEW a \in People,
             CheckPassword(t, a) \/ OpenSession(t, a) \/ Welcome(t, a) \/ Refuse(t, a)
      PROVE  ThrottleInv'
  BY <1>2, CheckCounted, OpenCounted, WelcomeCounted, RefuseCounted
<1>3. ASSUME UNCHANGED <<now, throttle, signIns, guesses>> PROVE ThrottleInv'
  <2>1. /\ UNCHANGED <<now, failures, lockedTill, guesses>> /\ signIns' \in [Logins -> SignInRows]
        /\ \A u \in Logins, b \in People, at \in {"read", "refused"} : Step(u, b, at)' <=> Step(u, b, at)
    BY <1>3 DEF throttle, ThrottleInv, ThrottleTypes, Step
  <2> QED  BY <2>1, ElsewhereCounted
<1>4. ASSUME NEW a \in People,
             ChangePassword(a) \/ EndSessions(a) \/ (\E on \in BOOLEAN : SetActive(a, on))
      PROVE  ThrottleInv'
  BY <1>3, <1>4, EndCounted DEF ChangePassword, SetActive
<1>5. ASSUME NEW s \in sessions, Logout(s) PROVE ThrottleInv'
  BY <1>3, <1>5 DEF Logout
<1>6. CASE UNCHANGED signInVars
  BY <1>3, <1>6 DEF signInVars
<1> QED  BY <1>1, <1>2, <1>4, <1>5, <1>6, TickCounted, RestartCounted DEF SignInNext

\* GuessesAreBounded for any number of accounts, clients and threads, any limit, window and
\* lockout: within a window, and between two successful sign-ins, fewer wrong passwords than
\* max_failures are tried on an account, and one more for each thread.
THEOREM GuessesStayFew == SignInSpec => []GuessesAreBounded
<1>1. SignInInit => ThrottleInv
  <2>1. SignInInit => Untried
    BY DEF SignInInit, Untried
  <2> QED  BY <2>1, NothingTried
<1>2. ThrottleInv => GuessesAreBounded
  <2> SUFFICES ASSUME ThrottleInv, NEW a \in People
               PROVE  Len(guesses[a]) <= MaxFailures - 1 + Cardinality(Logins)
    BY DEF GuessesAreBounded
  <2>1. Len(guesses[a]) + Cardinality(InStep(a, "read")) <= MaxFailures - 1 + Cardinality(Logins)
    BY DEF ThrottleInv, ThrottledAccount, GuessesToCome
  <2>2. AccountParts(a)
    BY PartsOf
  <2>3. /\ Len(guesses[a]) \in Nat /\ Cardinality(InStep(a, "read")) \in Nat
        /\ MaxFailures \in Nat /\ Cardinality(Logins) \in Nat
    BY <2>2 DEF AccountParts
  <2> QED  BY <2>1, <2>3
<1> QED  BY <1>1, <1>2, SignedOutStart, SignedOutKept, ThrottleKept, PTL DEF SignInSpec

-----------------------------------------------------------------------------
(***************************************************************************)
(* ModelRouting.  The property speaks of the call; the invariant carries it *)
(* there from the decision.  Before memory is looked at the model is the   *)
(* decision's own choice; afterwards it is that or a smaller candidate, and *)
(* every candidate passed the gates on the snapshot the decision was made  *)
(* on.                                                                     *)
(***************************************************************************)
Routed(s) == s.at \in {"routed", "fitted", "calling"}

\* the fields of a stage, which an update of one of them keeps
StageShape(s) ==
  DOMAIN s = {"at", "needs", "sensitivity", "preferred", "role", "eligible", "model", "record",
              "shrunk", "routedOn"}

CandidatesPassed(s) ==
  \A m \in s.eligible :
    /\ m \in Registered /\ m \in s.routedOn
    /\ s.needs \subseteq CapabilitiesOf[m]
    /\ s.sensitivity \in ApprovedFor[m]

ChoiceIsKept(s) ==
  /\ s.model = s.record /\ s.model \in s.eligible
  /\ s.preferred \in s.eligible /\ s.model # s.preferred =>
       s.at # "routed" /\ s.shrunk /\ Billions[s.model] < Billions[s.preferred]

StageInv(s) == StageShape(s) /\ (Routed(s) => CandidatesPassed(s) /\ ChoiceIsKept(s))

RoutingInv == StageInv(stage)

\* A stage with nothing under way, or that nothing can serve, satisfies the invariant.
LEMMA IdleStage == StageInv(NoStage) /\ StageInv([NoStage EXCEPT !.at = "unserved"])
<1> DEFINE unserved == [NoStage EXCEPT !.at = "unserved"]
<1>1. NoStage.at = "none" /\ unserved.at = "unserved"
  BY DEF NoStage
<1>2. ~ Routed(NoStage) /\ ~ Routed(unserved)
  <2> HIDE DEF unserved
  <2> QED
    BY <1>1 DEF Routed
<1>3. StageShape(NoStage)
  BY SMT DEF StageShape, NoStage
<1>4. StageShape(unserved)
  BY SMT DEF StageShape, NoStage
<1> QED
  BY <1>2, <1>3, <1>4 DEF StageInv

\* What a decision returns passed the gates on the snapshot it was made on, and is the
\* preferred model whenever that one passed too.
LEMMA DecisionHolds ==
  ASSUME NEW kind, NEW name, NEW sensitivity, NEW preferred, NEW available,
         NEW s \in Decide(kind, name, sensitivity, preferred, available)
  PROVE  StageInv(s)
<1> DEFINE first  == Requirement(kind, name)
           chosen == Eligible(available, first.capabilities, sensitivity)
           second == IF chosen # {} THEN first ELSE SelectRule(kind).fallback
           models == Eligible(available, second.capabilities, sensitivity)
           decided(m) == [at |-> "routed", needs |-> second.capabilities,
                          sensitivity |-> sensitivity, preferred |-> preferred,
                          role |-> second.role, eligible |-> models, model |-> m, record |-> m,
                          shrunk |-> FALSE, routedOn |-> available]
<1>1. \/ s = [NoStage EXCEPT !.at = "unserved"]
      \/ \E m \in Preferring(models, second.role, preferred) : s = decided(m)
  BY Zenon DEF Decide
<1>2. \A m \in models : /\ m \in Registered /\ m \in available
                        /\ second.capabilities \subseteq CapabilitiesOf[m]
                        /\ sensitivity \in ApprovedFor[m]
  BY Zenon DEF Eligible
<1>3. \A m \in Preferring(models, second.role, preferred) :
        m \in models /\ (preferred \in models => m = preferred)
  BY Zenon DEF Preferring, Winners
<1>4. CASE s = [NoStage EXCEPT !.at = "unserved"]
  BY <1>4, IdleStage
<1>5. ASSUME NEW m \in Preferring(models, second.role, preferred), s = decided(m)
      PROVE  StageInv(s)
  <2> HIDE DEF models, second
  <2>1. m \in models /\ (preferred \in models => m = preferred)
    BY <1>3
  <2> QED
    BY <1>2, <1>5, <2>1 DEF StageInv, StageShape, Routed, CandidatesPassed, ChoiceIsKept
<1> QED
  BY <1>1, <1>4, <1>5

\* Making a stage fit keeps its model or gives it a smaller candidate.
LEMMA FitHolds ==
  ASSUME RoutingInv, NEW fitting, Fit(fitting)
  PROVE  RoutingInv'
<1> USE DEF RoutingInv
<1>1. StageShape(stage) /\ CandidatesPassed(stage) /\ ChoiceIsKept(stage) /\ stage.at = "routed"
  BY DEF Fit, StageInv, Routed, StageAt
<1>2. CASE stage' = [stage EXCEPT !.at = "fitted"]
  BY <1>1, <1>2 DEF StageInv, StageShape, Routed, CandidatesPassed, ChoiceIsKept
<1>3. ASSUME NEW m \in Winners(Smaller \cap fitting, stage.role),
             stage' = [stage EXCEPT !.at = "fitted", !.model = m, !.record = m, !.shrunk = TRUE]
      PROVE  RoutingInv'
  <2>1. m \in stage.eligible /\ Billions[m] < Billions[stage.model]
    BY DEF Winners, Smaller
  <2>2. stage.preferred \in stage.eligible => stage.model = stage.preferred
    BY <1>1 DEF ChoiceIsKept
  <2> QED
    BY <1>1, <1>3, <2>1, <2>2 DEF StageInv, StageShape, Routed, CandidatesPassed, ChoiceIsKept
<1> QED
  BY <1>2, <1>3 DEF Fit

LEMMA RoutingInvHolds == RoutingSpec => []RoutingInv
<1>1. RoutingInit => RoutingInv
  BY IdleStage DEF RoutingInit, RoutingInv
<1>2. RoutingInv /\ [RoutingNext]_routingVars => RoutingInv'
  <2> SUFFICES ASSUME RoutingInv, [RoutingNext]_routingVars PROVE RoutingInv'
    OBVIOUS
  <2>1. ASSUME NEW kind \in Kinds, NEW name \in DOMAIN Stages \cup {"other"},
               NEW sensitivity \in Sensitivities, NEW preferred \in Registered \cup {NoModel},
               Route(kind, name, sensitivity, preferred)
        PROVE  RoutingInv'
    BY <2>1, DecisionHolds DEF Route, RoutingInv
  <2>2. ASSUME NEW fitting \in SUBSET Registered, Fit(fitting) PROVE RoutingInv'
    BY <2>2, FitHolds
  <2>3. CASE CheckModel
    <3>1. stage.at = "fitted" /\ (stage' = [stage EXCEPT !.at = "calling"]
                                  \/ stage' = [NoStage EXCEPT !.at = "unserved"])
      BY <2>3 DEF CheckModel, StageAt
    <3>2. CASE stage' = [stage EXCEPT !.at = "calling"]
      BY <3>1, <3>2 DEF RoutingInv, StageInv, StageShape, Routed, CandidatesPassed, ChoiceIsKept
    <3> QED
      BY <3>1, <3>2, IdleStage DEF RoutingInv
  <2>4. CASE StageOver
    BY <2>4, IdleStage DEF StageOver, RoutingInv
  <2>5. CASE Lapse
    BY <2>5 DEF Lapse, RoutingInv
  <2>6. ASSUME NEW m \in Registered, NEW as \in {"declared", "absent", "replaced"},
               Reinstall(m, as)
        PROVE  RoutingInv'
    BY <2>6 DEF Reinstall, RoutingInv
  <2>7. CASE UNCHANGED routingVars
    BY <2>7 DEF routingVars, RoutingInv
  <2> QED
    BY <2>1, <2>2, <2>3, <2>4, <2>5, <2>6, <2>7 DEF RoutingNext
<1> QED
  BY <1>1, <1>2, PTL DEF RoutingSpec

(***************************************************************************)
(* The model _invoke calls passed the gates route() applied, is the one    *)
(* the run's record names, and is the preferred one if that passed too,    *)
(* unless _fit_or_fallback took a smaller one.                             *)
(***************************************************************************)
THEOREM CalledModelPassedTheGates == RoutingSpec => []AnswererPassedTheGates
<1>1. RoutingInv => AnswererPassedTheGates
  BY DEF RoutingInv, StageInv, Routed, CandidatesPassed, ChoiceIsKept, AnswererPassedTheGates,
         StageAt
<1> QED
  BY <1>1, RoutingInvHolds, PTL

-----------------------------------------------------------------------------
(***************************************************************************)
(* KnowledgeRevisions.  While a reconciliation writes, the table is        *)
(* halfway: what the invariant speaks of is the status each row will have  *)
(* once the writes still to come are made.  A deletion takes competitors   *)
(* away, so a row that was to be in force stays so; what it can do is take *)
(* away the one in force.                                                  *)
(***************************************************************************)
Tables == [Docs -> {Nobody} \cup DocumentRows]

\* no two rows were ingested at the same moment
Dated(rows) == \A d, e \in Docs : rows[d] # Nobody /\ rows[e] # Nobody /\ d # e =>
                                    rows[d].at # rows[e].at

IngestType ==
  /\ ingest.at \in {"idle", "row", "chunks", "read", "settle"}
  /\ ingest.at = "idle" => ingest = NoIngest
  /\ ingest.at = "row" => ingest.doc \in Docs /\ ingest.todo \in Revisions
  /\ ingest.at = "settle" => ingest.todo \in [DOMAIN ingest.todo -> DocumentRows]
                             /\ DOMAIN ingest.todo \subseteq Docs
  /\ DOMAIN ingest = {"at", "doc", "todo"}

\* every row is older than the one an ingestion is about to write
Past ==
  /\ Dated(docs)
  /\ \A d \in Listed : docs[d].at <= ingested /\ (ingest.at = "row" => docs[d].at < ingested)

\* the status d has when what is still to be written is written
Finally(d) ==
  IF ingest.at = "settle" /\ d \in DOMAIN ingest.todo THEN ingest.todo[d].status
  ELSE docs[d].status

Settled ==
  \A d \in Listed :
    /\ Finally(d) = "withdrawn" <=> d \notin Candidates(docs)
    /\ Finally(d) = "active" => d \in InForce(docs)
    /\ d \in InForce(docs) => unsettled \/ Finally(d) = "active"

KnowledgeInv ==
  /\ docs \in Tables /\ ingested \in Nat
  /\ deletions \in [Deleters -> [at : {"idle", "chunks", "row"}, doc : Docs \cup {Nobody}]]
  /\ \A t \in Deleters : deletions[t].at # "idle" => deletions[t].doc \in Docs
  /\ IngestType /\ Past
  /\ ~serving => ingest.at = "idle"
  /\ serving /\ ingest.at \in {"idle", "settle"} => Settled

-----------------------------------------------------------------------------
(* Which row is in force. *)

\* Of two rows that differ in age one outranks the other, and the order is transitive.
LEMMA Ranking ==
  ASSUME NEW x \in DocumentRows, NEW y \in DocumentRows, NEW z \in DocumentRows
  PROVE  /\ x.at # y.at => Outranks(x, y) \/ Outranks(y, x)
         /\ ~ (Outranks(x, y) /\ Outranks(y, x))
         /\ Outranks(x, y) /\ Outranks(y, z) => Outranks(x, z)
  BY KnowledgeAssumption DEF Outranks, DocumentRows

\* Where there is a candidate there is one in force: a candidate with the fewest above it.
LEMMA SomeInForce ==
  ASSUME NEW rows \in Tables, Dated(rows), Candidates(rows) # {}
  PROVE  InForce(rows) # {}
<1> DEFINE C == Candidates(rows)
           Above(d) == {e \in C : Outranks(rows[e], rows[d])}
           T == {Above(d) : d \in C}
<1>1. C \subseteq Docs /\ \A d \in C : rows[d] \in DocumentRows /\ rows[d] # Nobody
  BY DEF Candidates, Tables
<1>2. IsFiniteSet(C)
  BY <1>1, FS_Subset, KnowledgeAssumption
<1>3. IsWellFoundedOn(StrictSubsetOrdering(C), SUBSET C)
  BY <1>2, FS_FiniteSubsetsOfFinite, FS_StrictSubsetOrderingWellFounded
<1>4. T \subseteq SUBSET C /\ T # {}
  OBVIOUS
<1>5. PICK x \in T : \A y \in T : ~ (<<y, x>> \in StrictSubsetOrdering(C))
  <2> HIDE DEF T, C
  <2> QED
    BY <1>3, <1>4, WFMin
<1>6. PICK d \in C : x = Above(d)
  BY <1>5
<1>7. ASSUME NEW e \in C, Outranks(rows[e], rows[d]) PROVE FALSE
  <2>1. rows[d] \in DocumentRows /\ rows[e] \in DocumentRows
    BY <1>1
  <2>2. Above(e) \subseteq Above(d)
    BY <1>1, <1>7, <2>1, Ranking
  <2>3. e \in Above(d) /\ e \notin Above(e)
    BY <1>7, <2>1, Ranking
  <2>4. <<Above(e), Above(d)>> \in StrictSubsetOrdering(C)
    BY <2>2, <2>3 DEF StrictSubsetOrdering
  <2> QED
    BY <2>4, <1>5, <1>6
<1>8. \A e \in C \ {d} : Outranks(rows[d], rows[e])
  BY <1>1, <1>7, Ranking DEF Dated
<1> QED
  BY <1>8 DEF InForce

\* Nothing else is in force with it.
LEMMA OneIsInForce ==
  ASSUME NEW rows \in Tables, NEW d \in InForce(rows), NEW e \in InForce(rows)
  PROVE  d = e
<1>1. rows[d] \in DocumentRows /\ rows[e] \in DocumentRows
  BY DEF InForce, Candidates, Tables
<1> QED
  BY <1>1, Ranking DEF InForce

\* Which row is in force depends on which are withdrawn, their revisions and their ages.
LEMMA SameInForce ==
  ASSUME NEW rows \in Tables, NEW more \in Tables,
         Candidates(rows) = Candidates(more),
         \A d \in Candidates(rows) : rows[d].revision = more[d].revision /\ rows[d].at = more[d].at
  PROVE  InForce(rows) = InForce(more)
  BY DEF InForce, Outranks

\* What resolve says of a row.
LEMMA Resolution ==
  ASSUME NEW rows \in Tables, Dated(rows), NEW d \in Docs, rows[d] # Nobody
  PROVE  /\ Resolved(rows, d) \in DocumentRows
         /\ Resolved(rows, d).revision = rows[d].revision
         /\ Resolved(rows, d).at = rows[d].at
         /\ Resolved(rows, d).status = "active" <=> d \in InForce(rows)
         /\ Resolved(rows, d).status = "withdrawn" <=> d \notin Candidates(rows)
<1>1. rows[d] \in DocumentRows
  BY DEF Tables
<1>2. InForce(rows) \subseteq Candidates(rows) /\ Candidates(rows) \subseteq Docs
  BY DEF InForce, Candidates
<1>3. d \in Candidates(rows) <=> rows[d].status # "withdrawn"
  BY DEF Candidates
<1>4. CASE d \in InForce(rows)
  <2>1. Resolved(rows, d) = [rows[d] EXCEPT !.status = "active", !.by = Nobody]
    BY <1>4 DEF Resolved
  <2> QED
    BY <1>1, <1>2, <1>4, <2>1 DEF DocumentRows
<1>5. CASE d \notin Candidates(rows)
  <2>1. Resolved(rows, d) = [rows[d] EXCEPT !.status = "withdrawn", !.by = @]
    BY <1>2, <1>3, <1>5 DEF Resolved
  <2> QED
    BY <1>1, <1>2, <1>5, <2>1 DEF DocumentRows
<1>6. CASE d \in Candidates(rows) \ InForce(rows)
  <2> DEFINE other == CHOOSE e \in InForce(rows) : TRUE
  <2>1. other \in Docs
    BY <1>2, <1>6, SomeInForce
  <2>2. Resolved(rows, d) = [rows[d] EXCEPT !.status = "superseded", !.by = other]
    BY <1>3, <1>6 DEF Resolved
  <2> HIDE DEF other
  <2> QED
    BY <1>1, <1>6, <2>1, <2>2 DEF DocumentRows
<1> QED
  BY <1>4, <1>5, <1>6

-----------------------------------------------------------------------------
(* The steps. *)

\* A row that goes leaves the others as they were, and the one in force in force.
LEMMA FewerRows ==
  ASSUME NEW rows \in Tables, NEW d \in Docs, NEW more \in Tables,
         more[d] = Nobody, \A e \in Docs \ {d} : more[e] = rows[e]
  PROVE  /\ Candidates(more) = Candidates(rows) \ {d}
         /\ InForce(rows) \ {d} \subseteq InForce(more)
  BY DEF Tables, Candidates, InForce

LEMMA DeleteRowHolds ==
  ASSUME KnowledgeInv, NEW t \in Deleters, DeleteRow(t)
  PROVE  KnowledgeInv'
<1> USE DEF KnowledgeInv
<1> DEFINE d == deletions[t].doc
<1>1. d \in Docs /\ docs' \in Tables /\ docs'[d] = Nobody /\ \A e \in Docs \ {d} : docs'[e] = docs[e]
  BY DEF DeleteRow, Tables
<1>2. UNCHANGED <<serving, ingest, ingested>> /\ unsettled' = TRUE
  BY DEF DeleteRow
<1>3. deletions' \in [Deleters -> [at : {"idle", "chunks", "row"}, doc : Docs \cup {Nobody}]]
      /\ \A u \in Deleters : deletions'[u].at # "idle" => deletions'[u].doc \in Docs
  BY DEF DeleteRow
<1>4. Past'
  BY <1>1, <1>2 DEF Past, Dated, Listed, Tables
<1>5. IngestType'
  BY <1>2 DEF IngestType, NoIngest
<1>6. ASSUME Settled PROVE Settled'
  <2>1. Candidates(docs') = Candidates(docs) \ {d} /\ InForce(docs) \ {d} \subseteq InForce(docs')
    BY <1>1, FewerRows
  <2>2. \A e \in Listed' : e \in Listed /\ e # d /\ docs'[e] = docs[e]
    BY <1>1 DEF Listed, Tables
  <2>3. \A e \in Listed' : Finally(e)' = Finally(e)
    BY <1>2, <2>2 DEF Finally
  <2> QED
    BY <1>2, <1>6, <2>1, <2>2, <2>3 DEF Settled
<1> QED
  BY <1>1, <1>2, <1>3, <1>4, <1>5, <1>6

LEMMA SetRevisionStatusHolds ==
  ASSUME KnowledgeInv, NEW d \in Docs, SetRevisionStatus(d)
  PROVE  KnowledgeInv'
<1> USE DEF KnowledgeInv
<1> DEFINE rest == [e \in DOMAIN ingest.todo \ {d} |-> ingest.todo[e]]
<1>1. serving /\ ingest.at = "settle" /\ d \in DOMAIN ingest.todo
      /\ UNCHANGED <<serving, deletions, ingested, unsettled>>
  BY DEF SetRevisionStatus, IngestAt
<1>2. ingest'.at = "settle" /\ ingest'.todo = rest /\ DOMAIN ingest' = {"at", "doc", "todo"}
  <2>1. ingest' = [ingest EXCEPT !.todo = rest]
    BY DEF SetRevisionStatus
  <2> HIDE DEF rest
  <2> QED
    BY <1>1, <2>1 DEF IngestType
<1>3. ingest.todo \in [DOMAIN ingest.todo -> DocumentRows] /\ DOMAIN ingest.todo \subseteq Docs
  BY <1>1 DEF IngestType
<1>4. /\ docs' \in Tables
      /\ \A e \in Docs : docs[e] = Nobody <=> docs'[e] = Nobody
      /\ \A e \in Listed : docs'[e].revision = docs[e].revision /\ docs'[e].at = docs[e].at
      /\ \A e \in Docs \ {d} : docs'[e] = docs[e]
      /\ docs[d] # Nobody => docs'[d].status = ingest.todo[d].status
  <2>1. CASE docs[d] = Nobody
    BY <2>1 DEF SetRevisionStatus, Listed
  <2>2. CASE docs[d] # Nobody
    <3> DEFINE newRow == [docs[d] EXCEPT !.status = ingest.todo[d].status, !.by = ingest.todo[d].by]
    <3>1. docs' = [docs EXCEPT ![d] = newRow]
      BY <2>2 DEF SetRevisionStatus, Tables
    <3>2. docs[d] \in DocumentRows /\ ingest.todo[d] \in DocumentRows
      BY <1>1, <1>3, <2>2 DEF Tables
    <3>3. /\ newRow \in DocumentRows /\ newRow.revision = docs[d].revision /\ newRow.at = docs[d].at
          /\ newRow.status = ingest.todo[d].status
      BY <3>2 DEF DocumentRows
    <3>4. newRow # Nobody
      BY <3>3, KnowledgeAssumption
    <3> HIDE DEF newRow
    <3> QED
      BY <2>2, <3>1, <3>3, <3>4 DEF Tables, Listed
  <2> QED
    BY <2>1, <2>2
<1>5. Listed' = Listed /\ \A e \in Listed : Finally(e)' = Finally(e)
  <2>1. Listed' = Listed
    BY <1>4 DEF Listed
  <2>2. ASSUME NEW e \in Listed PROVE Finally(e)' = Finally(e)
    <3>1. CASE e = d
      BY <1>1, <1>2, <1>4, <2>2, <3>1 DEF Finally, Listed
    <3>2. CASE e # d
      BY <1>1, <1>2, <1>4, <2>2, <3>2 DEF Finally, Listed
    <3> QED
      BY <3>1, <3>2
  <2> QED
    BY <2>1, <2>2
<1>6. Past'
  BY <1>1, <1>2, <1>4, <1>5 DEF Past, Dated, Listed
<1>7. IngestType'
  BY <1>2, <1>3 DEF IngestType
<1>8. Candidates(docs') = Candidates(docs)
  <2>1. \A e \in Docs \ {d} : e \in Candidates(docs') <=> e \in Candidates(docs)
    BY <1>4 DEF Candidates
  <2>2. docs[d] # Nobody => (ingest.todo[d].status = "withdrawn" <=> d \notin Candidates(docs))
    BY <1>1 DEF Settled, Finally, Listed
  <2>3. d \in Candidates(docs') <=> d \in Candidates(docs)
    BY <1>4, <2>2 DEF Candidates
  <2> QED
    BY <2>1, <2>3 DEF Candidates
<1>9. InForce(docs') = InForce(docs)
  <2>1. \A e \in Candidates(docs) : docs[e].revision = docs'[e].revision /\ docs[e].at = docs'[e].at
    BY <1>4 DEF Candidates, Listed
  <2> QED
    BY <1>4, <1>8, <2>1, SameInForce
<1>10. Settled'
  BY <1>1, <1>5, <1>8, <1>9 DEF Settled
<1> QED
  BY <1>1, <1>2, <1>4, <1>6, <1>7, <1>10

\* The rows as read decide what is written, and nothing is undecided any more.
LEMMA ReadRowsHolds ==
  ASSUME KnowledgeInv, ReadRows
  PROVE  KnowledgeInv'
<1> USE DEF KnowledgeInv
<1> DEFINE plan == [d \in Unresolved(docs) |-> Resolved(docs, d)]
<1>1. ingest' = [at |-> "settle", doc |-> Nobody, todo |-> plan]
      /\ serving /\ UNCHANGED <<serving, docs, deletions, ingested>>
  BY DEF ReadRows, IngestAt
<1>2. Unresolved(docs) \subseteq Listed /\ Listed \subseteq Docs
  BY DEF Unresolved, Listed
<1>3. \A d \in Listed :
        /\ Resolved(docs, d) \in DocumentRows
        /\ Resolved(docs, d).status = "active" <=> d \in InForce(docs)
        /\ Resolved(docs, d).status = "withdrawn" <=> d \notin Candidates(docs)
  BY Resolution DEF Past, Listed
<1>4. ingest'.at = "settle" /\ ingest'.todo = plan /\ DOMAIN ingest' = {"at", "doc", "todo"}
  BY <1>1
<1>5. plan \in [Unresolved(docs) -> DocumentRows] /\ DOMAIN plan = Unresolved(docs)
  BY <1>2, <1>3
<1>6. IngestType'
  BY <1>2, <1>4, <1>5 DEF IngestType
<1>7. Past' /\ Listed' = Listed
  BY <1>1, <1>4 DEF Past, Dated, Listed
<1>8. ASSUME NEW d \in Listed PROVE Finally(d)' = Resolved(docs, d).status
  <2>1. d \in Unresolved(docs) <=> Resolved(docs, d) # docs[d]
    BY DEF Unresolved, Listed
  <2>2. d \in Unresolved(docs) => plan[d] = Resolved(docs, d)
    OBVIOUS
  <2> HIDE DEF plan
  <2> QED
    BY <1>1, <1>4, <1>5, <2>1, <2>2 DEF Finally
<1>9. Settled'
  BY <1>1, <1>3, <1>7, <1>8 DEF Settled
<1> QED
  BY <1>1, <1>4, <1>6, <1>7, <1>9

LEMMA OpenHolds ==
  ASSUME KnowledgeInv, Open
  PROVE  KnowledgeInv'
<1> USE DEF KnowledgeInv
<1> DEFINE settled == [d \in Docs |-> IF d \in Unresolved(docs) THEN Resolved(docs, d) ELSE docs[d]]
<1>1. docs' = settled /\ ingest.at = "idle" /\ UNCHANGED <<ingest, deletions, ingested>>
  BY DEF Open
<1>2. ASSUME NEW d \in Docs
      PROVE  docs[d] # Nobody => settled[d] = Resolved(docs, d) /\ Resolved(docs, d) # Nobody
  <2>1. docs[d] # Nobody => Resolved(docs, d) \in DocumentRows
    BY Resolution DEF Past
  <2> QED
    BY <2>1, KnowledgeAssumption DEF Unresolved
<1>3. ASSUME NEW d \in Docs PROVE docs[d] = Nobody => settled[d] = Nobody
  BY DEF Unresolved
<1> HIDE DEF settled
<1>4. \A d \in Docs : docs[d] # Nobody =>
        /\ settled[d] \in DocumentRows /\ settled[d] # Nobody
        /\ settled[d].revision = docs[d].revision /\ settled[d].at = docs[d].at
        /\ settled[d].status = "active" <=> d \in InForce(docs)
        /\ settled[d].status = "withdrawn" <=> d \notin Candidates(docs)
  BY <1>2, Resolution DEF Past
<1>5. settled \in Tables
  <2>1. settled = [d \in Docs |-> settled[d]]
    BY DEF settled
  <2>2. \A d \in Docs : settled[d] \in {Nobody} \cup DocumentRows
    BY <1>3, <1>4
  <2> QED
    BY <2>1, <2>2 DEF Tables
<1>6. Candidates(docs') = Candidates(docs) /\ Listed' = Listed
  <2>1. \A d \in Docs : d \in Candidates(settled) <=> d \in Candidates(docs)
    BY <1>3, <1>4 DEF Candidates
  <2>2. \A d \in Docs : settled[d] # Nobody <=> docs[d] # Nobody
    BY <1>3, <1>4
  <2> QED
    BY <1>1, <2>1, <2>2 DEF Candidates, Listed
<1>7. InForce(docs') = InForce(docs)
  <2>1. \A e \in Candidates(docs) : docs[e].revision = settled[e].revision /\ docs[e].at = settled[e].at
    BY <1>4 DEF Candidates
  <2> QED
    BY <1>1, <1>5, <1>6, <2>1, SameInForce
<1>8. Past'
  BY <1>1, <1>3, <1>4 DEF Past, Dated, Listed
<1>9. IngestType'
  BY <1>1 DEF IngestType, NoIngest
<1>10. \A d \in Listed : Finally(d)' = settled[d].status
  BY <1>1 DEF Finally, Listed
<1>11. Settled'
  BY <1>4, <1>6, <1>7, <1>10 DEF Settled, Listed
<1> QED
  BY <1>1, <1>5, <1>8, <1>9, <1>11

\* The steps of an ingestion before it settles, and those that only change what is waited for.
LEMMA IngestHolds ==
  ASSUME KnowledgeInv,
         \/ \E d \in Docs, r \in Revisions : DropPassages(d, r)
         \/ UpsertDocument \/ InsertChunks \/ Ingested
  PROVE  KnowledgeInv'
<1> USE DEF KnowledgeInv
<1>1. ASSUME NEW d \in Docs, NEW r \in Revisions, DropPassages(d, r) PROVE KnowledgeInv'
  <2>1. /\ ingest' = [at |-> "row", doc |-> d, todo |-> r] /\ ingested' = ingested + 1
        /\ serving /\ UNCHANGED <<serving, docs, deletions>>
    BY <1>1 DEF DropPassages, IngestAt
  <2>2. IngestType'
    BY <2>1 DEF IngestType
  <2>3. Past'
    <3>1. \A e \in Listed : docs[e].at \in Nat
      BY KnowledgeAssumption DEF Tables, DocumentRows, Listed
    <3> QED
      BY <2>1, <3>1 DEF Past, Dated, Listed
  <2> QED
    BY <2>1, <2>2, <2>3
<1>2. CASE UpsertDocument
  <2> DEFINE row == [revision |-> ingest.todo, by |-> Nobody, at |-> ingested,
                     status |-> IF ingest.doc \in WithdrawnDocs THEN "withdrawn" ELSE "active"]
  <2>1. /\ docs' = [docs EXCEPT ![ingest.doc] = row]
        /\ ingest' = [ingest EXCEPT !.at = "chunks"]
        /\ serving /\ ingest.at = "row" /\ UNCHANGED <<serving, deletions, ingested>>
    BY <1>2 DEF UpsertDocument, IngestAt
  <2>2. ingest.doc \in Docs /\ row \in DocumentRows /\ row.at = ingested
    BY <2>1 DEF IngestType, DocumentRows
  <2> HIDE DEF row
  <2>3. docs' \in Tables
    BY <2>1, <2>2 DEF Tables
  <2>4. ingest'.at = "chunks" /\ DOMAIN ingest' = {"at", "doc", "todo"}
    BY <2>1 DEF IngestType
  <2>5. IngestType'
    BY <2>4 DEF IngestType
  <2>6. docs'[ingest.doc] = row /\ \A e \in Docs \ {ingest.doc} : docs'[e] = docs[e]
    BY <2>1, <2>2 DEF Tables
  <2>7. Past'
    <3>1. \A e \in Listed : docs[e].at \in Nat /\ docs[e].at < ingested
      BY <2>1, KnowledgeAssumption DEF Tables, DocumentRows, Listed, Past
    <3> QED
      BY <2>1, <2>2, <2>4, <2>6, <3>1 DEF Past, Dated, Listed
  <2> QED
    BY <2>1, <2>3, <2>4, <2>5, <2>7
<1>3. CASE InsertChunks
  <2>1. /\ ingest' = [ingest EXCEPT !.at = "read"]
        /\ serving /\ UNCHANGED <<serving, docs, deletions, ingested>>
    BY <1>3 DEF InsertChunks, IngestAt
  <2>2. ingest'.at = "read" /\ DOMAIN ingest' = {"at", "doc", "todo"}
    BY <2>1 DEF IngestType
  <2>3. IngestType' /\ Past'
    BY <2>1, <2>2 DEF IngestType, Past, Dated, Listed
  <2> QED
    BY <2>1, <2>2, <2>3
<1>4. CASE Ingested
  <2>1. /\ ingest' = NoIngest /\ ingest.at = "settle" /\ DOMAIN ingest.todo = {}
        /\ serving /\ UNCHANGED <<serving, docs, deletions, ingested, unsettled>>
    BY <1>4 DEF Ingested, IngestAt
  <2>2. IngestType' /\ Past' /\ ingest'.at = "idle"
    BY <2>1 DEF IngestType, NoIngest, Past, Dated, Listed
  <2>3. \A d \in Listed : Finally(d)' = Finally(d)
    BY <2>1, <2>2 DEF Finally
  <2>4. Settled'
    BY <2>1, <2>3 DEF Settled, Listed
  <2> QED
    BY <2>1, <2>2, <2>4
<1> QED
  BY <1>1, <1>2, <1>3, <1>4

LEMMA OtherStepsHold ==
  ASSUME KnowledgeInv,
         \/ \E t \in Deleters : DeleteChunks(t) \/ \E d \in Docs : Delete(t, d)
         \/ Die
         \/ UNCHANGED knowledgeVars
  PROVE  KnowledgeInv'
<1> USE DEF KnowledgeInv
<1>1. ASSUME UNCHANGED <<serving, docs, ingest, ingested, unsettled>>
      PROVE  /\ IngestType' /\ Past' /\ (~serving => ingest.at = "idle")'
             /\ (serving /\ ingest.at \in {"idle", "settle"} => Settled)'
  <2>1. IngestType' /\ Past' /\ (~serving => ingest.at = "idle")'
    BY <1>1 DEF IngestType, NoIngest, Past, Dated, Listed
  <2>2. Settled' <=> Settled
    BY <1>1 DEF Settled, Finally, Listed
  <2> QED
    BY <1>1, <2>1, <2>2
<1>2. ASSUME NEW t \in Deleters, DeleteChunks(t) PROVE KnowledgeInv'
  <2>1. deletions[t].doc \in Docs
    BY <1>2 DEF DeleteChunks
  <2> QED
    BY <1>1, <1>2, <2>1 DEF DeleteChunks
<1>3. ASSUME NEW t \in Deleters, NEW d \in Docs, Delete(t, d) PROVE KnowledgeInv'
  BY <1>1, <1>3 DEF Delete
<1>4. CASE Die
  <2>1. /\ ingest' = NoIngest /\ deletions' = NoDeletions /\ serving' = FALSE
        /\ UNCHANGED <<docs, ingested>>
    BY <1>4 DEF Die
  <2>2. IngestType' /\ Past' /\ ingest'.at = "idle"
    BY <2>1 DEF IngestType, NoIngest, Past, Dated, Listed
  <2> QED
    BY <2>1, <2>2 DEF NoDeletions
<1>5. CASE UNCHANGED knowledgeVars
  BY <1>1, <1>5 DEF knowledgeVars
<1> QED
  BY <1>2, <1>3, <1>4, <1>5

-----------------------------------------------------------------------------
LEMMA KnowledgeInvHolds == KnowledgeSpec => []KnowledgeInv
<1>1. KnowledgeInit => KnowledgeInv
  <2> SUFFICES ASSUME KnowledgeInit PROVE KnowledgeInv
    OBVIOUS
  <2>1. docs \in Tables /\ Listed = {}
    BY DEF KnowledgeInit, Tables, Listed
  <2>2. IngestType /\ Past /\ Settled
    BY <2>1 DEF KnowledgeInit, IngestType, NoIngest, Past, Dated, Settled, Listed
  <2> QED
    <3>1. deletions \in [Deleters -> [at : {"idle", "chunks", "row"}, doc : Docs \cup {Nobody}]]
          /\ \A t \in Deleters : deletions[t].at = "idle"
      BY DEF KnowledgeInit, NoDeletions
    <3> QED
      BY <2>1, <2>2, <3>1 DEF KnowledgeInit, KnowledgeInv
<1>2. KnowledgeInv /\ [KnowledgeNext]_knowledgeVars => KnowledgeInv'
  BY DeleteRowHolds, SetRevisionStatusHolds, ReadRowsHolds, OpenHolds, IngestHolds,
     OtherStepsHold DEF KnowledgeNext
<1> QED
  BY <1>1, <1>2, PTL DEF KnowledgeSpec

(***************************************************************************)
(* Between ingestions the active row, if there is one, is the one that     *)
(* resolve puts in force, and there is one unless a row was deleted since  *)
(* the last reconciliation (reconcile_revisions, delete_document).         *)
(***************************************************************************)
THEOREM OneRevisionInForce == KnowledgeSpec => []OneInForce
<1>1. KnowledgeInv => OneInForce
  <2> SUFFICES ASSUME KnowledgeInv, serving, ingest.at = "idle"
               PROVE  LET current == {d \in Candidates(docs) : docs[d].status = "active"}
                      IN  /\ \A d \in current, e \in Candidates(docs) :
                               docs[e].revision <= docs[d].revision /\ (e \in current => e = d)
                          /\ current = {} /\ Candidates(docs) # {} => unsettled
    BY DEF OneInForce
  <2> USE DEF KnowledgeInv
  <2> DEFINE current == {d \in Candidates(docs) : docs[d].status = "active"}
  <2>1. Candidates(docs) \subseteq Listed
    BY DEF Candidates, Listed
  <2>2. \A d \in Listed : Finally(d) = docs[d].status
    BY DEF Finally
  <2>3. current \subseteq InForce(docs)
    BY <2>1, <2>2 DEF Settled
  <2>4. ASSUME NEW d \in current, NEW e \in Candidates(docs)
        PROVE  docs[e].revision <= docs[d].revision /\ (e \in current => e = d)
    <3>1. e \in current => e = d
      BY <2>3, <2>4, OneIsInForce
    <3>2. docs[e] \in DocumentRows /\ docs[d] \in DocumentRows
      BY <2>1, <2>4 DEF Tables, Listed
    <3>3. e # d => Outranks(docs[d], docs[e])
      BY <2>3, <2>4 DEF InForce
    <3> QED
      BY <3>1, <3>2, <3>3, KnowledgeAssumption DEF Outranks, DocumentRows
  <2>5. ASSUME current = {}, Candidates(docs) # {} PROVE unsettled
    <3>1. InForce(docs) # {} /\ InForce(docs) \subseteq Candidates(docs)
      BY <2>5, SomeInForce DEF Past, InForce
    <3> QED
      BY <2>1, <2>2, <2>5, <3>1 DEF Settled
  <2> QED
    BY <2>4, <2>5
<1> QED
  BY <1>1, KnowledgeInvHolds, PTL

-----------------------------------------------------------------------------
(***************************************************************************)
(* Drawing.  What a walk has passed is a chain: each element but the last  *)
(* is joined to the one before it, to the one after it and to nothing      *)
(* else, so that it never comes back on itself and a leak along it must    *)
(* pass each of its elements in turn.                                      *)
(***************************************************************************)
Drawn == Others \cup {Tag}

Preceding(s, i) == IF i = 1 THEN Tag ELSE s[i - 1]

Linked(s) ==
  /\ \A i, j \in 1..Len(s) : s[i] = s[j] => i = j
  /\ \A i \in 1..Len(s) : Preceding(s, i) \in Neighbours(s[i])
  /\ \A i \in 1..Len(s) : i < Len(s) => Neighbours(s[i]) \ {Preceding(s, i)} = {s[i + 1]}

Inline(s) == s \in Seq(Others) /\ \A i \in 1..Len(s) : TypeOf(s[i]) \in INLINE

\* b is what is said of a branch that passes the chain s
ChainOf(b, s) ==
  /\ Inline(s) /\ Linked(s) /\ b.first \in Others
  /\ s # <<>> => s[1] = b.first
  /\ b = JudgeBranch(b.first, s)

Trail == Append(walk.elements, walk.current)

WalkInv ==
  walk # NoWalk =>
    /\ walk \in [first : Others, previous : Drawn, current : Drawn, elements : Seq(Others)]
    /\ Inline(walk.elements) /\ Linked(Trail)
    /\ Trail[1] = walk.first /\ walk.previous = Preceding(Trail, Len(Trail))

BranchesInv == \A b \in judged : \E s : ChainOf(b, s)

AllBranches ==
  \A f \in Neighbours(Tag) :
    f \in ahead \/ (walk # NoWalk /\ walk.first = f) \/ \E b \in judged : b.first = f

IsolationInv == ahead \subseteq Neighbours(Tag) /\ WalkInv /\ BranchesInv /\ AllBranches

\* Lines join both ways.
LEMMA BothWays ==
  ASSUME NEW e \in Drawn, NEW f \in Neighbours(e)
  PROVE  f \in Drawn /\ e # f /\ e \in Neighbours(f) /\ {e, f} \in drawing.lines
<1>1. {e, f} = {f, e}
  OBVIOUS
<1> QED  BY <1>1 DEF Neighbours, Drawn

LEMMA TagNotOthers == Tag \notin Others /\ IsFiniteSet(Others) /\ IsFiniteSet(Drawn)
<1>1. Tag \notin Others /\ IsFiniteSet(Others)
  BY DrawingAssumption
<1>2. IsFiniteSet(Others \cup {Tag})
  BY <1>1, FS_AddElement
<1> QED  BY <1>1, <1>2 DEF Drawn

\* The tag is equipment.
LEMMA TagIsNotInline == TypeOf(Tag) \notin INLINE
BY DEF TypeOf, INLINE, BLOCK

\* A branch that does not end goes on to one element only.
LEMMA OneWayOn ==
  ASSUME ~EndsBranch(Onward)
  PROVE  \E f : Onward = {f}
<1>1. IsFiniteSet(Onward)
  <2>1. Onward \subseteq Drawn
    BY DEF Onward, Neighbours, Drawn
  <2> QED  BY <2>1, TagNotOthers, FS_Subset
<1>2. Cardinality(Onward) = 1
  BY DEF EndsBranch
<1> QED  BY <1>1, <1>2, FS_Singleton

\* What does not change: the drawing and the purpose, so what is said of a chain.
LEMMA DrawingStands ==
  ASSUME drawing' = drawing, purpose' = purpose
  PROVE  /\ \A e : TypeOf(e)' = TypeOf(e) /\ Neighbours(e)' = Neighbours(e)
         /\ \A s : Inline(s)' = Inline(s) /\ Linked(s)' = Linked(s)
         /\ \A b, s : ChainOf(b, s)' = ChainOf(b, s)
<1>1. \A e : TypeOf(e)' = TypeOf(e)
  BY DEF TypeOf
<1>2. \A e : Neighbours(e)' = Neighbours(e)
  BY DEF Neighbours
<1>3. \A s : Inline(s)' = Inline(s)
  BY <1>1 DEF Inline
<1>4. \A s : Linked(s)' = Linked(s)
  BY <1>2 DEF Linked, Preceding
<1>5. \A s, types : OfType(s, types)' = OfType(s, types)
  BY <1>1 DEF OfType
<1>6. /\ \A s, i : BlocksBefore(s, i)' = BlocksBefore(s, i)
      /\ \A s, i : BlocksAfter(s, i)' = BlocksAfter(s, i)
  BY <1>5 DEF BlocksBefore, BlocksAfter, BLOCK
<1>7. \A s : Bled(s)' = Bled(s)
  BY <1>5, <1>6 DEF Bled
<1>8. \A s : DoubleBlock(s)' = DoubleBlock(s)
  <2>1. \A s, i : (FarthestOf(BlocksBefore(s, i)) \cup NearestOf(BlocksAfter(s, i)))' =
                  FarthestOf(BlocksBefore(s, i)) \cup NearestOf(BlocksAfter(s, i))
    BY <1>6 DEF NearestOf, FarthestOf
  <2>2. \A s, i : Passed(s, FarthestOf(BlocksBefore(s, i)) \cup NearestOf(BlocksAfter(s, i)))' =
                  Passed(s, FarthestOf(BlocksBefore(s, i)) \cup NearestOf(BlocksAfter(s, i)))
    BY <2>1 DEF Passed
  <2>3. \A s : NearestOf(Bled(s))' = NearestOf(Bled(s))
    BY <1>7 DEF NearestOf
  <2>4. \A s : Passed(s, NearestOf(Bled(s)))' = Passed(s, NearestOf(Bled(s)))
    BY <2>3 DEF Passed
  <2> SUFFICES ASSUME NEW s PROVE DoubleBlock(s)' = DoubleBlock(s)
    OBVIOUS
  <2> QED  BY <2>2, <2>3, <2>4 DEF DoubleBlock
<1>9. \A f, s : JudgeBranch(f, s)' = JudgeBranch(f, s)
  BY <1>5, <1>7, <1>8 DEF JudgeBranch, Passed, NearestOf, BLOCK
<1>10. \A b, s : ChainOf(b, s)' = ChainOf(b, s)
  BY <1>3, <1>4, <1>9 DEF ChainOf
<1> QED  BY <1>1, <1>2, <1>3, <1>4, <1>10

LEMMA AppendIs ==
  ASSUME NEW S, NEW s \in Seq(S), NEW e \in S
  PROVE  /\ Append(s, e) \in Seq(S) /\ Len(Append(s, e)) = Len(s) + 1
         /\ \A i \in 1..Len(s) : Append(s, e)[i] = s[i]
         /\ Append(s, e)[Len(s) + 1] = e /\ Len(s) \in Nat /\ \A i \in 1..Len(s) : s[i] \in S
OBVIOUS

\* A chain goes on without coming back on itself.
LEMMA Longer ==
  ASSUME NEW s \in Seq(Drawn), s # <<>>, Linked(s), NEW next,
         s[Len(s)] \in Others, Neighbours(s[Len(s)]) \ {Preceding(s, Len(s))} = {next}
  PROVE  Append(s, next) \in Seq(Drawn) /\ Linked(Append(s, next))
<1> DEFINE n == Len(s)
           r == Append(s, next)
<1>1. n \in Nat /\ n > 0 /\ \A i \in 1..n : s[i] \in Drawn
  OBVIOUS
<1>2. next \in Neighbours(s[n]) /\ next # Preceding(s, n)
  OBVIOUS
<1>3. next \in Drawn /\ next # s[n] /\ s[n] \in Neighbours(next)
  <2>1. s[n] \in Drawn
    BY <1>1
  <2> QED  BY <1>2, <2>1, BothWays
<1>4. /\ r \in Seq(Drawn) /\ Len(r) = n + 1 /\ r[n + 1] = next
      /\ \A i \in 1..n : r[i] = s[i]
  BY <1>1, <1>3, AppendIs
<1>5. \A i \in 1..n : Preceding(r, i) = Preceding(s, i)
  <2> SUFFICES ASSUME NEW i \in 1..n PROVE Preceding(r, i) = Preceding(s, i)
    OBVIOUS
  <2>1. i = 1 \/ i - 1 \in 1..n
    BY <1>1
  <2> QED  BY <2>1, <1>4 DEF Preceding
<1>6. Preceding(r, n + 1) = s[n]
  <2>1. n + 1 # 1 /\ n + 1 - 1 = n /\ n \in 1..n
    BY <1>1
  <2> QED  BY <2>1, <1>4 DEF Preceding
<1>7. ASSUME NEW j \in 1..n, s[j] = next PROVE FALSE
  <2>1. j # n /\ j < n /\ j + 1 \in 1..n /\ n \in 1..n
    BY <1>1, <1>3, <1>7
  <2>2. Neighbours(s[j]) \ {Preceding(s, j)} = {s[j + 1]}
    BY <2>1 DEF Linked
  <2>3. s[n] \in Neighbours(s[j])
    BY <1>3, <1>7
  <2>4. s[n] = Preceding(s, j) \/ s[n] = s[j + 1]
    BY <2>2, <2>3
  <2>5. CASE s[n] = Preceding(s, j)
    <3>1. CASE j = 1
      BY <3>1, <2>5, TagNotOthers DEF Preceding
    <3>2. CASE j # 1
      <4>1. j - 1 \in 1..n /\ j - 1 # n /\ s[n] = s[j - 1]
        BY <3>2, <2>5, <2>1, <1>1 DEF Preceding
      <4> QED  BY <4>1, <2>1 DEF Linked
    <3> QED  BY <3>1, <3>2
  <2>6. CASE s[n] = s[j + 1]
    <3>1. j + 1 = n
      BY <2>1, <2>6 DEF Linked
    <3>2. Preceding(s, n) = s[j]
      BY <3>1, <1>1 DEF Preceding
    <3> QED  BY <3>2, <1>2, <1>7
  <2> QED  BY <2>4, <2>5, <2>6
<1>8. \A i, j \in 1..Len(r) : r[i] = r[j] => i = j
  <2> SUFFICES ASSUME NEW i \in 1..Len(r), NEW j \in 1..Len(r), r[i] = r[j] PROVE i = j
    OBVIOUS
  <2>1. (i \in 1..n \/ i = n + 1) /\ (j \in 1..n \/ j = n + 1)
    BY <1>1, <1>4
  <2>2. CASE i \in 1..n /\ j \in 1..n
    BY <2>2, <1>4 DEF Linked
  <2> QED  BY <2>1, <2>2, <1>4, <1>7
<1>9. ASSUME NEW i \in 1..Len(r) PROVE Preceding(r, i) \in Neighbours(r[i])
  <2>1. i \in 1..n \/ i = n + 1
    BY <1>1, <1>4
  <2>2. CASE i \in 1..n
    BY <2>2, <1>4, <1>5 DEF Linked
  <2>3. CASE i = n + 1
    BY <2>3, <1>3, <1>4, <1>6
  <2> QED  BY <2>1, <2>2, <2>3
<1>10. ASSUME NEW i \in 1..Len(r), i < Len(r) PROVE Neighbours(r[i]) \ {Preceding(r, i)} = {r[i + 1]}
  <2>1. i \in 1..n
    BY <1>1, <1>4, <1>10
  <2>2. CASE i = n
    BY <2>1, <2>2, <1>4, <1>5
  <2>3. CASE i # n
    <3>1. i < n /\ i + 1 \in 1..n
      BY <2>1, <2>3, <1>1
    <3> QED  BY <2>1, <3>1, <1>4, <1>5 DEF Linked
  <2> QED  BY <2>2, <2>3
<1> QED  BY <1>4, <1>8, <1>9, <1>10 DEF Linked

\* A chain without its last element is one.
LEMMA Shorter ==
  ASSUME NEW s \in Seq(Others), NEW e \in Drawn, Linked(Append(s, e))
  PROVE  Linked(s)
<1> DEFINE r == Append(s, e)
<1>1. /\ Len(s) \in Nat /\ Len(r) = Len(s) + 1 /\ \A i \in 1..Len(s) : r[i] = s[i] /\ i \in 1..Len(r)
  <2>1. s \in Seq(Drawn)
    BY DEF Drawn
  <2>2. Len(s) \in Nat /\ Len(r) = Len(s) + 1 /\ \A i \in 1..Len(s) : r[i] = s[i]
    BY <2>1, AppendIs
  <2> QED  BY <2>2
<1> HIDE DEF r
<1>2. \A i \in 1..Len(s) : Preceding(r, i) = Preceding(s, i)
  <2> SUFFICES ASSUME NEW i \in 1..Len(s) PROVE Preceding(r, i) = Preceding(s, i)
    OBVIOUS
  <2>1. i = 1 \/ i - 1 \in 1..Len(s)
    BY <1>1
  <2> QED  BY <2>1, <1>1 DEF Preceding
<1>3. Linked(r)
  BY DEF r
<1>4. \A i, j \in 1..Len(s) : s[i] = s[j] => i = j
  BY <1>1, <1>3 DEF Linked
<1>5. \A i \in 1..Len(s) : Preceding(s, i) \in Neighbours(s[i])
  BY <1>1, <1>2, <1>3 DEF Linked
<1>6. ASSUME NEW i \in 1..Len(s), i < Len(s) PROVE Neighbours(s[i]) \ {Preceding(s, i)} = {s[i + 1]}
  <2>1. i + 1 \in 1..Len(s) /\ i < Len(r) /\ i \in 1..Len(r)
    BY <1>1, <1>6
  <2>2. Neighbours(r[i]) \ {Preceding(r, i)} = {r[i + 1]}
    BY <1>3, <2>1 DEF Linked
  <2> QED  BY <1>1, <1>2, <2>1, <2>2
<1> QED  BY <1>4, <1>5, <1>6 DEF Linked

LEMMA JudgedFirst ==
  ASSUME NEW f, NEW s
  PROVE  JudgeBranch(f, s).first = f
BY DEF JudgeBranch

LEMMA IsolationStart == DrawingInit => IsolationInv
<1> SUFFICES ASSUME DrawingInit PROVE IsolationInv
  OBVIOUS
<1>1. Neighbours(Tag) = ahead
  BY TagNotOthers DEF DrawingInit, Neighbours
<1>2. walk = NoWalk /\ judged = {}
  BY DEF DrawingInit
<1> QED  BY <1>1, <1>2 DEF IsolationInv, WalkInv, BranchesInv, AllBranches

\* A walk starts with one element beside the tag.
LEMMA BeginKeeps ==
  ASSUME IsolationInv, NEW first \in ahead, Begin(first)
  PROVE  IsolationInv'
<1>1. /\ drawing' = drawing /\ purpose' = purpose /\ judged' = judged
      /\ walk = NoWalk /\ ahead' = ahead \ {first}
      /\ walk' = [first |-> first, previous |-> Tag, current |-> first, elements |-> <<>>]
  BY DEF Begin
<1>2. /\ \A e : Neighbours(e)' = Neighbours(e)
      /\ \A s : Inline(s)' = Inline(s) /\ Linked(s)' = Linked(s)
      /\ \A b, s : ChainOf(b, s)' = ChainOf(b, s)
  BY <1>1, DrawingStands
<1>3. first \in Neighbours(Tag) /\ first \in Others /\ Tag \in Neighbours(first)
  <2>1. first \in Neighbours(Tag) /\ Tag \in Drawn
    BY DEF IsolationInv, Drawn
  <2> QED  BY <2>1, BothWays DEF Neighbours
<1>4. walk' # NoWalk /\ walk'.first = first
  BY <1>1, <1>3, TagNotOthers DEF NoWalk
<1>5. WalkInv'
  <2>1. walk' \in [first : Others, previous : Drawn, current : Drawn, elements : Seq(Others)]
    BY <1>1, <1>3 DEF Drawn
  <2>2. Trail' = <<first>>
    BY <1>1 DEF Trail
  <2>3. Linked(<<first>>)
    BY <1>3 DEF Linked, Preceding
  <2>4. Inline(<<>>)
    BY DEF Inline
  <2>5. <<first>>[1] = first /\ Preceding(<<first>>, Len(<<first>>)) = Tag
    BY DEF Preceding
  <2>6. Linked(Trail)' /\ Inline(walk.elements)'
    BY <1>1, <1>2, <2>2, <2>3, <2>4 DEF Linked, Inline, Preceding, TypeOf, Neighbours
  <2>7. Preceding(Trail, Len(Trail))' = Tag
    BY <2>2, <2>5 DEF Preceding
  <2> QED  BY <1>1, <2>1, <2>2, <2>5, <2>6, <2>7 DEF WalkInv
<1>6. BranchesInv'
  BY <1>1, <1>2 DEF IsolationInv, BranchesInv
<1>7. AllBranches'
  BY <1>1, <1>2, <1>4 DEF IsolationInv, AllBranches
<1> QED  BY <1>1, <1>2, <1>5, <1>6, <1>7 DEF IsolationInv

\* A walk goes on along the one line that leads on.
LEMMA FollowKeeps ==
  ASSUME IsolationInv, Follow
  PROVE  IsolationInv'
<1>1. /\ drawing' = drawing /\ purpose' = purpose /\ judged' = judged /\ ahead' = ahead
      /\ walk # NoWalk /\ TypeOf(walk.current) \in INLINE /\ ~EndsBranch(Onward)
  BY DEF Follow
<1>2. /\ \A e : Neighbours(e)' = Neighbours(e)
      /\ \A s : Inline(s)' = Inline(s) /\ Linked(s)' = Linked(s)
      /\ \A b, s : ChainOf(b, s)' = ChainOf(b, s)
  BY <1>1, DrawingStands
<1>3. /\ walk \in [first : Others, previous : Drawn, current : Drawn, elements : Seq(Others)]
      /\ Inline(walk.elements) /\ Linked(Trail)
      /\ Trail[1] = walk.first /\ walk.previous = Preceding(Trail, Len(Trail))
  BY <1>1 DEF IsolationInv, WalkInv
<1>4. PICK next : Onward = {next}
  BY <1>1, OneWayOn
<1>5. walk' = [walk EXCEPT !.previous = walk.current, !.current = next,
                           !.elements = Append(@, walk.current)]
  BY <1>4 DEF Follow
<1>6. walk.current \in Others
  BY <1>1, <1>3, TagIsNotInline DEF Drawn
<1>7. /\ Trail \in Seq(Others) /\ Trail # <<>> /\ Len(Trail) = Len(walk.elements) + 1
      /\ Trail[Len(Trail)] = walk.current /\ Len(Trail) \in Nat /\ Len(Trail) > 0
      /\ \A i \in 1..Len(walk.elements) : Trail[i] = walk.elements[i]
  <2>1. walk.elements \in Seq(Others)
    BY <1>3
  <2>2. /\ Trail \in Seq(Others) /\ Len(Trail) = Len(walk.elements) + 1 /\ Len(walk.elements) \in Nat
        /\ Trail[Len(walk.elements) + 1] = walk.current
        /\ \A i \in 1..Len(walk.elements) : Trail[i] = walk.elements[i]
    BY <1>6, <2>1, AppendIs DEF Trail
  <2> QED  BY <2>2
<1>8. next \in Drawn
  BY <1>4 DEF Onward, Neighbours, Drawn
<1>9. /\ walk' \in [first : Others, previous : Drawn, current : Drawn, elements : Seq(Others)]
      /\ walk'.first = walk.first /\ walk'.previous = walk.current /\ walk'.current = next
      /\ walk'.elements = Trail
  BY <1>3, <1>5, <1>6, <1>7, <1>8 DEF Trail, Drawn
<1>10. Trail' = Append(Trail, next)
  BY <1>9 DEF Trail
<1>11. Linked(Append(Trail, next)) /\ Append(Trail, next) \in Seq(Drawn)
  <2>1. Neighbours(Trail[Len(Trail)]) \ {Preceding(Trail, Len(Trail))} = {next}
    BY <1>3, <1>4, <1>7 DEF Onward
  <2>2. Trail \in Seq(Drawn) /\ Trail[Len(Trail)] \in Others
    BY <1>6, <1>7 DEF Drawn
  <2> QED  BY <1>3, <1>7, <2>1, <2>2, Longer
<1>12. Inline(Trail)
  <2> SUFFICES ASSUME NEW i \in 1..Len(Trail) PROVE TypeOf(Trail[i]) \in INLINE
    BY <1>7 DEF Inline
  <2>1. i \in 1..Len(walk.elements) \/ i = Len(Trail)
    BY <1>7
  <2> QED  BY <2>1, <1>1, <1>3, <1>7 DEF Inline
<1>13. WalkInv'
  <2>1. Inline(walk.elements)'
    BY <1>1, <1>9, <1>12 DEF Inline, TypeOf
  <2>2. Linked(Trail)'
    BY <1>1, <1>10, <1>11 DEF Linked, Neighbours, Preceding
  <2>3. Trail'[1] = walk'.first
    BY <1>3, <1>7, <1>9, <1>10
  <2>4. Len(Trail') = Len(Trail) + 1 /\ Trail'[Len(Trail)] = walk.current
    BY <1>7, <1>8, <1>10 DEF Drawn
  <2>5. Preceding(Trail, Len(Trail))' = walk.current
    BY <1>7, <2>4 DEF Preceding
  <2> QED  BY <1>9, <2>1, <2>2, <2>3, <2>5 DEF WalkInv
<1>14. BranchesInv'
  BY <1>1, <1>2 DEF IsolationInv, BranchesInv
<1>15. walk' # NoWalk
  BY <1>9, TagNotOthers DEF NoWalk
<1>16. AllBranches'
  BY <1>1, <1>2, <1>9, <1>15 DEF IsolationInv, AllBranches
<1> QED  BY <1>1, <1>2, <1>13, <1>14, <1>16 DEF IsolationInv

\* A walk that ends is judged by the chain it has passed.
LEMMA EndBranchKeeps ==
  ASSUME IsolationInv, EndBranch
  PROVE  IsolationInv'
<1> DEFINE passed == IF TypeOf(walk.current) \in INLINE THEN Append(walk.elements, walk.current)
                                                        ELSE walk.elements
           b == JudgeBranch(walk.first, passed)
<1>1. /\ drawing' = drawing /\ purpose' = purpose /\ ahead' = ahead /\ walk' = NoWalk
      /\ walk # NoWalk /\ judged' = judged \cup {b}
  BY DEF EndBranch
<1>2. /\ \A e : Neighbours(e)' = Neighbours(e)
      /\ \A c, s : ChainOf(c, s)' = ChainOf(c, s)
  BY <1>1, DrawingStands
<1>3. /\ walk \in [first : Others, previous : Drawn, current : Drawn, elements : Seq(Others)]
      /\ Inline(walk.elements) /\ Linked(Trail) /\ Trail[1] = walk.first
  BY <1>1 DEF IsolationInv, WalkInv
<1>4. b.first = walk.first
  BY JudgedFirst
<1>5. Linked(passed) /\ Inline(passed) /\ (passed # <<>> => passed[1] = walk.first)
  <2>1. CASE TypeOf(walk.current) \in INLINE
    <3>1. walk.current \in Others
      BY <1>3, <2>1, TagIsNotInline DEF Drawn
    <3>2. /\ Trail \in Seq(Others) /\ Len(Trail) = Len(walk.elements) + 1 /\ Len(walk.elements) \in Nat
          /\ Trail[Len(walk.elements) + 1] = walk.current
          /\ \A i \in 1..Len(walk.elements) : Trail[i] = walk.elements[i]
      BY <1>3, <3>1, AppendIs DEF Trail
    <3>3. \A i \in 1..Len(Trail) : i \in 1..Len(walk.elements) \/ i = Len(walk.elements) + 1
      BY <3>2
    <3>4. Inline(Trail)
      BY <1>3, <2>1, <3>2, <3>3 DEF Inline
    <3>5. passed = Trail
      BY <2>1 DEF Trail
    <3> QED  BY <1>3, <3>4, <3>5
  <2>2. CASE TypeOf(walk.current) \notin INLINE
    <3>1. passed = walk.elements
      BY <2>2
    <3>2. Linked(walk.elements)
      BY <1>3, Shorter DEF Trail
    <3>3. walk.elements # <<>> => walk.elements[1] = Trail[1]
      BY <1>3 DEF Trail, Drawn
    <3> QED  BY <1>3, <3>1, <3>2, <3>3
  <2> QED  BY <2>1, <2>2
<1> HIDE DEF passed
<1>6. ChainOf(b, passed)
  BY <1>3, <1>4, <1>5 DEF ChainOf
<1> HIDE DEF b
<1>7. BranchesInv'
  BY <1>1, <1>2, <1>6 DEF IsolationInv, BranchesInv
<1>8. AllBranches'
  BY <1>1, <1>2, <1>4 DEF IsolationInv, AllBranches
<1> QED  BY <1>1, <1>2, <1>7, <1>8 DEF IsolationInv, WalkInv

LEMMA IsolationKept == IsolationInv /\ [DrawingNext]_drawingVars => IsolationInv'
<1> SUFFICES ASSUME IsolationInv, [DrawingNext]_drawingVars PROVE IsolationInv'
  OBVIOUS
<1>1. ASSUME NEW first \in ahead, Begin(first) PROVE IsolationInv'
  BY <1>1, BeginKeeps
<1>2. CASE Follow
  BY <1>2, FollowKeeps
<1>3. CASE EndBranch
  BY <1>3, EndBranchKeeps
<1>4. CASE UNCHANGED drawingVars
  <2>1. drawing' = drawing /\ purpose' = purpose /\ ahead' = ahead /\ walk' = walk /\ judged' = judged
    BY <1>4 DEF drawingVars
  <2>2. /\ \A e : Neighbours(e)' = Neighbours(e)
        /\ \A s : Inline(s)' = Inline(s) /\ Linked(s)' = Linked(s)
        /\ \A b, s : ChainOf(b, s)' = ChainOf(b, s)
    BY <2>1, DrawingStands
  <2>3. Inline(walk.elements)' = Inline(walk.elements)
    BY <2>1 DEF Inline, TypeOf
  <2>4. Trail' = Trail /\ Linked(Trail)' = Linked(Trail) /\ Preceding(Trail, Len(Trail))' = Preceding(Trail, Len(Trail))
    BY <2>1 DEF Trail, Linked, Neighbours, Preceding
  <2>5. WalkInv'
    BY <2>1, <2>3, <2>4 DEF IsolationInv, WalkInv
  <2>6. BranchesInv' /\ AllBranches'
    BY <2>1, <2>2 DEF IsolationInv, BranchesInv, AllBranches
  <2> QED  BY <2>1, <2>2, <2>5, <2>6 DEF IsolationInv
<1> QED  BY <1>1, <1>2, <1>3, <1>4 DEF DrawingNext

LEMMA NearestIs ==
  ASSUME NEW S, S \subseteq Nat, S # {}
  PROVE  \E n \in S : NearestOf(S) = {n}
<1>1. PICK n \in S : \A m \in S : n <= m
  BY LeastTime
<1>2. \A m \in S : m <= n => m = n
  BY <1>1
<1>3. NearestOf(S) = {n}
  BY <1>1, <1>2 DEF NearestOf
<1> QED  BY <1>3

LEMMA FarthestIs ==
  ASSUME NEW k \in Nat, NEW S, S \subseteq 1..k, S # {}
  PROVE  \E n \in S : FarthestOf(S) = {n}
<1> DEFINE T == {k - m : m \in S}
<1>1. \A m \in S : m \in Nat /\ k - m \in Nat
  <2> SUFFICES ASSUME NEW m \in S PROVE m \in Nat /\ k - m \in Nat
    OBVIOUS
  <2>1. m \in 1..k
    OBVIOUS
  <2> QED  BY <2>1
<1>2. T \subseteq Nat /\ T # {}
  BY <1>1
<1>3. PICK t \in T : \A u \in T : t <= u
  BY <1>2, LeastTime
<1>4. PICK n \in S : t = k - n
  BY <1>3
<1>5. \A m \in S : k - m \in T
  OBVIOUS
<1>6. ASSUME NEW m \in S PROVE m <= n
  <2>1. k - n <= k - m
    BY <1>3, <1>4, <1>5
  <2>2. m \in Nat /\ n \in Nat
    BY <1>1
  <2> QED  BY <2>1, <2>2
<1>7. \A m \in S : n <= m => m = n
  BY <1>1, <1>6
<1>8. FarthestOf(S) = {n}
  BY <1>6, <1>7 DEF FarthestOf
<1> QED  BY <1>8

LEMMA OfTypeIn ==
  ASSUME NEW s \in Seq(Others), NEW types
  PROVE  /\ OfType(s, types) \subseteq 1..Len(s) /\ OfType(s, types) \subseteq Nat
         /\ \A i \in OfType(s, types) : s[i] \in Others /\ TypeOf(s[i]) \in types
BY DEF OfType

\* The nearest of the elements of a type.
LEMMA NearestPassed ==
  ASSUME NEW s \in Seq(Others), NEW types, OfType(s, types) # {}
  PROVE  \E i \in 1..Len(s) : TypeOf(s[i]) \in types /\ Passed(s, NearestOf(OfType(s, types))) = {s[i]}
<1>1. PICK i \in OfType(s, types) : NearestOf(OfType(s, types)) = {i}
  BY OfTypeIn, NearestIs
<1>2. Passed(s, NearestOf(OfType(s, types))) = {s[i]}
  BY <1>1 DEF Passed
<1> QED  BY <1>1, <1>2, OfTypeIn

LEMMA PassedAreOf ==
  ASSUME NEW s \in Seq(Others), NEW types, NEW I, I \subseteq OfType(s, types), NEW e \in Passed(s, I)
  PROVE  TypeOf(e) \in types
BY OfTypeIn DEF Passed

\* A bleed that counts has a valve to close on either side.
LEMMA Between ==
  ASSUME NEW s \in Seq(Others), NEW i \in NearestOf(Bled(s))
  PROVE  /\ i \in 1..Len(s)
         /\ \E p, q \in 1..Len(s) : p < i /\ i < q /\ {s[p], s[q]} \subseteq DoubleBlock(s).valves
<1>1. /\ i \in OfType(s, {"bleed"}) /\ BlocksBefore(s, i) # {} /\ BlocksAfter(s, i) # {}
  BY DEF NearestOf, Bled
<1>2. i \in 1..Len(s) /\ Len(s) \in Nat
  BY <1>1, OfTypeIn
<1>3. /\ BlocksBefore(s, i) \subseteq 1..Len(s) /\ BlocksAfter(s, i) \subseteq 1..Len(s)
      /\ BlocksAfter(s, i) \subseteq Nat
  BY OfTypeIn DEF BlocksBefore, BlocksAfter
<1>4. PICK p \in BlocksBefore(s, i) : FarthestOf(BlocksBefore(s, i)) = {p}
  BY <1>1, <1>2, <1>3, FarthestIs
<1>5. PICK q \in BlocksAfter(s, i) : NearestOf(BlocksAfter(s, i)) = {q}
  BY <1>1, <1>3, NearestIs
<1>6. p \in 1..Len(s) /\ q \in 1..Len(s) /\ p < i /\ i < q
  BY <1>3, <1>4, <1>5 DEF BlocksBefore, BlocksAfter
<1>7. Passed(s, FarthestOf(BlocksBefore(s, i)) \cup NearestOf(BlocksAfter(s, i))) \subseteq DoubleBlock(s).valves
  BY DEF DoubleBlock
<1>8. {s[p], s[q]} \subseteq Passed(s, FarthestOf(BlocksBefore(s, i)) \cup NearestOf(BlocksAfter(s, i)))
  BY <1>4, <1>5 DEF Passed
<1> QED  BY <1>2, <1>6, <1>7, <1>8

LEMMA DoubleBlockIsValves ==
  ASSUME NEW s \in Seq(Others), NEW v \in DoubleBlock(s).valves
  PROVE  TypeOf(v) \in BLOCK
<1>1. PICK i \in NearestOf(Bled(s)) :
        v \in Passed(s, FarthestOf(BlocksBefore(s, i)) \cup NearestOf(BlocksAfter(s, i)))
  BY DEF DoubleBlock
<1>2. FarthestOf(BlocksBefore(s, i)) \cup NearestOf(BlocksAfter(s, i)) \subseteq OfType(s, BLOCK)
  BY DEF FarthestOf, NearestOf, BlocksBefore, BlocksAfter
<1> QED  BY <1>1, <1>2, PassedAreOf

\* What a branch is judged to be closed by are valves.
LEMMA CloseIsValves ==
  ASSUME NEW b, NEW s, ChainOf(b, s), NEW v \in b.close
  PROVE  TypeOf(v) \in BLOCK
<1>1. s \in Seq(Others) /\ b = JudgeBranch(b.first, s)
  BY DEF ChainOf, Inline
<1>2. v \in DoubleBlock(s).valves \/ v \in Passed(s, NearestOf(OfType(s, BLOCK)))
  BY <1>1 DEF JudgeBranch
<1>3. NearestOf(OfType(s, BLOCK)) \subseteq OfType(s, BLOCK)
  BY DEF NearestOf
<1> QED  BY <1>1, <1>2, <1>3, DoubleBlockIsValves, PassedAreOf

LEMMA Blinded ==
  ASSUME NEW b, NEW s, ChainOf(b, s), b.compliant, ~b.byValves
  PROVE  \E i \in 1..Len(s) : s[i] \in b.blind /\ TypeOf(s[i]) = "spectacle_blind"
<1>1. s \in Seq(Others) /\ b = JudgeBranch(b.first, s)
  BY DEF ChainOf, Inline
<1>2. OfType(s, {"spectacle_blind"}) # {}
  BY <1>1 DEF JudgeBranch
<1>3. PICK i \in 1..Len(s) : /\ TypeOf(s[i]) \in {"spectacle_blind"}
                             /\ Passed(s, NearestOf(OfType(s, {"spectacle_blind"}))) = {s[i]}
  BY <1>1, <1>2, NearestPassed
<1>4. b.blind = {s[i]}
  BY <1>1, <1>3 DEF JudgeBranch
<1> QED  BY <1>3, <1>4

LEMMA ByValves ==
  ASSUME NEW f, NEW s, JudgeBranch(f, s).byValves
  PROVE  /\ purpose # "entry"
         /\ Bled(s) # {} \/ (OfType(s, BLOCK) # {} /\ ~JudgeBranch(f, s).hazardous)
         /\ Bled(s) = {} => JudgeBranch(f, s).close = Passed(s, NearestOf(OfType(s, BLOCK)))
<1>1. /\ purpose # "entry"
      /\ Bled(s) # {} \/ (OfType(s, BLOCK) # {} /\ {Tag, f} \in drawing.utility)
  BY DEF JudgeBranch
<1>2. {Tag, f} \in drawing.utility => ~JudgeBranch(f, s).hazardous
  BY DEF JudgeBranch
<1>3. Bled(s) = {} => JudgeBranch(f, s).close = Passed(s, NearestOf(OfType(s, BLOCK)))
  BY <1>1 DEF JudgeBranch
<1> QED  BY <1>1, <1>2, <1>3

LEMMA Valved ==
  ASSUME NEW b, NEW s, ChainOf(b, s), b.byValves
  PROVE  /\ purpose # "entry"
         /\ \/ \E p, q \in 1..Len(s) : p < q /\ {s[p], s[q]} \subseteq b.close
            \/ ~b.hazardous /\ \E i \in 1..Len(s) : s[i] \in b.close
<1>1. s \in Seq(Others) /\ b = JudgeBranch(b.first, s)
  BY DEF ChainOf, Inline
<1>2. /\ purpose # "entry" /\ (Bled(s) # {} \/ (OfType(s, BLOCK) # {} /\ ~b.hazardous))
      /\ Bled(s) = {} => b.close = Passed(s, NearestOf(OfType(s, BLOCK)))
  BY <1>1, ByValves
<1>3. CASE Bled(s) # {}
  <2>1. Bled(s) \subseteq Nat
    BY <1>1, OfTypeIn DEF Bled
  <2>2. PICK i \in Bled(s) : NearestOf(Bled(s)) = {i}
    BY <1>3, <2>1, NearestIs
  <2>3. PICK p, q \in 1..Len(s) : p < i /\ i < q /\ {s[p], s[q]} \subseteq DoubleBlock(s).valves
    BY <1>1, <2>2, Between
  <2>4. b.close = DoubleBlock(s).valves
    BY <1>1, <1>3 DEF JudgeBranch
  <2>5. p < q
    BY <2>1, <2>2, <2>3
  <2> QED  BY <1>2, <2>3, <2>4, <2>5
<1>4. CASE Bled(s) = {}
  <2>0. OfType(s, BLOCK) # {} /\ ~b.hazardous
    BY <1>2, <1>4
  <2>1. b.close = Passed(s, NearestOf(OfType(s, BLOCK)))
    BY <1>2, <1>4
  <2>2. PICK i \in 1..Len(s) : Passed(s, NearestOf(OfType(s, BLOCK))) = {s[i]}
    BY <1>1, <2>0, NearestPassed
  <2> QED  BY <1>2, <2>0, <2>1, <2>2
<1> QED  BY <1>3, <1>4

LEMMA BledBetween ==
  ASSUME NEW b, NEW s, ChainOf(b, s), NEW x \in b.bleeds
  PROVE  \E p, i, q \in 1..Len(s) : p < i /\ i < q /\ s[i] = x /\ {s[p], s[q]} \subseteq b.close
<1>1. s \in Seq(Others) /\ b = JudgeBranch(b.first, s)
  BY DEF ChainOf, Inline
<1>2. b.bleeds = Passed(s, NearestOf(Bled(s)))
  BY <1>1 DEF JudgeBranch, DoubleBlock
<1>3. PICK i \in NearestOf(Bled(s)) : s[i] = x
  BY <1>2 DEF Passed
<1>4. /\ i \in 1..Len(s)
      /\ \E p, q \in 1..Len(s) : p < i /\ i < q /\ {s[p], s[q]} \subseteq DoubleBlock(s).valves
  BY <1>1, Between
<1>5. Bled(s) # {}
  BY <1>3 DEF NearestOf
<1>6. b.close = DoubleBlock(s).valves
  BY <1>1, <1>5 DEF JudgeBranch
<1> QED  BY <1>3, <1>4, <1>6

\* If every chain is cut, no leak from the tag reaches equipment.
LEMMA CutChains ==
  ASSUME IsolationInv, ahead = {}, walk = NoWalk, NEW cut,
         \A b \in judged : \A s : ChainOf(b, s) => \E i \in 1..Len(s) : s[i] \in cut
  PROVE  Isolated(cut)
<1> DEFINE Reach(e) == \E b \in judged : \E s : \E i \in 1..Len(s) :
                         ChainOf(b, s) /\ s[i] = e /\ \A j \in 1..i : s[j] \notin cut
           side == {Tag} \cup {e \in Others : Reach(e)}
<1>1. ASSUME NEW b \in judged, NEW s, ChainOf(b, s), NEW i \in 1..Len(s), \A j \in 1..i : s[j] \notin cut
      PROVE  s[i] \in side
  BY <1>1 DEF ChainOf, Inline
<1>2. ASSUME NEW f \in Drawn, f \notin cut, {Tag, f} \in drawing.lines PROVE f \in side
  <2>1. CASE f = Tag
    BY <2>1
  <2>2. CASE f # Tag
    <3>1. f \in Neighbours(Tag)
      BY <1>2, <2>2 DEF Neighbours, Drawn
    <3>2. PICK b \in judged : b.first = f
      BY <3>1 DEF IsolationInv, AllBranches
    <3>3. PICK s : ChainOf(b, s)
      BY DEF IsolationInv, BranchesInv
    <3>4. s \in Seq(Others) /\ s # <<>> /\ s[1] = f /\ 1 \in 1..Len(s)
      <4>1. s \in Seq(Others) /\ \E i \in 1..Len(s) : s[i] \in cut
        BY <3>3 DEF ChainOf, Inline
      <4>2. s # <<>> /\ 1 \in 1..Len(s)
        BY <4>1
      <4> QED  BY <3>2, <3>3, <4>1, <4>2 DEF ChainOf
    <3>5. \A j \in 1..1 : s[j] \notin cut
      BY <1>2, <3>4
    <3> QED  BY <1>1, <3>3, <3>4, <3>5
  <2> QED  BY <2>1, <2>2
<1>3. ASSUME NEW e \in Others, Reach(e), NEW f \in Drawn, f \notin cut, {e, f} \in drawing.lines
      PROVE  f \in side
  <2>1. PICK b \in judged : \E s : \E i \in 1..Len(s) :
                              ChainOf(b, s) /\ s[i] = e /\ \A j \in 1..i : s[j] \notin cut
    BY <1>3
  <2>2. PICK s : \E i \in 1..Len(s) : ChainOf(b, s) /\ s[i] = e /\ \A j \in 1..i : s[j] \notin cut
    BY <2>1
  <2>3. PICK i \in 1..Len(s) : ChainOf(b, s) /\ s[i] = e /\ \A j \in 1..i : s[j] \notin cut
    BY <2>2
  <2>4. s \in Seq(Others) /\ Len(s) \in Nat /\ Linked(s)
    BY <2>3 DEF ChainOf, Inline
  <2>5. i < Len(s)
    <3>1. PICK j \in 1..Len(s) : s[j] \in cut
      BY <2>3
    <3>2. j \notin 1..i
      BY <2>3, <3>1
    <3> QED  BY <2>4, <3>1, <3>2
  <2>6. CASE f = e
    BY <2>6, <1>3
  <2>7. CASE f # e
    <3>1. f \in Neighbours(s[i])
      BY <1>3, <2>3, <2>7 DEF Neighbours, Drawn
    <3>2. f = Preceding(s, i) \/ f = s[i + 1]
      BY <2>4, <2>5, <3>1 DEF Linked
    <3>3. CASE f = Preceding(s, i)
      <4>1. CASE i = 1
        BY <4>1, <3>3 DEF Preceding
      <4>2. CASE i # 1
        <5>1. i - 1 \in 1..Len(s) /\ f = s[i - 1] /\ \A j \in 1..(i - 1) : j \in 1..i
          BY <2>4, <3>3, <4>2 DEF Preceding
        <5> QED  BY <1>1, <2>3, <5>1
      <4> QED  BY <4>1, <4>2
    <3>4. CASE f = s[i + 1]
      <4>1. i + 1 \in 1..Len(s) /\ \A j \in 1..(i + 1) : j \in 1..i \/ j = i + 1
        BY <2>4, <2>5
      <4>2. \A j \in 1..(i + 1) : s[j] \notin cut
        BY <1>3, <2>3, <3>4, <4>1
      <4> QED  BY <1>1, <2>3, <3>4, <4>1, <4>2
    <3> QED  BY <3>2, <3>3, <3>4
  <2> QED  BY <2>6, <2>7
<1>4. Parted(side, cut)
  <2> SUFFICES ASSUME NEW e \in side, NEW f \in Drawn \ cut, {e, f} \in drawing.lines PROVE f \in side
    BY DEF Parted, Drawn
  <2>1. e = Tag \/ (e \in Others /\ Reach(e))
    OBVIOUS
  <2> HIDE DEF Reach, side
  <2> QED  BY <2>1, <1>2, <1>3
<1>5. side \in SUBSET (Others \cup {Tag}) /\ Tag \in side
  OBVIOUS
<1>6. ASSUME NEW e \in Others, Reach(e) PROVE TypeOf(e) # "equipment"
  <2>1. PICK b \in judged : \E s : \E i \in 1..Len(s) : ChainOf(b, s) /\ s[i] = e
    BY <1>6
  <2>2. TypeOf(e) \in INLINE
    BY <2>1 DEF ChainOf, Inline
  <2> QED  BY <2>2 DEF INLINE, BLOCK
<1>7. side \cap Equipment = {}
  <2> SUFFICES ASSUME NEW e \in side, e \in Equipment PROVE FALSE
    OBVIOUS
  <2>1. e \in Others /\ TypeOf(e) = "equipment" /\ e # Tag
    BY TagNotOthers DEF Equipment
  <2>2. Reach(e)
    BY <2>1
  <2> QED  BY <1>6, <2>1, <2>2
<1>8. Joined(Tag, cut) \subseteq side
  <2> HIDE DEF side
  <2> QED  BY <1>4, <1>5 DEF Joined
<1> HIDE DEF side
<1> QED  BY <1>7, <1>8 DEF Isolated

\* Between two cut elements of a chain there is neither the tag nor equipment.
LEMMA BleedApart ==
  ASSUME NEW b, NEW s, ChainOf(b, s), NEW p \in 1..Len(s), NEW i \in 1..Len(s), NEW q \in 1..Len(s),
         p < i, i < q, NEW cut, {s[p], s[q]} \subseteq cut
  PROVE  Joined(s[i], cut) \cap (Equipment \cup {Tag}) = {}
<1> DEFINE side == {s[k] : k \in {j \in 1..Len(s) : p < j /\ j < q}}
<1>1. /\ s \in Seq(Others) /\ Len(s) \in Nat /\ Linked(s)
      /\ \A k \in 1..Len(s) : s[k] \in Others /\ TypeOf(s[k]) \in INLINE
  BY DEF ChainOf, Inline
<1>2. ASSUME NEW k \in 1..Len(s), p < k, k < q PROVE s[k] \in side
  BY <1>2
<1>3. side \subseteq Others /\ \A e \in side : TypeOf(e) \in INLINE
  BY <1>1
<1>4. ASSUME NEW e \in side, NEW f \in Drawn \ cut, {e, f} \in drawing.lines PROVE f \in side
  <2>1. PICK k \in 1..Len(s) : p < k /\ k < q /\ e = s[k]
    OBVIOUS
  <2>2. k < Len(s) /\ k # 1 /\ k - 1 \in 1..Len(s) /\ k + 1 \in 1..Len(s)
    BY <1>1, <2>1
  <2>3. CASE f = e
    BY <2>3
  <2>4. CASE f # e
    <3>1. f \in Neighbours(s[k])
      BY <1>4, <2>1, <2>4 DEF Neighbours, Drawn
    <3>2. f = s[k - 1] \/ f = s[k + 1]
      BY <1>1, <2>2, <3>1 DEF Linked, Preceding
    <3>3. CASE f = s[k - 1]
      <4>1. k - 1 # p
        BY <1>4, <3>3
      <4>2. p < k - 1 /\ k - 1 < q
        BY <2>1, <2>2, <4>1
      <4> QED  BY <1>2, <2>2, <3>3, <4>2
    <3>4. CASE f = s[k + 1]
      <4>1. k + 1 # q
        BY <1>4, <3>4
      <4>2. p < k + 1 /\ k + 1 < q
        BY <2>1, <2>2, <4>1
      <4> QED  BY <1>2, <2>2, <3>4, <4>2
    <3> QED  BY <3>2, <3>3, <3>4
  <2> QED  BY <2>3, <2>4
<1>5. s[i] \in side
  BY <1>2
<1> HIDE DEF side
<1>6. Parted(side, cut)
  BY <1>4 DEF Parted, Drawn
<1>7. Joined(s[i], cut) \subseteq side
  BY <1>3, <1>5, <1>6 DEF Joined
<1>8. side \cap (Equipment \cup {Tag}) = {}
  BY <1>3, TagNotOthers DEF Equipment, INLINE, BLOCK
<1> QED  BY <1>7, <1>8

LEMMA IsolationFollows == IsolationInv => IsolationHolds
<1> DEFINE valves   == UNION {b.close : b \in judged}
           blinds   == UNION {b.blind : b \in {c \in judged : ~c.byValves}}
           reliedOn == UNION {b.close : b \in {c \in judged : ~c.hazardous}}
<1> SUFFICES ASSUME IsolationInv, ahead = {}, walk = NoWalk, \A b \in judged : b.compliant
             PROVE  /\ Isolated(valves \cup blinds)
                    /\ purpose = "entry" => Isolated(blinds)
                    /\ \A v \in valves \ reliedOn : Isolated((valves \cup blinds) \ {v})
                    /\ \A b \in judged : \A bleed \in b.bleeds :
                          Joined(bleed, valves \cup blinds) \cap (Equipment \cup {Tag}) = {}
  BY DEF IsolationHolds
<1>1. ASSUME NEW b \in judged
      PROVE  /\ \A v \in b.close : v \in valves
             /\ ~b.byValves => \A v \in b.blind : v \in blinds
             /\ ~b.hazardous => \A v \in b.close : v \in reliedOn
  OBVIOUS
<1>2. ASSUME NEW v \in valves PROVE TypeOf(v) # "spectacle_blind"
  <2>1. PICK b \in judged : v \in b.close
    BY <1>2
  <2>2. PICK s : ChainOf(b, s)
    BY DEF IsolationInv, BranchesInv
  <2>3. TypeOf(v) \in BLOCK
    BY <2>1, <2>2, CloseIsValves
  <2> QED  BY <2>3 DEF BLOCK
<1> HIDE DEF valves, blinds, reliedOn
<1>3. ASSUME NEW b \in judged, NEW s, ChainOf(b, s), ~b.byValves
      PROVE  \E i \in 1..Len(s) : s[i] \in blinds /\ TypeOf(s[i]) = "spectacle_blind"
  BY <1>1, <1>3, Blinded
<1>4. Isolated(valves \cup blinds)
  <2> SUFFICES ASSUME NEW b \in judged, NEW s, ChainOf(b, s)
               PROVE  \E i \in 1..Len(s) : s[i] \in valves \cup blinds
    BY CutChains
  <2>1. CASE b.byValves
    BY <1>1, <2>1, Valved
  <2>2. CASE ~b.byValves
    BY <1>3, <2>2
  <2> QED  BY <2>1, <2>2
<1>5. ASSUME purpose = "entry" PROVE Isolated(blinds)
  <2> SUFFICES ASSUME NEW b \in judged, NEW s, ChainOf(b, s)
               PROVE  \E i \in 1..Len(s) : s[i] \in blinds
    BY CutChains
  <2>1. ~b.byValves
    BY <1>5, Valved
  <2> QED  BY <1>3, <2>1
<1>6. ASSUME NEW v \in valves \ reliedOn PROVE Isolated((valves \cup blinds) \ {v})
  <2> SUFFICES ASSUME NEW b \in judged, NEW s, ChainOf(b, s)
               PROVE  \E i \in 1..Len(s) : s[i] \in (valves \cup blinds) \ {v}
    BY CutChains
  <2>1. CASE ~b.byValves
    BY <1>2, <1>3, <2>1
  <2>2. CASE b.byValves
    <3>1. CASE ~b.hazardous /\ \E i \in 1..Len(s) : s[i] \in b.close
      BY <1>1, <1>6, <3>1
    <3>2. CASE \E p, q \in 1..Len(s) : p < q /\ {s[p], s[q]} \subseteq b.close
      <4>1. PICK p, q \in 1..Len(s) : p < q /\ {s[p], s[q]} \subseteq b.close
        BY <3>2
      <4>2. s[p] # s[q]
        <5>1. Len(s) \in Nat /\ Linked(s)
          BY DEF ChainOf, Inline
        <5> QED  BY <4>1, <5>1 DEF Linked
      <4> QED  BY <1>1, <4>1, <4>2
    <3> QED  BY <2>2, <3>1, <3>2, Valved
  <2> QED  BY <2>1, <2>2
<1>7. ASSUME NEW b \in judged, NEW bleed \in b.bleeds
      PROVE  Joined(bleed, valves \cup blinds) \cap (Equipment \cup {Tag}) = {}
  <2>1. PICK s : ChainOf(b, s)
    BY DEF IsolationInv, BranchesInv
  <2>2. PICK p, i, q \in 1..Len(s) : p < i /\ i < q /\ s[i] = bleed /\ {s[p], s[q]} \subseteq b.close
    BY <2>1, BledBetween
  <2>3. {s[p], s[q]} \subseteq valves \cup blinds
    BY <1>1, <2>2
  <2> QED  BY <2>1, <2>2, <2>3, BleedApart
<1> QED  BY <1>4, <1>5, <1>6, <1>7

\* An isolation reported compliant isolates, on every drawing: pid.py,
\* Drawing.isolation and the walks and judgements it is made of.
THEOREM IsolationsHold == DrawingSpec => []IsolationHolds
<1> QED  BY IsolationStart, IsolationKept, IsolationFollows, PTL DEF DrawingSpec
=============================================================================
