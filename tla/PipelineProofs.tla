--------------------------- MODULE PipelineProofs ----------------------------
(***************************************************************************)
(* What a run releases, holds and says, for any sources, answers, policy   *)
(* and formulas' constants: proofs of the properties of Pipeline.          *)
(***************************************************************************)
EXTENDS Pipeline, SequenceTheorems, FiniteSetTheorems, WellFoundedInduction, TLAPS

-----------------------------------------------------------------------------
(* Helpers. *)

(* The highest of some levels is one of them. *)
LEMMA HighestLevel ==
    ASSUME NEW some \in SUBSET Levels
    PROVE  /\ Highest(some) \in Levels
           /\ some # {} => Highest(some) \in some
           /\ \A n \in some : n <= Highest(some)
  <1>1. CASE some = {}
    BY <1>1 DEF Highest, Levels
  <1>2. CASE some # {}
    <2>1. \A n \in some : n = 0 \/ n = 1 \/ n = 2 \/ n = 3
      BY DEF Levels
    <2>2. \E m \in some : \A n \in some : n <= m
      <3>1. CASE 3 \in some
        BY <2>1, <3>1
      <3>2. CASE 3 \notin some /\ 2 \in some
        BY <2>1, <3>2
      <3>3. CASE 3 \notin some /\ 2 \notin some /\ 1 \in some
        BY <2>1, <3>3
      <3>4. CASE 3 \notin some /\ 2 \notin some /\ 1 \notin some
        BY <1>2, <2>1, <3>4
      <3>5. QED
        BY <3>1, <3>2, <3>3, <3>4
    <2>3. Highest(some) \in some /\ \A n \in some : n <= Highest(some)
      BY <1>2, <2>2 DEF Highest
    <2>4. QED
      BY <2>3
  <1>3. QED
    BY <1>1, <1>2

Kinds == {"vision_extraction", "uploaded_file", "knowledge_base", "computation",
          "request", "work_order", "topology", "human"}

Items == [kind : Kinds, source : DOMAIN Source \cup {Nothing}, level : Levels,
          flagged : BOOLEAN, scanned : BOOLEAN]

LEMMA ItemType ==
    ASSUME NEW kind \in Kinds, NEW source \in DOMAIN Source \cup {Nothing}, NEW level \in Levels
    PROVE  Item(kind, source, level) \in Items
  BY DEF Item, Items

LEMMA PaperType == \A s \in Papers : s \in DOMAIN Source
  BY DEF Papers

LEMMA LevelTypes == \A s \in DOMAIN Source : OwnLevel[s] \in Levels
  BY SourceAssumption DEF OwnLevel

LEMMA RequestedTypes == profile \in Requests => \A s \in DOMAIN Source : Requested[s] \in Levels
  BY DEF Requested, Requests

(* One item per source, in their order. *)
LEMMA ItemsOfType ==
    ASSUME NEW kind \in Kinds, NEW sources \in Seq(Papers), NEW levels,
           \A s \in DOMAIN Source : levels[s] \in Levels
    PROVE  /\ ItemsOf(kind, sources, levels) \in Seq(Items)
           /\ Len(ItemsOf(kind, sources, levels)) = Len(sources)
           /\ \A i \in 1..Len(sources) :
                 /\ sources[i] \in Papers
                 /\ ItemsOf(kind, sources, levels)[i] = Item(kind, sources[i], levels[sources[i]])
  <1> DEFINE items == ItemsOf(kind, sources, levels)
  <1>1. Len(sources) \in Nat
    OBVIOUS
  <1>2. items = [i \in 1..Len(sources) |-> Item(kind, sources[i], levels[sources[i]])]
    BY DEF ItemsOf
  <1>3. \A i \in 1..Len(sources) : sources[i] \in Papers /\ Item(kind, sources[i], levels[sources[i]]) \in Items
    <2> SUFFICES ASSUME NEW i \in 1..Len(sources)
                 PROVE  sources[i] \in Papers /\ Item(kind, sources[i], levels[sources[i]]) \in Items
      OBVIOUS
    <2>1. sources[i] \in Papers
      OBVIOUS
    <2>2. sources[i] \in DOMAIN Source /\ levels[sources[i]] \in Levels
      BY <2>1, PaperType
    <2>3. QED
      BY <2>1, <2>2, ItemType
  <1> HIDE DEF items
  <1>4. items \in [1..Len(sources) -> Items]
    BY <1>2, <1>3
  <1>5. items \in Seq(Items)
    BY <1>1, <1>4, SeqDef
  <1>6. Len(items) = Len(sources)
    <2>1. 1..Len(items) = 1..Len(sources) /\ Len(items) \in Nat
      BY <1>4, <1>5, LenProperties
    <2>2. QED
      BY <1>1, <2>1
  <1>7. QED
    BY <1>2, <1>3, <1>5, <1>6 DEF items

(* Scanning and screening keep what an item is and where it is from. *)
LEMMA CarriedType == \A item \in Items : Carried(item) \subseteq Detectors
  BY SourceAssumption DEF Carried, Items

LEMMA ScannedType ==
    ASSUME NEW item \in Items
    PROVE  /\ Scanned(item) \in Items
           /\ Scanned(item).kind = item.kind /\ Scanned(item).source = item.source
           /\ Scanned(item).flagged = item.flagged
           /\ item.level <= Scanned(item).level
           /\ ~ item.scanned => \A d \in Carried(item) : RaisesTo[d] <= Scanned(item).level
  <1> DEFINE found == Beyond(Carried(item), item.level)
             levels == {item.level} \cup {RaisesTo[d] : d \in found}
  <1>1. found \subseteq Carried(item) /\ Carried(item) \subseteq Detectors
    BY CarriedType DEF Beyond
  <1>2. item.level \in Levels /\ \A d \in Detectors : RaisesTo[d] \in Levels
    BY PipelineAssumption DEF Items
  <1>3. levels \in SUBSET Levels
    BY <1>1, <1>2
  <1>4. /\ Highest(levels) \in Levels
        /\ \A n \in levels : n <= Highest(levels)
    BY <1>3, HighestLevel
  <1>5. \A d \in Carried(item) : d \in found \/ RaisesTo[d] <= item.level
    BY <1>1, <1>2 DEF Beyond, Levels
  <1>6. Scanned(item) = IF item.scanned \/ found = {} THEN item
                        ELSE [item EXCEPT !.scanned = TRUE, !.level = Highest(levels)]
    BY DEF Scanned
  <1> HIDE DEF levels, found
  <1>7. CASE item.scanned \/ found = {}
    BY <1>2, <1>5, <1>6, <1>7 DEF Levels
  <1>8. CASE ~ (item.scanned \/ found = {})
    <2>1. Scanned(item) = [item EXCEPT !.scanned = TRUE, !.level = Highest(levels)]
      BY <1>6, <1>8
    <2>2. /\ Scanned(item) \in Items
          /\ Scanned(item).kind = item.kind /\ Scanned(item).source = item.source
          /\ Scanned(item).flagged = item.flagged
          /\ Scanned(item).level = Highest(levels)
      BY <1>4, <2>1 DEF Items
    <2>3. item.level \in levels /\ \A d \in found : RaisesTo[d] \in levels
      BY DEF levels
    <2>4. \A d \in Carried(item) : RaisesTo[d] <= Highest(levels)
      BY <1>1, <1>2, <1>4, <1>5, <2>3 DEF Levels
    <2>5. QED
      BY <1>4, <2>2, <2>3, <2>4
  <1>9. QED
    BY <1>7, <1>8

LEMMA ScreenedType ==
    ASSUME NEW item \in Items
    PROVE  /\ Screened(item) \in Items
           /\ Screened(item).kind = item.kind /\ Screened(item).source = item.source
           /\ Screened(item).level = item.level /\ Screened(item).scanned = item.scanned
           /\ Screened(item).flagged <=>
                 /\ item.kind \notin {"computation", "human"} /\ item.source # Nothing
                 /\ Source[item.source].instructs
  <1> DEFINE flag == /\ item.kind \notin {"computation", "human"} /\ item.source # Nothing
                     /\ Source[item.source].instructs
  <1>1. flag \in BOOLEAN
    BY SourceAssumption DEF Items
  <1>2. Screened(item) = [item EXCEPT !.flagged = flag]
    BY DEF Screened
  <1> HIDE DEF flag
  <1>3. /\ Screened(item) \in Items
        /\ Screened(item).kind = item.kind /\ Screened(item).source = item.source
        /\ Screened(item).level = item.level /\ Screened(item).scanned = item.scanned
        /\ Screened(item).flagged = flag
    BY <1>1, <1>2 DEF Items
  <1>4. QED
    BY <1>3 DEF flag

(* A sequence remade item by item is a sequence of items. *)
LEMMA RemadeType ==
    ASSUME NEW s \in Seq(Items), NEW t, t = [i \in DOMAIN s |-> t[i]],
           \A i \in DOMAIN s : t[i] \in Items
    PROVE  t \in Seq(Items) /\ Len(t) = Len(s)
  <1>1. Len(s) \in Nat /\ DOMAIN s = 1..Len(s)
    OBVIOUS
  <1>2. t \in [1..Len(s) -> Items]
    BY <1>1
  <1>3. t \in Seq(Items)
    BY <1>1, <1>2, SeqDef
  <1>4. 1..Len(t) = 1..Len(s) /\ Len(t) \in Nat
    BY <1>2, <1>3, LenProperties
  <1>5. QED
    BY <1>1, <1>3, <1>4

LEMMA ItemAt == \A s \in Seq(Items) : \A i \in DOMAIN s : s[i] \in Items
  OBVIOUS

LEMMA LevelOfType ==
    ASSUME NEW s \in Seq(Items), NEW some \in SUBSET DOMAIN s
    PROVE  LevelOf(s, some) \in Levels /\ \A i \in some : s[i].level <= LevelOf(s, some)
  <1>1. \A i \in some : s[i].level \in Levels
    BY ItemAt DEF Items
  <1> DEFINE levels == {s[i].level : i \in some}
  <1>2. levels \in SUBSET Levels
    BY <1>1
  <1>3. Highest(levels) \in Levels /\ \A n \in levels : n <= Highest(levels)
    BY <1>2, HighestLevel
  <1>4. QED
    BY <1>3 DEF LevelOf

(* What is computed is added as one item that names no source. *)
LEMMA WithComputationIs ==
    ASSUME NEW s \in Seq(Items), NEW decided
    PROVE  /\ LevelOf(s, Surveys(s)) \in Levels
           /\ Item("computation", Nothing, LevelOf(s, Surveys(s))) \in Items
           /\ WithComputation(s, decided) \in
                 {s, Append(s, Item("computation", Nothing, LevelOf(s, Surveys(s))))}
           /\ WithComputation(s, decided) \in Seq(Items)
  <1>1. Surveys(s) \in SUBSET DOMAIN s
    BY DEF Surveys
  <1>2. LevelOf(s, Surveys(s)) \in Levels
    BY <1>1, LevelOfType
  <1>3. Item("computation", Nothing, LevelOf(s, Surveys(s))) \in Items
    BY <1>2, ItemType DEF Kinds
  <1>4. QED
    BY <1>2, <1>3, AppendProperties DEF WithComputation

-----------------------------------------------------------------------------
(* Types. *)

Stages == {"images", "plan", "files", "retrieve", "engineer", "maintain", "topology", "facts",
           "screen", "code", "reason", "verify", "draft", "gate", "settle", "converse", "done"}

RunTypes ==
    /\ stage \in Stages
    /\ profile \in Requests
    /\ files.images \in Seq(Papers) /\ files.documents \in Seq(Papers)
    /\ unread \in Seq(Papers)
    /\ stopping \in BOOLEAN

MadeTypes ==
    /\ answer = [claims |-> answer.claims, carries |-> answer.carries]
    /\ answer.carries \subseteq Detectors
    /\ draft # Nothing => /\ draft = [carries |-> draft.carries, resolution |-> draft.resolution]
                          /\ draft.carries \subseteq Detectors

PTypes == RunTypes /\ MadeTypes /\ evidence \in Seq(Items)

LEMMA TypeInit == Init => PTypes
  <1> SUFFICES ASSUME Init PROVE PTypes
    OBVIOUS
  <1>1. files.images \in Seq(Papers) /\ files.documents \in Seq(Papers)
    BY SourceAssumption DEF Init
  <1>2. profile \in Requests
    <2>1. PICK asked \in Profiles :
             profile = [asked EXCEPT !.level = Highest({asked.level} \cup {Source[s].level : s \in Attached})]
      BY DEF Init
    <2>2. asked \in Requests
      BY SourceAssumption
    <2> DEFINE levels == {asked.level} \cup {Source[s].level : s \in Attached}
    <2>3. Attached \subseteq Papers
      <3>1. \A i \in DOMAIN files.images : files.images[i] \in Papers
        BY <1>1
      <3>2. \A i \in DOMAIN files.documents : files.documents[i] \in Papers
        BY <1>1
      <3>3. QED
        BY <3>1, <3>2 DEF Attached, ToSet
    <2>4. levels \in SUBSET Levels
      BY <2>2, <2>3, PaperType, SourceAssumption DEF Requests
    <2>5. Highest(levels) \in Levels
      BY <2>4, HighestLevel
    <2> HIDE DEF levels
    <2>6. profile = [asked EXCEPT !.level = Highest(levels)]
      BY <2>1 DEF levels
    <2>7. QED
      BY <2>2, <2>5, <2>6 DEF Requests
  <1>3. stage \in Stages /\ unread \in Seq(Papers) /\ stopping \in BOOLEAN
    BY <1>1 DEF Init, Stages
  <1>4. evidence \in Seq(Items) /\ MadeTypes
    BY DEF Init, MadeTypes
  <1>5. QED
    BY <1>1, <1>2, <1>3, <1>4 DEF PTypes, RunTypes

(* What was said and drafted is of values the policy knows. *)
LEMMA ReleasedType ==
    ASSUME NEW claims, NEW carried \in SUBSET Detectors, NEW level
    PROVE  /\ Released(claims, carried, level) =
                 [claims |-> Released(claims, carried, level).claims,
                  carries |-> Released(claims, carried, level).carries]
           /\ Released(claims, carried, level).carries \subseteq Detectors
  BY DEF Released

LEMMA RepeatableType == PTypes => Repeatable \subseteq Detectors
  <1> SUFFICES ASSUME PTypes PROVE Repeatable \subseteq Detectors
    OBVIOUS
  <1>1. \A i \in DOMAIN evidence : Carried(evidence[i]) \subseteq Detectors
    BY ItemAt, CarriedType DEF PTypes
  <1>2. Shown(evidence) \subseteq Detectors
    BY <1>1 DEF Shown
  <1>3. profile.carries \subseteq Detectors
    BY DEF PTypes, RunTypes, Requests
  <1>4. QED
    BY <1>2, <1>3 DEF Repeatable

(* The evidence after a step. *)
LEMMA EvidenceStep ==
    ASSUME PTypes, Next
    PROVE  evidence' \in Seq(Items)
  <1>0. evidence \in Seq(Items) /\ profile \in Requests
    BY DEF PTypes, RunTypes
  <1>1. CASE ReadImages
    <2>1. ItemsOf("vision_extraction", files.images, Requested) \in Seq(Items)
      BY <1>0, RequestedTypes, ItemsOfType DEF Kinds, PTypes, RunTypes
    <2>2. QED
      BY <1>0, <1>1, <2>1, ConcatProperties DEF ReadImages
  <1>2. CASE ReadFile
    <2>1. <<Head(unread)>> \in Seq(Papers)
      BY <1>2 DEF ReadFile, PTypes, RunTypes
    <2>2. ItemsOf("uploaded_file", <<Head(unread)>>, OwnLevel) \in Seq(Items)
      BY <2>1, LevelTypes, ItemsOfType DEF Kinds
    <2>3. QED
      BY <1>0, <1>2, <2>2, ConcatProperties DEF ReadFile
  <1>3. CASE Retrieve
    <2>1. \A found \in Retrievals \cup {<<>>} :
             ItemsOf("knowledge_base", found, OwnLevel) \in Seq(Items)
      <3> SUFFICES ASSUME NEW found \in Retrievals \cup {<<>>}
                   PROVE  ItemsOf("knowledge_base", found, OwnLevel) \in Seq(Items)
        OBVIOUS
      <3>1. found \in Seq(Papers)
        <4>1. <<>> \in Seq(Papers)
          OBVIOUS
        <4>2. Retrievals \subseteq Seq(Papers)
          BY SourceAssumption
        <4>3. QED
          BY <4>1, <4>2
      <3>2. QED
        BY <3>1, LevelTypes, ItemsOfType DEF Kinds
    <2>2. PICK found \in Retrievals \cup {<<>>} :
             evidence' = evidence \o ItemsOf("knowledge_base", found, OwnLevel)
      BY <1>3 DEF Retrieve
    <2>3. QED
      BY <1>0, <2>1, <2>2, ConcatProperties
  <1>4. CASE EngineerRecord
    BY <1>0, <1>4, WithComputationIs DEF EngineerRecord
  <1>5. CASE EngineerStated
    <2>1. Item("request", Nothing, profile.level) \in Items /\ Item("computation", Nothing, profile.level) \in Items
      BY <1>0, ItemType DEF Requests, Kinds
    <2>2. <<Item("request", Nothing, profile.level), Item("computation", Nothing, profile.level)>> \in Seq(Items)
      BY <2>1
    <2>3. QED
      BY <1>0, <1>5, <2>2, ConcatProperties DEF EngineerStated
  <1>6. CASE Maintain
    <2>1. Item("work_order", Nothing, 0) \in Items
      BY ItemType DEF Kinds, Levels
    <2>2. QED
      BY <1>0, <1>6, <2>1, AppendProperties DEF Maintain
  <1>7. CASE WalkDrawing
    <2>1. PICK d \in Drawings : evidence' = Append(evidence, Item("topology", d, OwnLevel[d]))
      BY <1>7 DEF WalkDrawing
    <2>2. Item("topology", d, OwnLevel[d]) \in Items
      BY SourceAssumption, LevelTypes, ItemType DEF Kinds
    <2>3. QED
      BY <1>0, <2>1, <2>2, AppendProperties
  <1>8. CASE Screen
    <2>1. evidence' = [i \in DOMAIN evidence |-> Scanned(Screened(evidence[i]))]
      BY <1>8 DEF Screen
    <2>2. \A i \in DOMAIN evidence : Scanned(Screened(evidence[i])) \in Items
      BY <1>0, ItemAt, ScreenedType, ScannedType
    <2>3. QED
      BY <1>0, <2>1, <2>2, RemadeType
  <1>9. CASE Code
    <2>1. \A s \in {Nothing} \cup {evidence[i].source : i \in DOMAIN evidence} :
             Item("computation", s, profile.level) \in Items
      <3>1. \A i \in DOMAIN evidence : evidence[i].source \in DOMAIN Source \cup {Nothing}
        BY <1>0, ItemAt DEF Items
      <3>2. QED
        BY <1>0, <3>1, ItemType DEF Kinds, Requests
    <2>2. PICK output \in {<<>>} \cup
                 {<<Item("computation", s, profile.level)>> :
                     s \in {Nothing} \cup {evidence[i].source : i \in DOMAIN evidence}} :
             evidence' = IF RunsCode
                         THEN [i \in DOMAIN (evidence \o output) |-> Scanned((evidence \o output)[i])]
                         ELSE evidence
      BY <1>9 DEF Code
    <2>3. output \in Seq(Items)
      <3>1. CASE output = <<>>
        BY <3>1
      <3>2. CASE output # <<>>
        <4>1. PICK s \in {Nothing} \cup {evidence[i].source : i \in DOMAIN evidence} :
                 output = <<Item("computation", s, profile.level)>>
          BY <2>2, <3>2
        <4>2. Item("computation", s, profile.level) \in Items
          BY <2>1
        <4>3. QED
          BY <4>1, <4>2
      <3>3. QED
        BY <3>1, <3>2
    <2>4. evidence \o output \in Seq(Items)
      BY <1>0, <2>3, ConcatProperties
    <2> DEFINE all == evidence \o output
    <2> HIDE DEF all
    <2>5. [i \in DOMAIN all |-> Scanned(all[i])] \in Seq(Items)
      <3>1. \A i \in DOMAIN all : Scanned(all[i]) \in Items
        BY <2>4, ItemAt, ScannedType DEF all
      <3>2. QED
        BY <2>4, <3>1, RemadeType DEF all
    <2>6. QED
      BY <1>0, <2>2, <2>5 DEF all
  <1>10. CASE ResolveConflict
    <2>1. PICK k \in DOMAIN conflicts : \E value \in Offered(k) : Resolve(k, value)
      BY <1>10 DEF ResolveConflict
    <2> DEFINE level == LevelOf(evidence, Involved(k))
               decided == Append(evidence, Item("human", Nothing, level))
    <2>2. Involved(k) \in SUBSET DOMAIN evidence
      BY DEF Involved
    <2>3. level \in Levels
      BY <1>0, <2>2, LevelOfType
    <2>4. decided \in Seq(Items)
      BY <1>0, <2>3, ItemType, AppendProperties DEF Kinds
    <2>5. \E result : evidence' = IF result = Nothing THEN decided ELSE WithComputation(decided, result)
      BY <2>1 DEF Resolve
    <2> HIDE DEF level, decided
    <2>6. QED
      BY <2>4, <2>5, WithComputationIs
  <1>11. CASE Plan \/ FilesRead \/ NothingToEngineer \/ NoDrawing \/ CompareFacts \/ Reason \/ Verify
                \/ Draft \/ NoDraft \/ Gate \/ Settle \/ Converse \/ RequestStop \/ HonourStop \/ Fail
    BY <1>0, <1>11 DEF Plan, FilesRead, NothingToEngineer, NoDrawing, CompareFacts, Reason, Verify,
                       Draft, NoDraft, Gate, Settle, Converse, RequestStop, HonourStop, Fail, gathered
  <1>12. QED
    BY <1>1, <1>2, <1>3, <1>4, <1>5, <1>6, <1>7, <1>8, <1>9, <1>10, <1>11 DEF Next

(* The level the gate gives a run is at least the level of what it rests   *)
(* on, of what it says and of what it was asked.                           *)
LEMMA RaisedIs ==
    ASSUME PTypes
    PROVE  /\ RaisedLevel \in Levels
           /\ profile.level <= RaisedLevel
           /\ \A i \in DOMAIN evidence : evidence[i].level <= RaisedLevel
           /\ \A d \in answer.carries : RaisesTo[d] <= RaisedLevel
  <1>0. evidence \in Seq(Items) /\ profile.level \in Levels
    BY DEF PTypes, RunTypes, Requests
  <1>1. Level(evidence) \in Levels /\ \A i \in DOMAIN evidence : evidence[i].level <= Level(evidence)
    BY <1>0, LevelOfType DEF Level
  <1>2. ReleasedLevels \subseteq Levels /\ \A d \in answer.carries : RaisesTo[d] \in ReleasedLevels
    <2>1. draft # Nothing => InDocument(draft.carries) \subseteq Detectors
      BY <1>0, ItemAt, CarriedType DEF InDocument, PTypes, MadeTypes
    <2>2. answer.carries \subseteq Detectors /\ \A d \in Detectors : RaisesTo[d] \in Levels
      BY PipelineAssumption DEF PTypes, MadeTypes
    <2>3. QED
      BY <2>1, <2>2 DEF ReleasedLevels
  <1> DEFINE levels == {profile.level, Level(evidence)} \cup ReleasedLevels
  <1>3. levels \in SUBSET Levels
    BY <1>0, <1>1, <1>2
  <1>4. Highest(levels) \in Levels /\ \A n \in levels : n <= Highest(levels)
    BY <1>3, HighestLevel
  <1>5. RaisedLevel = Highest(levels)
    BY DEF RaisedLevel
  <1>6. profile.level \in levels /\ Level(evidence) \in levels /\ \A n \in ReleasedLevels : n \in levels
    OBVIOUS
  <1> HIDE DEF levels
  <1>7. \A i \in DOMAIN evidence : evidence[i].level \in Levels
    BY <1>0, ItemAt DEF Items
  <1>8. Level(evidence) <= RaisedLevel
    BY <1>4, <1>5, <1>6
  <1>9. \A i \in DOMAIN evidence : evidence[i].level <= RaisedLevel
    BY <1>1, <1>4, <1>5, <1>7, <1>8 DEF Levels
  <1>10. QED
    BY <1>2, <1>4, <1>5, <1>6, <1>9

LEMMA RunTypesStep ==
    ASSUME PTypes, Next
    PROVE  RunTypes'
  <1>0. RunTypes
    BY DEF PTypes
  <1>1. CASE Plan
    BY <1>0, <1>1 DEF Plan, RunTypes, Requests, Stages
  <1>2. CASE ReadFile
    BY <1>0, <1>2, HeadTailProperties DEF ReadFile, RunTypes
  <1>3. CASE Gate
    BY <1>0, <1>3, RaisedIs DEF Gate, RunTypes, Requests, Stages
  <1>4. CASE ReadImages \/ FilesRead \/ Retrieve \/ EngineerRecord \/ EngineerStated \/ NothingToEngineer
               \/ Maintain \/ WalkDrawing \/ NoDrawing \/ CompareFacts \/ Screen \/ Code
    BY <1>0, <1>4 DEF ReadImages, FilesRead, Retrieve, EngineerRecord, EngineerStated, NothingToEngineer,
                      Maintain, WalkDrawing, NoDrawing, CompareFacts, Screen, Code, RunTypes, Stages, request
  <1>5. CASE Reason \/ Verify \/ Draft \/ NoDraft \/ Settle \/ Converse \/ RequestStop \/ HonourStop \/ Fail
    BY <1>0, <1>5 DEF Reason, Verify, Draft, NoDraft, Settle, Converse, RequestStop, HonourStop, Fail,
                      RunTypes, Stages, request
  <1>6. CASE ResolveConflict
    BY <1>0, <1>6 DEF ResolveConflict, Resolve, RunTypes, request
  <1>7. QED
    BY <1>1, <1>2, <1>3, <1>4, <1>5, <1>6 DEF Next

LEMMA MadeTypesStep ==
    ASSUME PTypes, Next
    PROVE  MadeTypes'
  <1>0. MadeTypes
    BY DEF PTypes
  <1>1. CASE Reason
    <2>1. PICK claims \in Answers, carried \in SUBSET Repeatable :
             answer' = Released(claims, carried, profile.level)
      BY <1>1 DEF Reason
    <2>2. carried \in SUBSET Detectors
      BY <2>1, RepeatableType
    <2>3. draft' = draft
      BY <1>1 DEF Reason
    <2>4. QED
      BY <1>0, <2>1, <2>2, <2>3, ReleasedType DEF MadeTypes
  <1>2. CASE Converse
    <2>1. PICK carried \in SUBSET profile.carries : answer' = Released({}, carried, profile.level)
      BY <1>2 DEF Converse
    <2>2. carried \in SUBSET Detectors
      BY <2>1 DEF PTypes, RunTypes, Requests
    <2>3. draft' = draft
      BY <1>2 DEF Converse
    <2>4. QED
      BY <1>0, <2>1, <2>2, <2>3, ReleasedType DEF MadeTypes
  <1>3. CASE Draft
    <2>1. PICK carried \in SUBSET Repeatable :
             draft' = Nothing \/ draft' = [carries |-> carried, resolution |-> 0]
      BY <1>3 DEF Draft
    <2>2. carried \subseteq Detectors
      BY <2>1, RepeatableType
    <2>3. answer' = answer
      BY <1>3 DEF Draft
    <2>4. QED
      BY <1>0, <2>1, <2>2, <2>3 DEF MadeTypes
  <1>4. CASE ResolveConflict
    <2>1. /\ \E added : answer' = [answer EXCEPT !.claims = @ \cup added]
          /\ \/ draft' = draft
             \/ draft # Nothing /\ \E n : draft' = [draft EXCEPT !.resolution = n]
      <3>1. PICK k, value : Resolve(k, value)
        BY <1>4 DEF ResolveConflict
      <3>2. \E added : answer' = [answer EXCEPT !.claims = @ \cup added]
        BY <3>1 DEF Resolve
      <3>3. draft' = draft \/ (draft # Nothing /\ \E n : draft' = [draft EXCEPT !.resolution = n])
        BY <3>1 DEF Resolve
      <3>4. QED
        BY <3>2, <3>3
    <2>2. answer' = [claims |-> answer'.claims, carries |-> answer.carries]
      BY <1>0, <2>1 DEF MadeTypes
    <2>3. draft' # Nothing => /\ draft' = [carries |-> draft.carries, resolution |-> draft'.resolution]
                              /\ draft # Nothing
      BY <1>0, <2>1 DEF MadeTypes
    <2>4. QED
      BY <1>0, <2>2, <2>3 DEF MadeTypes
  <1>5. CASE ReadImages \/ Plan \/ ReadFile \/ FilesRead \/ Retrieve \/ EngineerRecord \/ EngineerStated
               \/ NothingToEngineer \/ Maintain \/ WalkDrawing \/ NoDrawing \/ CompareFacts \/ Screen \/ Code
    <2>1. UNCHANGED <<answer, draft>>
      BY <1>5 DEF ReadImages, Plan, ReadFile, FilesRead, Retrieve, EngineerRecord, EngineerStated,
                  NothingToEngineer, Maintain, WalkDrawing, NoDrawing, CompareFacts, Screen, Code, written
    <2>2. QED
      BY <1>0, <2>1 DEF MadeTypes
  <1>6. CASE Verify \/ NoDraft \/ Gate \/ Settle \/ RequestStop \/ HonourStop \/ Fail
    <2>1. UNCHANGED <<answer, draft>>
      BY <1>6 DEF Verify, NoDraft, Gate, Settle, RequestStop, HonourStop, Fail, written
    <2>2. QED
      BY <1>0, <2>1 DEF MadeTypes
  <1>7. QED
    BY <1>1, <1>2, <1>3, <1>4, <1>5, <1>6 DEF Next

LEMMA TypeStep == PTypes /\ [Next]_vars => PTypes'
  <1>1. ASSUME PTypes, Next PROVE PTypes'
    BY <1>1, EvidenceStep, RunTypesStep, MadeTypesStep DEF PTypes
  <1>2. ASSUME PTypes, UNCHANGED vars PROVE PTypes'
    BY <1>2 DEF vars, PTypes, RunTypes, MadeTypes
  <1>3. QED
    BY <1>1, <1>2

-----------------------------------------------------------------------------
(* How the ledger grows. *)

LEMMA ConcatAt ==
    ASSUME NEW s \in Seq(Items), NEW t \in Seq(Items)
    PROVE  /\ \A i \in DOMAIN s : i \in DOMAIN (s \o t) /\ (s \o t)[i] = s[i]
           /\ \A i \in DOMAIN (s \o t) \ DOMAIN s : \E j \in DOMAIN t : (s \o t)[i] = t[j]
  <1>1. /\ Len(s) \in Nat /\ Len(t) \in Nat /\ DOMAIN s = 1..Len(s) /\ DOMAIN t = 1..Len(t)
        /\ s \o t \in Seq(Items) /\ Len(s \o t) = Len(s) + Len(t)
        /\ \A i \in 1..(Len(s) + Len(t)) : (s \o t)[i] = IF i <= Len(s) THEN s[i] ELSE t[i - Len(s)]
    BY ConcatProperties
  <1>2. DOMAIN (s \o t) = 1..(Len(s) + Len(t))
    BY <1>1
  <1>3. ASSUME NEW i \in DOMAIN s PROVE i \in DOMAIN (s \o t) /\ (s \o t)[i] = s[i]
    <2>1. i \in 1..(Len(s) + Len(t)) /\ i <= Len(s)
      BY <1>1
    <2>2. QED
      BY <1>1, <1>2, <2>1
  <1>4. ASSUME NEW i \in DOMAIN (s \o t) \ DOMAIN s PROVE \E j \in DOMAIN t : (s \o t)[i] = t[j]
    <2>1. i \in 1..(Len(s) + Len(t)) /\ ~ (i <= Len(s)) /\ i - Len(s) \in 1..Len(t)
      BY <1>1, <1>2
    <2>2. (s \o t)[i] = t[i - Len(s)]
      BY <1>1, <2>1
    <2>3. QED
      BY <1>1, <2>1, <2>2
  <1>5. QED
    BY <1>3, <1>4

LEMMA AppendAt ==
    ASSUME NEW s \in Seq(Items), NEW x \in Items
    PROVE  /\ Len(Append(s, x)) = Len(s) + 1
           /\ Append(s, x)[Len(s) + 1] = x
           /\ \A i \in DOMAIN s : i \in DOMAIN Append(s, x) /\ Append(s, x)[i] = s[i]
           /\ \A i \in DOMAIN Append(s, x) \ DOMAIN s : i = Len(s) + 1 /\ Append(s, x)[i] = x
  <1>1. /\ Len(s) \in Nat /\ DOMAIN s = 1..Len(s)
        /\ Append(s, x) \in Seq(Items) /\ Len(Append(s, x)) = Len(s) + 1
        /\ \A i \in 1..Len(s) : Append(s, x)[i] = s[i]
        /\ Append(s, x)[Len(s) + 1] = x
    BY AppendProperties
  <1>2. DOMAIN Append(s, x) = 1..(Len(s) + 1)
    BY <1>1
  <1>3. QED
    BY <1>1, <1>2

(* What a step adds to the ledger, by the stage it is taken at. *)
Gathered(item) ==
    \/ /\ stage = "images" /\ item.kind = "vision_extraction" /\ item.scanned = FALSE
       /\ item.source \in ToSet(files.images) /\ item.source \in Papers /\ item.level = profile.level
    \/ /\ stage = "files" /\ item.kind = "uploaded_file" /\ item.scanned = FALSE
       /\ item.source \in ToSet(unread) /\ item.source \in Papers /\ item.level = Source[item.source].level
    \/ /\ stage = "retrieve" /\ item.kind = "knowledge_base" /\ item.scanned = FALSE
       /\ item.source \in Papers /\ item.level = Source[item.source].level
    \/ /\ stage \in {"engineer", "maintain"} /\ item.kind \in {"request", "computation", "work_order"}
       /\ item.source = Nothing /\ item.scanned = FALSE
    \/ /\ stage = "topology" /\ stage' = "facts" /\ item.kind = "topology" /\ item.scanned = FALSE
       /\ item.source \in Drawings /\ item.level = Source[item.source].level
       /\ topology' = Source[item.source].isolation
    \/ /\ stage = "code" /\ item.kind = "computation"
       /\ item.source \in {Nothing} \cup {evidence[i].source : i \in DOMAIN evidence}

Ledger ==
    /\ \A i \in DOMAIN evidence :
          /\ i \in DOMAIN evidence'
          /\ \/ evidence'[i] = evidence[i] /\ (stage = "screen" => stage' = "screen")
             \/ stage = "screen" /\ stage' = "code" /\ evidence'[i] = Scanned(Screened(evidence[i]))
             \/ stage = "code" /\ evidence'[i] = Scanned(evidence[i])
    /\ \A i \in DOMAIN evidence' \ DOMAIN evidence : Gathered(evidence'[i])

LEMMA LedgerGrows ==
    ASSUME PTypes, Next, ~ ResolveConflict
    PROVE  Ledger
  <1>0. evidence \in Seq(Items) /\ profile \in Requests /\ files.images \in Seq(Papers) /\ unread \in Seq(Papers)
    BY DEF PTypes, RunTypes
  <1>1. CASE ReadImages
    <2> DEFINE new == ItemsOf("vision_extraction", files.images, Requested)
    <2>1. /\ new \in Seq(Items) /\ Len(new) = Len(files.images)
          /\ \A j \in 1..Len(files.images) :
                files.images[j] \in Papers
                  /\ new[j] = Item("vision_extraction", files.images[j], Requested[files.images[j]])
      BY <1>0, RequestedTypes, ItemsOfType DEF Kinds
    <2> HIDE DEF new
    <2>2. \A j \in DOMAIN new : Gathered(new[j])
      <3> SUFFICES ASSUME NEW j \in DOMAIN new PROVE Gathered(new[j])
        OBVIOUS
      <3>1. j \in 1..Len(files.images) /\ j \in DOMAIN files.images
        BY <1>0, <2>1
      <3>2. files.images[j] \in ToSet(files.images)
        BY <3>1 DEF ToSet
      <3>3. files.images[j] \in Papers
              /\ new[j] = Item("vision_extraction", files.images[j], Requested[files.images[j]])
        BY <2>1, <3>1
      <3>4. Requested[files.images[j]] = profile.level
        BY <3>3, PaperType DEF Requested
      <3>5. stage = "images"
        BY <1>1 DEF ReadImages
      <3>6. QED
        BY <3>2, <3>3, <3>4, <3>5 DEF Gathered, Item
    <2>3. evidence' = evidence \o new /\ stage = "images"
      BY <1>1 DEF ReadImages, new
    <2>4. QED
      BY <1>0, <2>1, <2>2, <2>3, ConcatAt DEF Ledger
  <1>2. CASE ReadFile
    <2> DEFINE new == ItemsOf("uploaded_file", <<Head(unread)>>, OwnLevel)
    <2>0. Head(unread) \in Papers /\ Head(unread) \in ToSet(unread)
      <3>1. unread # <<>>
        BY <1>2 DEF ReadFile
      <3>2. Len(unread) \in Nat /\ DOMAIN unread = 1..Len(unread) /\ Len(unread) # 0
        BY <1>0, <3>1, EmptySeq, LenProperties
      <3>3. 1 \in DOMAIN unread
        BY <3>2
      <3>4. Head(unread) = unread[1]
        BY <1>0
      <3>5. unread[1] \in Papers
        BY <1>0, <3>3
      <3>6. QED
        BY <3>3, <3>4, <3>5 DEF ToSet
    <2>1. new \in Seq(Items) /\ Len(new) = 1 /\ new[1] = Item("uploaded_file", Head(unread), OwnLevel[Head(unread)])
      <3>1. <<Head(unread)>> \in Seq(Papers) /\ Len(<<Head(unread)>>) = 1 /\ <<Head(unread)>>[1] = Head(unread)
        BY <2>0
      <3> DEFINE one == <<Head(unread)>>
      <3>2. one \in Seq(Papers) /\ Len(one) = 1 /\ one[1] = Head(unread)
        BY <3>1
      <3> HIDE DEF one
      <3>3. /\ ItemsOf("uploaded_file", one, OwnLevel) \in Seq(Items)
            /\ Len(ItemsOf("uploaded_file", one, OwnLevel)) = Len(one)
            /\ \A j \in 1..Len(one) : ItemsOf("uploaded_file", one, OwnLevel)[j]
                                         = Item("uploaded_file", one[j], OwnLevel[one[j]])
        BY <3>2, LevelTypes, ItemsOfType DEF Kinds
      <3>4. new = ItemsOf("uploaded_file", one, OwnLevel)
        BY DEF one
      <3>5. QED
        BY <3>2, <3>3, <3>4
    <2> HIDE DEF new
    <2>2. \A j \in DOMAIN new : Gathered(new[j])
      <3>1. DOMAIN new = 1..1
        BY <2>1, LenProperties
      <3>2. OwnLevel[Head(unread)] = Source[Head(unread)].level
        BY <2>0, PaperType DEF OwnLevel
      <3>3. stage = "files"
        BY <1>2 DEF ReadFile
      <3>4. Gathered(new[1])
        BY <2>0, <2>1, <3>2, <3>3 DEF Gathered, Item
      <3>5. QED
        BY <3>1, <3>4
    <2>3. (evidence' = evidence \o new \/ evidence' = evidence) /\ stage = "files"
      BY <1>2 DEF ReadFile, new
    <2>4. CASE evidence' = evidence
      BY <2>3, <2>4 DEF Ledger
    <2>5. CASE evidence' = evidence \o new
      BY <1>0, <2>1, <2>2, <2>3, <2>5, ConcatAt DEF Ledger
    <2>6. QED
      BY <2>3, <2>4, <2>5
  <1>3. CASE Retrieve
    <2>1. PICK found \in Retrievals \cup {<<>>} :
             evidence' = evidence \o ItemsOf("knowledge_base", found, OwnLevel)
      BY <1>3 DEF Retrieve
    <2>2. found \in Seq(Papers)
      <3>1. <<>> \in Seq(Papers)
        OBVIOUS
      <3>2. Retrievals \subseteq Seq(Papers)
        BY SourceAssumption
      <3>3. QED
        BY <3>1, <3>2
    <2> DEFINE new == ItemsOf("knowledge_base", found, OwnLevel)
    <2>3. /\ new \in Seq(Items) /\ Len(new) = Len(found)
          /\ \A j \in 1..Len(found) :
                found[j] \in Papers /\ new[j] = Item("knowledge_base", found[j], OwnLevel[found[j]])
      BY <2>2, LevelTypes, ItemsOfType DEF Kinds
    <2>4. evidence' = evidence \o new
      BY <2>1
    <2> HIDE DEF new
    <2>5. \A j \in DOMAIN new : Gathered(new[j])
      <3> SUFFICES ASSUME NEW j \in DOMAIN new PROVE Gathered(new[j])
        OBVIOUS
      <3>1. j \in 1..Len(found)
        BY <2>3
      <3>2. found[j] \in Papers /\ new[j] = Item("knowledge_base", found[j], OwnLevel[found[j]])
        BY <2>3, <3>1
      <3>3. OwnLevel[found[j]] = Source[found[j]].level
        BY <3>2, PaperType DEF OwnLevel
      <3>4. stage = "retrieve"
        BY <1>3 DEF Retrieve
      <3>5. QED
        BY <3>2, <3>3, <3>4 DEF Gathered, Item
    <2>6. stage = "retrieve"
      BY <1>3 DEF Retrieve
    <2>7. QED
      BY <1>0, <2>3, <2>4, <2>5, <2>6, ConcatAt DEF Ledger
  <1>4. CASE EngineerRecord
    <2> DEFINE new == Item("computation", Nothing, LevelOf(evidence, Surveys(evidence)))
    <2>1. new \in Items /\ evidence' \in {evidence, Append(evidence, new)} /\ stage = "engineer"
      BY <1>0, <1>4, WithComputationIs DEF EngineerRecord
    <2>2. Gathered(new)
      BY <2>1 DEF Gathered, Item
    <2> HIDE DEF new
    <2>3. QED
      BY <1>0, <2>1, <2>2, AppendAt DEF Ledger
  <1>5. CASE EngineerStated
    <2> DEFINE new == <<Item("request", Nothing, profile.level), Item("computation", Nothing, profile.level)>>
    <2>1. Item("request", Nothing, profile.level) \in Items /\ Item("computation", Nothing, profile.level) \in Items
      BY <1>0, ItemType DEF Requests, Kinds
    <2>2. new \in Seq(Items)
      BY <2>1
    <2>3. stage = "engineer" /\ evidence' = evidence \o new
      BY <1>5 DEF EngineerStated
    <2>4. \A j \in DOMAIN new : Gathered(new[j])
      <3>1. DOMAIN new = 1..2
        OBVIOUS
      <3>2. Gathered(new[1]) /\ Gathered(new[2])
        BY <2>3 DEF Gathered, Item
      <3>3. QED
        BY <3>1, <3>2
    <2> HIDE DEF new
    <2>5. QED
      BY <1>0, <2>2, <2>3, <2>4, ConcatAt DEF Ledger
  <1>6. CASE Maintain
    <2> DEFINE new == Item("work_order", Nothing, 0)
    <2>1. new \in Items
      BY ItemType DEF Kinds, Levels
    <2>2. stage = "maintain" /\ evidence' \in {evidence, Append(evidence, new)}
      BY <1>6 DEF Maintain
    <2>3. Gathered(new)
      BY <2>2 DEF Gathered, Item
    <2> HIDE DEF new
    <2>4. QED
      BY <1>0, <2>1, <2>2, <2>3, AppendAt DEF Ledger
  <1>7. CASE WalkDrawing
    <2>1. PICK d \in Drawings : evidence' = Append(evidence, Item("topology", d, OwnLevel[d]))
                                  /\ topology' = Source[d].isolation
      BY <1>7 DEF WalkDrawing
    <2>2. d \in DOMAIN Source /\ stage = "topology" /\ stage' = "facts"
      BY <1>7, SourceAssumption DEF WalkDrawing
    <2> DEFINE new == Item("topology", d, OwnLevel[d])
    <2>3. new \in Items /\ evidence' = Append(evidence, new)
      BY <2>1, <2>2, LevelTypes, ItemType DEF Kinds
    <2>4. OwnLevel[d] = Source[d].level
      BY <2>2 DEF OwnLevel
    <2>5. Gathered(new)
      BY <2>1, <2>2, <2>4 DEF Gathered, Item
    <2> HIDE DEF new
    <2>6. QED
      BY <1>0, <2>2, <2>3, <2>5, AppendAt DEF Ledger
  <1>8. CASE Screen
    BY <1>8 DEF Screen, Ledger
  <1>9. CASE Code
    <2>1. PICK output \in {<<>>} \cup
                 {<<Item("computation", s, profile.level)>> :
                     s \in {Nothing} \cup {evidence[i].source : i \in DOMAIN evidence}} :
             evidence' = IF RunsCode
                         THEN [i \in DOMAIN (evidence \o output) |-> Scanned((evidence \o output)[i])]
                         ELSE evidence
      BY <1>9 DEF Code
    <2>2. stage = "code"
      BY <1>9 DEF Code
    <2>3. output = <<>> \/ \E s \in {Nothing} \cup {evidence[i].source : i \in DOMAIN evidence} :
                              output = <<Item("computation", s, profile.level)>>
      BY <2>1
    <2>4. \A s \in {Nothing} \cup {evidence[i].source : i \in DOMAIN evidence} :
             Item("computation", s, profile.level) \in Items
      <3>1. \A i \in DOMAIN evidence : evidence[i].source \in DOMAIN Source \cup {Nothing}
        BY <1>0, ItemAt DEF Items
      <3>2. QED
        BY <1>0, <3>1, ItemType DEF Kinds, Requests
    <2>5. output \in Seq(Items) /\ \A j \in DOMAIN output :
              /\ output[j] \in Items
              /\ output[j].kind = "computation"
              /\ output[j].source \in {Nothing} \cup {evidence[i].source : i \in DOMAIN evidence}
      <3>1. CASE output = <<>>
        BY <3>1
      <3>2. CASE output # <<>>
        <4>1. PICK s \in {Nothing} \cup {evidence[i].source : i \in DOMAIN evidence} :
                 output = <<Item("computation", s, profile.level)>>
          BY <2>3, <3>2
        <4> DEFINE x == Item("computation", s, profile.level)
        <4>2. x \in Items /\ x.kind = "computation" /\ x.source = s
          BY <2>4 DEF Item
        <4> HIDE DEF x
        <4>3. output = <<x>>
          BY <4>1 DEF x
        <4>4. QED
          BY <4>2, <4>3
      <3>3. QED
        BY <3>1, <3>2
    <2> DEFINE all == evidence \o output
    <2>6. all \in Seq(Items)
      BY <1>0, <2>5, ConcatProperties
    <2>7. /\ \A i \in DOMAIN evidence : i \in DOMAIN all /\ all[i] = evidence[i]
          /\ \A i \in DOMAIN all \ DOMAIN evidence : \E j \in DOMAIN output : all[i] = output[j]
      BY <1>0, <2>5, ConcatAt
    <2>8. evidence' = IF RunsCode THEN [i \in DOMAIN all |-> Scanned(all[i])] ELSE evidence
      BY <2>1
    <2> HIDE DEF all
    <2>9. \A i \in DOMAIN all \ DOMAIN evidence :
              /\ Scanned(all[i]).kind = "computation"
              /\ Scanned(all[i]).source \in {Nothing} \cup {evidence[n].source : n \in DOMAIN evidence}
      BY <2>5, <2>7, ScannedType
    <2>10. CASE RunsCode
      <3>1. evidence' = [i \in DOMAIN all |-> Scanned(all[i])]
        BY <2>8, <2>10
      <3>2. \A i \in DOMAIN evidence' \ DOMAIN evidence : Gathered(evidence'[i])
        BY <2>2, <2>9, <3>1 DEF Gathered
      <3>3. \A i \in DOMAIN evidence : i \in DOMAIN evidence' /\ evidence'[i] = Scanned(evidence[i])
        BY <2>7, <3>1
      <3>4. QED
        BY <2>2, <3>2, <3>3 DEF Ledger
    <2>11. CASE ~ RunsCode
      BY <2>2, <2>8, <2>11 DEF Ledger
    <2>12. QED
      BY <2>10, <2>11
  <1>10. CASE Plan \/ FilesRead \/ NothingToEngineer \/ NoDrawing \/ CompareFacts \/ Reason \/ Verify
                \/ Draft \/ NoDraft \/ Gate \/ Settle \/ Converse \/ RequestStop \/ HonourStop \/ Fail
    <2>1. evidence' = evidence
      BY <1>10 DEF Plan, FilesRead, NothingToEngineer, NoDrawing, CompareFacts, Reason, Verify,
                   Draft, NoDraft, Gate, Settle, Converse, RequestStop, HonourStop, Fail, gathered
    <2>2. stage = "screen" => stage' = "screen"
      BY <1>10 DEF Plan, FilesRead, NothingToEngineer, NoDrawing, CompareFacts, Reason, Verify,
                   Draft, NoDraft, Gate, Settle, Converse, RequestStop, HonourStop, LooksForStop, Fail
    <2>3. QED
      BY <2>1, <2>2 DEF Ledger
  <1>11. QED
    BY <1>1, <1>2, <1>3, <1>4, <1>5, <1>6, <1>7, <1>8, <1>9, <1>10 DEF Next

(* A run that has ended changes only by a person's choice; until then no   *)
(* choice is on the record, and nothing was rendered.                      *)
Running ==
    stage # "done" =>
        /\ status \notin {"awaiting_approval", "delivered"}
        /\ file = Nothing
        /\ \A i \in DOMAIN evidence : evidence[i].kind # "human"

LEMMA AtRest == Next /\ stage = "done" => ResolveConflict
  <1>1. ASSUME Next, stage = "done" PROVE ResolveConflict
    <2>1. ~ (ReadImages \/ Plan \/ ReadFile \/ FilesRead \/ Retrieve \/ EngineerRecord \/ EngineerStated
               \/ NothingToEngineer \/ Maintain \/ WalkDrawing \/ NoDrawing \/ CompareFacts \/ Screen \/ Code)
      BY <1>1 DEF ReadImages, Plan, ReadFile, FilesRead, Retrieve, EngineerRecord, EngineerStated,
                  NothingToEngineer, Maintain, WalkDrawing, NoDrawing, CompareFacts, Screen, Code
    <2>2. ~ (Reason \/ Verify \/ Draft \/ NoDraft \/ Gate \/ Settle \/ Converse \/ RequestStop \/ HonourStop
               \/ Fail)
      BY <1>1 DEF Reason, Verify, Draft, NoDraft, Gate, Settle, Converse, RequestStop, HonourStop,
                  LooksForStop, Fail
    <2>3. QED
      BY <1>1, <2>1, <2>2 DEF Next
  <1>2. QED
    BY <1>1

LEMMA ChosenAtRest == Running /\ ResolveConflict => stage = "done" /\ stage' = "done"
  BY DEF Running, ResolveConflict, Resolve

LEMMA NoChoiceAdded ==
    ASSUME PTypes, Next, ~ ResolveConflict, \A i \in DOMAIN evidence : evidence[i].kind # "human"
    PROVE  \A i \in DOMAIN evidence' : evidence'[i].kind # "human"
  <1>1. Ledger
    BY LedgerGrows
  <1>2. evidence \in Seq(Items)
    BY DEF PTypes
  <1>3. ASSUME NEW i \in DOMAIN evidence PROVE evidence'[i].kind = evidence[i].kind
    <2>1. evidence[i] \in Items /\ Screened(evidence[i]) \in Items
      BY <1>2, <1>3, ItemAt, ScreenedType
    <2>2. /\ Scanned(evidence[i]).kind = evidence[i].kind
          /\ Scanned(Screened(evidence[i])).kind = evidence[i].kind
      BY <2>1, ScreenedType, ScannedType
    <2>3. QED
      BY <1>1, <1>3, <2>2 DEF Ledger
  <1>4. \A i \in DOMAIN evidence' \ DOMAIN evidence : evidence'[i].kind # "human"
    BY <1>1 DEF Ledger, Gathered
  <1>5. QED
    BY <1>3, <1>4

LEMMA RunningStep ==
    ASSUME PTypes, Running, [Next]_vars
    PROVE  Running'
  <1>1. CASE UNCHANGED vars
    BY <1>1 DEF vars, Running
  <1>2. CASE ResolveConflict
    BY <1>2, ChosenAtRest DEF Running
  <1>3. ASSUME Next, ~ ResolveConflict, stage' # "done" PROVE Running'
    <2>1. stage # "done"
      BY <1>3, AtRest
    <2>2. \A i \in DOMAIN evidence' : evidence'[i].kind # "human"
      BY <1>3, <2>1, NoChoiceAdded DEF Running
    <2>3. CASE ReadImages \/ Plan \/ ReadFile \/ FilesRead \/ Retrieve \/ EngineerRecord \/ EngineerStated
                 \/ NothingToEngineer \/ Maintain \/ WalkDrawing \/ NoDrawing \/ CompareFacts \/ Screen \/ Code
      BY <2>1, <2>2, <2>3 DEF ReadImages, Plan, ReadFile, FilesRead, Retrieve, EngineerRecord, EngineerStated,
             NothingToEngineer, Maintain, WalkDrawing, NoDrawing, CompareFacts, Screen, Code, written, Running
    <2>4. CASE Reason \/ Verify \/ Draft \/ NoDraft \/ Gate \/ Settle \/ Converse \/ RequestStop \/ HonourStop
                 \/ Fail
      BY <1>3, <2>1, <2>2, <2>4 DEF Reason, Verify, Draft, NoDraft, Gate, Settle, Converse, RequestStop,
             HonourStop, Fail, written, Running
    <2>5. QED
      BY <1>3, <2>3, <2>4 DEF Next
  <1>4. stage' = "done" => Running'
    BY DEF Running
  <1>5. QED
    BY <1>1, <1>2, <1>3, <1>4

-----------------------------------------------------------------------------
(* The held file. *)

HeldInv ==
    /\ draft # Nothing => draft.resolution = LastChoice
    /\ file # Nothing => draft # Nothing /\ HeldFileIsCurrent

LEMMA NoChoice == (\A i \in DOMAIN evidence : evidence[i].kind # "human") => LastChoice = 0
  <1>1. ASSUME \A i \in DOMAIN evidence : evidence[i].kind # "human" PROVE LastChoice = 0
    <2>1. {i \in DOMAIN evidence : evidence[i].kind = "human"} = {}
      BY <1>1
    <2>2. QED
      BY <2>1 DEF LastChoice, Highest
  <1>2. QED
    BY <1>1

(* A choice is the last of the record, whatever is computed after it. *)
LastIn(items) == Highest({i \in DOMAIN items : items[i].kind = "human"})

LEMMA ChoiceIsLast ==
    ASSUME NEW s \in Seq(Items), NEW x \in Items, x.kind = "human", NEW result, NEW all,
           all = IF result = Nothing THEN Append(s, x) ELSE WithComputation(Append(s, x), result)
    PROVE  LastIn(all) = Len(Append(s, x))
  <1> DEFINE t == Append(s, x)
             y == Item("computation", Nothing, LevelOf(t, Surveys(t)))
             n == Len(t)
             humans == {i \in DOMAIN all : all[i].kind = "human"}
  <1>1. t \in Seq(Items) /\ n = Len(s) + 1 /\ t[n] = x /\ Len(s) \in Nat
    BY AppendAt, AppendProperties, LenProperties
  <1>2. DOMAIN t = 1..n /\ n \in Nat
    BY <1>1, LenProperties
  <1> HIDE DEF t
  <1>3. y \in Items /\ y.kind = "computation" /\ WithComputation(t, result) \in {t, Append(t, y)}
    BY <1>1, WithComputationIs DEF Item
  <1> HIDE DEF y
  <1>4. all = t \/ all = Append(t, y)
    BY <1>3 DEF t
  <1>5. n \in humans /\ \A i \in humans : i \in 1..n
    <2>1. CASE all = t
      BY <1>1, <1>2, <2>1
    <2>2. CASE all = Append(t, y)
      <3>1. /\ \A i \in DOMAIN t : i \in DOMAIN all /\ all[i] = t[i]
            /\ \A i \in DOMAIN all \ DOMAIN t : all[i] = y
        BY <1>1, <1>3, <2>2, AppendAt
      <3>2. n \in DOMAIN t
        BY <1>1, <1>2
      <3>3. QED
        BY <1>1, <1>2, <1>3, <3>1, <3>2
    <2>3. QED
      BY <1>4, <2>1, <2>2
  <1> HIDE DEF humans, n
  <1>6. \A m \in humans : (\A i \in humans : i <= m) => m = n
    BY <1>2, <1>5
  <1>7. \A i \in humans : i <= n
    BY <1>2, <1>5
  <1>8. Highest(humans) = n
    BY <1>5, <1>6, <1>7 DEF Highest
  <1>9. QED
    BY <1>8 DEF humans, t, n, LastIn

(* What a render leaves in a document is what its boundary allows. *)
LEMMA RenderedIs ==
    ASSUME NEW content, content.carries \subseteq Detectors, NEW items \in Seq(Items), NEW decided,
           NEW out, out = Rendered(content, items, decided), out # Nothing
    PROVE  /\ out.decided = decided /\ out.resolution = content.resolution
           /\ \A d \in out.carries : Boundary["deliverable"][d] \in {"allow", "require_approval"}
  <1> DEFINE found == content.carries \cup UNION {Carried(items[i]) : i \in DOMAIN items}
  <1>1. found \subseteq Detectors
    <2>1. \A i \in DOMAIN items : Carried(items[i]) \subseteq Detectors
      BY ItemAt, CarriedType
    <2>2. QED
      BY <2>1
  <1>2. /\ Acting(found, "deliverable", "block") = {}
        /\ out = [carries |-> found \ Acting(found, "deliverable", "redact"),
                  resolution |-> content.resolution, decided |-> decided]
    BY DEF Rendered
  <1> HIDE DEF found
  <1>3. \A d \in found : Boundary["deliverable"][d] \in {"allow", "redact", "require_approval", "block"}
    BY <1>1, PipelineAssumption
  <1>4. QED
    BY <1>2, <1>3 DEF Acting

LEMMA HeldStep ==
    ASSUME PTypes, Running, HeldInv, [Next]_vars
    PROVE  HeldInv'
  <1>1. CASE UNCHANGED vars
    BY <1>1 DEF vars, HeldInv, HeldFileIsCurrent, LastChoice
  <1>2. CASE ResolveConflict
    <2>1. PICK k \in DOMAIN conflicts : \E value \in Offered(k) : Resolve(k, value)
      BY <1>2 DEF ResolveConflict
    <2> DEFINE x == Item("human", Nothing, LevelOf(evidence, Involved(k)))
               decided == Append(evidence, x)
    <2>2. x \in Items /\ x.kind = "human"
      <3>1. Involved(k) \in SUBSET DOMAIN evidence
        BY DEF Involved
      <3>2. QED
        BY <3>1, LevelOfType, ItemType DEF Kinds, PTypes, Item
    <2>3. PICK result :
             /\ evidence' = IF result = Nothing THEN decided ELSE WithComputation(decided, result)
             /\ IF draft = Nothing THEN UNCHANGED <<draft, file>>
                ELSE /\ draft' = [draft EXCEPT !.resolution = Len(decided)]
                     /\ file' \in {Nothing, Rendered(draft', evidence', assessment')}
      BY <2>1 DEF Resolve
    <2>4. LastChoice' = Len(decided)
      <3>1. evidence' = IF result = Nothing THEN decided ELSE WithComputation(decided, result)
        BY <2>3
      <3>2. evidence \in Seq(Items)
        BY DEF PTypes
      <3> HIDE DEF x
      <3>3. LastIn(evidence') = Len(decided)
        BY <2>2, <3>1, <3>2, ChoiceIsLast
      <3>4. QED
        BY <3>3 DEF LastChoice, LastIn
    <2> HIDE DEF x
    <2>5. CASE draft = Nothing
      BY <2>3, <2>5 DEF HeldInv
    <2>6. CASE draft # Nothing
      <3>1. /\ draft' = [draft EXCEPT !.resolution = Len(decided)]
            /\ file' \in {Nothing, Rendered(draft', evidence', assessment')}
        BY <2>3, <2>6
      <3>2. draft' = [carries |-> draft.carries, resolution |-> Len(decided)] /\ draft.carries \subseteq Detectors
        BY <2>6, <3>1 DEF PTypes, MadeTypes
      <3>3. draft'.resolution = LastChoice' /\ draft'.carries \subseteq Detectors
        BY <2>4, <3>2
      <3>4. evidence' \in Seq(Items)
        BY <1>2, EvidenceStep DEF Next
      <3>5. CASE file' = Nothing
        BY <3>3, <3>5 DEF HeldInv
      <3>6. CASE file' # Nothing
        <4>1. file' = Rendered(draft', evidence', assessment')
          BY <3>1, <3>6
        <4>2. /\ file'.decided = assessment' /\ file'.resolution = draft'.resolution
              /\ \A d \in file'.carries : Boundary["deliverable"][d] \in {"allow", "require_approval"}
          BY <3>3, <3>4, <3>6, <4>1, RenderedIs
        <4>3. draft' # Nothing
          <5>1. Len(decided) \in Nat
            <6>1. decided \in Seq(Items)
              BY <2>2, AppendProperties DEF PTypes
            <6>2. QED
              BY <6>1, LenProperties
          <5>2. draft' \in Drafts
            BY <3>2, <5>1 DEF Drafts
          <5>3. QED
            BY <5>2, SourceAssumption
        <4>4. QED
          BY <3>3, <4>2, <4>3 DEF HeldInv, HeldFileIsCurrent
      <3>7. QED
        BY <3>5, <3>6
    <2>7. QED
      BY <2>5, <2>6
  <1>3. ASSUME Next, ~ ResolveConflict PROVE HeldInv'
    <2>1. stage # "done"
      BY <1>3, AtRest
    <2>2. LastChoice = 0 /\ LastChoice' = 0
      <3>1. \A i \in DOMAIN evidence : evidence[i].kind # "human"
        BY <2>1 DEF Running
      <3>2. \A i \in DOMAIN evidence' : evidence'[i].kind # "human"
        BY <1>3, <3>1, NoChoiceAdded
      <3>3. (\A i \in DOMAIN evidence' : evidence'[i].kind # "human") => LastChoice' = 0
        <4>1. (\A i \in DOMAIN evidence' : evidence'[i].kind # "human")
                 => {i \in DOMAIN evidence' : evidence'[i].kind = "human"} = {}
          OBVIOUS
        <4>2. QED
          BY <4>1 DEF LastChoice, Highest
      <3>4. QED
        BY <3>1, <3>2, <3>3, NoChoice
    <2>3. file = Nothing
      BY <2>1 DEF Running
    <2>4. CASE Draft
      <3>1. (draft' # Nothing => draft'.resolution = 0) /\ file' = file
        BY <2>4 DEF Draft
      <3>2. QED
        BY <2>2, <2>3, <3>1 DEF HeldInv
    <2>5. CASE Settle
      <3>1. /\ draft' = draft /\ evidence' = evidence /\ assessment' = assessment
            /\ file' \in IF draft = Nothing THEN {Nothing} ELSE {Nothing, Rendered(draft, evidence, assessment)}
        BY <2>5 DEF Settle, gathered
      <3>2. CASE file' = Nothing
        BY <2>2, <3>1, <3>2 DEF HeldInv
      <3>3. CASE file' # Nothing
        <4>1. draft # Nothing /\ file' = Rendered(draft, evidence, assessment)
          BY <3>1, <3>3
        <4>2. draft.carries \subseteq Detectors /\ evidence \in Seq(Items)
          BY <4>1 DEF PTypes, MadeTypes
        <4>3. /\ file'.decided = assessment /\ file'.resolution = draft.resolution
              /\ \A d \in file'.carries : Boundary["deliverable"][d] \in {"allow", "require_approval"}
          BY <3>3, <4>1, <4>2, RenderedIs
        <4>4. QED
          BY <2>2, <3>1, <4>1, <4>3 DEF HeldInv, HeldFileIsCurrent
      <3>4. QED
        BY <3>2, <3>3
    <2>6. CASE ReadImages \/ Plan \/ ReadFile \/ FilesRead \/ Retrieve \/ EngineerRecord \/ EngineerStated
                 \/ NothingToEngineer \/ Maintain \/ WalkDrawing \/ NoDrawing \/ CompareFacts \/ Screen \/ Code
      <3>1. UNCHANGED <<draft, file>>
        BY <2>6 DEF ReadImages, Plan, ReadFile, FilesRead, Retrieve, EngineerRecord, EngineerStated,
             NothingToEngineer, Maintain, WalkDrawing, NoDrawing, CompareFacts, Screen, Code, written
      <3>2. QED
        BY <2>2, <2>3, <3>1 DEF HeldInv
    <2>7. CASE Reason \/ Verify \/ NoDraft \/ Gate \/ Converse \/ RequestStop \/ HonourStop \/ Fail
      <3>1. UNCHANGED <<draft, file>>
        BY <2>7 DEF Reason, Verify, NoDraft, Gate, Converse, RequestStop, HonourStop, Fail, written
      <3>2. QED
        BY <2>2, <2>3, <3>1 DEF HeldInv
    <2>8. QED
      BY <1>3, <2>4, <2>5, <2>6, <2>7 DEF Next
  <1>4. QED
    BY <1>1, <1>2, <1>3

LEMMA RunningInit == Init => Running /\ HeldInv
  BY DEF Init, Running, HeldInv

(* Every run keeps its types, and ends before a person's choice. *)
THEOREM PipelineTyped == Spec => [](PTypes /\ Running)
  <1>1. PTypes /\ Running /\ [Next]_vars => (PTypes /\ Running)'
    BY TypeStep, RunningStep
  <1>2. QED
    BY TypeInit, RunningInit, <1>1, PTL DEF Spec

(* The file of a held run is that of the last resolution and of the        *)
(* decision as it now stands, and holds no value the document policy keeps *)
(* out (_rerender_after_resolution).                                       *)
THEOREM HeldFile == Spec => []HeldFileIsCurrent
  <1>1. PTypes /\ Running /\ HeldInv /\ [Next]_vars => HeldInv'
    BY HeldStep
  <1>2. HeldInv => HeldFileIsCurrent
    BY DEF HeldInv, HeldFileIsCurrent
  <1>3. QED
    BY RunningInit, PipelineTyped, <1>1, <1>2, PTL DEF Spec

-----------------------------------------------------------------------------
(* The inspection records. *)

Surveyors(items) == \A i \in Surveys(items) : items[i].source \in DOMAIN Source

RecordKinds == {"uploaded_file", "vision_extraction"}

(* What adds no record, and keeps the kind and the source of every item,   *)
(* leaves the records as they are.                                         *)
LEMMA SameRecords ==
    ASSUME NEW items, NEW more,
           \A i \in DOMAIN items : /\ i \in DOMAIN more
                                    /\ more[i].kind = items[i].kind /\ more[i].source = items[i].source,
           \A i \in DOMAIN more \ DOMAIN items : more[i].kind \notin RecordKinds
    PROVE  /\ Surveys(more) = Surveys(items)
           /\ Records(more) = Records(items)
           /\ Surveyors(items) => Surveyors(more)
  <1>1. Surveys(more) = Surveys(items)
    BY DEF Surveys, RecordKinds
  <1>2. \A i \in Surveys(items) : more[i].source = items[i].source
    BY DEF Surveys
  <1>3. Records(more) = Records(items)
    BY <1>1, <1>2 DEF Records
  <1>4. Surveyors(items) => Surveyors(more)
    BY <1>1, <1>2 DEF Surveyors
  <1>5. QED
    BY <1>1, <1>3, <1>4

LEMMA AddedIsNoRecord ==
    ASSUME NEW s \in Seq(Items), NEW x \in Items, x.kind \notin RecordKinds
    PROVE  /\ Surveys(Append(s, x)) = Surveys(s)
           /\ Records(Append(s, x)) = Records(s)
           /\ Surveyors(s) => Surveyors(Append(s, x))
  <1> DEFINE more == Append(s, x)
  <1>1. /\ \A i \in DOMAIN s : i \in DOMAIN more /\ more[i] = s[i]
        /\ \A i \in DOMAIN more \ DOMAIN s : more[i] = x
    BY AppendAt
  <1> HIDE DEF more
  <1>2. /\ Surveys(more) = Surveys(s) /\ Records(more) = Records(s)
        /\ Surveyors(s) => Surveyors(more)
    BY <1>1, SameRecords
  <1>3. QED
    BY <1>2 DEF more

LEMMA ComputedIsNoRecord ==
    ASSUME NEW s \in Seq(Items), NEW decided
    PROVE  /\ Records(WithComputation(s, decided)) = Records(s)
           /\ Surveyors(s) => Surveyors(WithComputation(s, decided))
  <1> DEFINE x == Item("computation", Nothing, LevelOf(s, Surveys(s)))
  <1>1. x \in Items /\ WithComputation(s, decided) \in {s, Append(s, x)}
    BY WithComputationIs
  <1>2. x.kind \notin RecordKinds
    BY DEF Item, RecordKinds
  <1> HIDE DEF x
  <1>3. Records(Append(s, x)) = Records(s) /\ (Surveyors(s) => Surveyors(Append(s, x)))
    BY <1>1, <1>2, AddedIsNoRecord
  <1>4. QED
    BY <1>1, <1>3

LEMMA ChoiceIsNoRecord ==
    ASSUME PTypes, NEW k
    PROVE  LET decided == Append(evidence, Item("human", Nothing, LevelOf(evidence, Involved(k))))
           IN  /\ decided \in Seq(Items)
               /\ Records(decided) = Records(evidence)
               /\ Surveyors(evidence) => Surveyors(decided)
  <1> DEFINE x == Item("human", Nothing, LevelOf(evidence, Involved(k)))
  <1>1. x \in Items /\ x.kind \notin RecordKinds /\ evidence \in Seq(Items)
    <2>1. Involved(k) \in SUBSET DOMAIN evidence
      BY DEF Involved
    <2>2. QED
      BY <2>1, LevelOfType, ItemType DEF Kinds, PTypes, Item, RecordKinds
  <1> HIDE DEF x
  <1>2. /\ Append(evidence, x) \in Seq(Items) /\ Records(Append(evidence, x)) = Records(evidence)
        /\ Surveyors(evidence) => Surveyors(Append(evidence, x))
    BY <1>1, AddedIsNoRecord, AppendProperties
  <1>3. QED
    BY <1>2 DEF x

(* Every record among the evidence is one a file holds. *)
LEMMA SurveyorsStep ==
    ASSUME PTypes, Surveyors(evidence), [Next]_vars
    PROVE  Surveyors(evidence')
  <1>1. CASE UNCHANGED vars
    BY <1>1 DEF vars
  <1>2. CASE ResolveConflict
    <2>1. PICK k \in DOMAIN conflicts : \E value \in Offered(k) : Resolve(k, value)
      BY <1>2 DEF ResolveConflict
    <2> DEFINE decided == Append(evidence, Item("human", Nothing, LevelOf(evidence, Involved(k))))
    <2>2. \E result : evidence' = IF result = Nothing THEN decided ELSE WithComputation(decided, result)
      BY <2>1 DEF Resolve
    <2>3. decided \in Seq(Items) /\ Surveyors(decided)
      BY ChoiceIsNoRecord
    <2> HIDE DEF decided
    <2>4. QED
      BY <2>2, <2>3, ComputedIsNoRecord
  <1>3. ASSUME Next, ~ ResolveConflict PROVE Surveyors(evidence')
    <2>1. Ledger
      BY <1>3, LedgerGrows
    <2>2. \A i \in DOMAIN evidence :
             evidence'[i].kind = evidence[i].kind /\ evidence'[i].source = evidence[i].source
      <3> SUFFICES ASSUME NEW i \in DOMAIN evidence
                   PROVE  evidence'[i].kind = evidence[i].kind /\ evidence'[i].source = evidence[i].source
        OBVIOUS
      <3>1. evidence[i] \in Items /\ Screened(evidence[i]) \in Items
        BY ItemAt, ScreenedType DEF PTypes
      <3>2. /\ Scanned(evidence[i]).kind = evidence[i].kind /\ Scanned(evidence[i]).source = evidence[i].source
            /\ Scanned(Screened(evidence[i])).kind = evidence[i].kind
            /\ Scanned(Screened(evidence[i])).source = evidence[i].source
        BY <3>1, ScreenedType, ScannedType
      <3>3. QED
        BY <2>1, <3>2 DEF Ledger
    <2>3. \A i \in DOMAIN evidence' \ DOMAIN evidence :
             evidence'[i].kind \in RecordKinds => evidence'[i].source \in DOMAIN Source
      BY <2>1, PaperType DEF Ledger, Gathered, RecordKinds
    <2>4. QED
      BY <2>2, <2>3 DEF Surveyors, Surveys, RecordKinds
  <1>4. QED
    BY <1>1, <1>2, <1>3

(* The records the formulas read are files of the run. *)
THEOREM Surveying == Spec => []Surveyors(evidence)
  <1>1. Init => Surveyors(evidence)
    BY DEF Init, Surveyors, Surveys
  <1>2. PTypes /\ Running /\ Surveyors(evidence) /\ [Next]_vars => Surveyors(evidence)'
    BY SurveyorsStep
  <1>3. QED
    BY PipelineTyped, <1>1, <1>2, PTL DEF Spec

-----------------------------------------------------------------------------
(* The record of disagreements: each under the input or topic it is about. *)

Entry(k, c) ==
    /\ c = [kind |-> c.kind, impact |-> c.impact, values |-> c.values, status |-> c.status, choice |-> c.choice]
    /\ c.kind = "input" /\ c.status = "resolved" => c.choice # Nothing /\ (k[2] # "tag" => c.choice \in Nat)
    /\ \/ /\ c.kind = "input" /\ k[2] \in Fields /\ k = Input(k[2]) /\ c.impact = Impact(k[2])
          /\ Nothing \notin c.values /\ (k[2] # "tag" => c.values \subseteq Nat)
       \/ c.kind = "fact" /\ k \in Topics /\ c.impact = "high"

Shape(all) ==
    /\ all = [k \in DOMAIN all |-> all[k]]
    /\ \A k \in DOMAIN all : Entry(k, all[k])

LEMMA ConflictIs ==
    ASSUME NEW kind, NEW impact, NEW values
    PROVE  /\ Conflict(kind, impact, values).kind = kind
           /\ Conflict(kind, impact, values).impact = impact
           /\ Conflict(kind, impact, values).values = values
           /\ Conflict(kind, impact, values).status = "unresolved"
           /\ Conflict(kind, impact, values) =
                 [kind |-> kind, impact |-> impact, values |-> values,
                  status |-> Conflict(kind, impact, values).status,
                  choice |-> Conflict(kind, impact, values).choice]
  BY DEF Conflict

(* What is stated is stated by some record, and but for the tag a number. *)
LEMMA StatedIs ==
    ASSUME NEW items, Surveyors(items), NEW chosen, NEW f \in Fields
    PROVE  LET values == Stated(f, Describing(Records(items), chosen))
           IN  Nothing \notin values /\ (f # "tag" => values \subseteq Nat)
  <1> DEFINE sources == Records(items)
             kept == Describing(sources, chosen)
  <1>1. DOMAIN sources = Surveys(items) /\ \A i \in Surveys(items) : sources[i] = Source[items[i].source].says
    BY DEF Records
  <1> HIDE DEF sources
  <1>2. DOMAIN kept \subseteq DOMAIN sources /\ \A i \in DOMAIN kept : kept[i] = sources[i]
    <2>1. kept = sources \/ kept = [i \in {i \in DOMAIN sources : sources[i]["tag"] \in {Nothing, chosen["tag"]}}
                                      |-> sources[i]]
      BY DEF Describing, Restrict
    <2> HIDE DEF kept
    <2>2. QED
      BY <2>1
  <1> HIDE DEF kept
  <1>3. \A i \in DOMAIN kept : f # "tag" => kept[i][f] \in Nat \cup {Nothing}
    <2> SUFFICES ASSUME NEW i \in DOMAIN kept, f # "tag" PROVE kept[i][f] \in Nat \cup {Nothing}
      OBVIOUS
    <2>1. i \in Surveys(items) /\ kept[i] = Source[items[i].source].says
      BY <1>1, <1>2
    <2>2. items[i].source \in DOMAIN Source
      BY <2>1 DEF Surveyors
    <2>3. QED
      BY <2>1, <2>2, SourceAssumption
  <1>4. Stated(f, kept) = {kept[i][f] : i \in DOMAIN kept} \ {Nothing}
    BY DEF Stated
  <1>5. Nothing \notin Stated(f, kept) /\ (f # "tag" => Stated(f, kept) \subseteq Nat)
    BY <1>3, <1>4
  <1>6. QED
    BY <1>5 DEF kept, sources

LEMMA DisputesRecorded ==
    ASSUME NEW all, Shape(all), NEW items, Surveyors(items)
    PROVE  LET after == WithDisputes(all, items)
               found == {Input(f) : f \in Disputes(Records(items), Chosen(all))}
           IN  /\ Shape(after)
               /\ DOMAIN after = DOMAIN all \cup found
               /\ \A k \in DOMAIN all : after[k] = all[k]
               /\ \A k \in DOMAIN after \ DOMAIN all : after[k].kind = "input" /\ after[k].status = "unresolved"
  <1> DEFINE chosen == Chosen(all)
             disputes == Disputes(Records(items), chosen)
             found == {Input(f) : f \in disputes}
             kept == Describing(Records(items), chosen)
             after == WithDisputes(all, items)
  <1>1. after = [k \in DOMAIN all \cup found |->
                   IF k \in DOMAIN all THEN all[k] ELSE Conflict("input", Impact(k[2]), Stated(k[2], kept))]
    BY DEF WithDisputes
  <1>2. \A k \in found : k[2] \in Fields /\ k = Input(k[2])
    BY DEF Disputes, Input
  <1> HIDE DEF found, kept, after
  <1>3. /\ DOMAIN after = DOMAIN all \cup found
        /\ after = [k \in DOMAIN after |-> after[k]]
        /\ \A k \in DOMAIN all : after[k] = all[k]
        /\ \A k \in found \ DOMAIN all : after[k] = Conflict("input", Impact(k[2]), Stated(k[2], kept))
    BY <1>1
  <1>4. \A k \in found \ DOMAIN all :
           Entry(k, after[k]) /\ after[k].kind = "input" /\ after[k].status = "unresolved"
    <2> SUFFICES ASSUME NEW k \in found \ DOMAIN all
                 PROVE  Entry(k, after[k]) /\ after[k].kind = "input" /\ after[k].status = "unresolved"
      OBVIOUS
    <2> DEFINE values == Stated(k[2], kept)
               c == Conflict("input", Impact(k[2]), values)
    <2>0. Nothing \notin values /\ (k[2] # "tag" => values \subseteq Nat)
      BY <1>2, StatedIs DEF kept
    <2> HIDE DEF values
    <2>1. /\ c.kind = "input" /\ c.impact = Impact(k[2]) /\ c.status = "unresolved" /\ c.values = values
          /\ c = [kind |-> c.kind, impact |-> c.impact, values |-> c.values, status |-> c.status, choice |-> c.choice]
      BY DEF Conflict
    <2>2. after[k] = c
      BY <1>3 DEF values
    <2> HIDE DEF c
    <2>3. QED
      BY <1>2, <2>0, <2>1, <2>2 DEF Entry
  <1>5. \A k \in DOMAIN all : Entry(k, after[k])
    BY <1>3 DEF Shape
  <1>6. Shape(after)
    BY <1>3, <1>4, <1>5 DEF Shape
  <1>7. QED
    BY <1>3, <1>4, <1>6 DEF found, after

LEMMA DisputesAdded ==
    ASSUME NEW all, Shape(all), NEW items, Surveyors(items), NEW after, after = WithDisputes(all, items)
    PROVE  /\ Shape(after)
           /\ \A k \in DOMAIN all : k \in DOMAIN after /\ after[k] = all[k]
           /\ \A k \in DOMAIN after \ DOMAIN all : after[k].kind = "input" /\ after[k].status = "unresolved"
  <1> DEFINE found == {Input(f) : f \in Disputes(Records(items), Chosen(all))}
  <1>1. /\ Shape(after) /\ DOMAIN after = DOMAIN all \cup found
        /\ \A k \in DOMAIN all : after[k] = all[k]
        /\ \A k \in DOMAIN after \ DOMAIN all : after[k].kind = "input" /\ after[k].status = "unresolved"
    BY DisputesRecorded
  <1> HIDE DEF found
  <1>2. QED
    BY <1>1

LEMMA ContradictionsRecorded ==
    ASSUME NEW all, Shape(all), NEW items
    PROVE  LET after == WithContradictions(all, items)
           IN  /\ Shape(after)
               /\ DOMAIN all \subseteq DOMAIN after
               /\ \A t \in Topics : Several(FactValues(items, t[1], t[2])) =>
                     t \in DOMAIN after \/ Input(t[2]) \in DOMAIN all
               /\ \A k \in DOMAIN all : after[k] = all[k]
               /\ \A k \in DOMAIN after \ DOMAIN all : after[k].kind = "fact" /\ after[k].status = "unresolved"
  <1> DEFINE found == {t \in Topics : Several(FactValues(items, t[1], t[2])) /\ Input(t[2]) \notin DOMAIN all}
             after == WithContradictions(all, items)
  <1>1. after = [k \in DOMAIN all \cup found |->
                   IF k \in DOMAIN all THEN all[k] ELSE Conflict("fact", "high", FactValues(items, k[1], k[2]))]
    BY DEF WithContradictions
  <1>2. found \subseteq Topics /\ \A t \in Topics :
           Several(FactValues(items, t[1], t[2])) => t \in found \/ Input(t[2]) \in DOMAIN all
    OBVIOUS
  <1> HIDE DEF found, after
  <1>3. /\ DOMAIN after = DOMAIN all \cup found
        /\ after = [k \in DOMAIN after |-> after[k]]
        /\ \A k \in DOMAIN all : after[k] = all[k]
        /\ \A k \in found \ DOMAIN all : after[k] = Conflict("fact", "high", FactValues(items, k[1], k[2]))
    BY <1>1
  <1>4. \A k \in found \ DOMAIN all :
           Entry(k, after[k]) /\ after[k].kind = "fact" /\ after[k].status = "unresolved"
    <2> SUFFICES ASSUME NEW k \in found \ DOMAIN all
                 PROVE  Entry(k, after[k]) /\ after[k].kind = "fact" /\ after[k].status = "unresolved"
      OBVIOUS
    <2> DEFINE c == Conflict("fact", "high", FactValues(items, k[1], k[2]))
    <2>1. /\ c.kind = "fact" /\ c.impact = "high" /\ c.status = "unresolved"
          /\ c = [kind |-> c.kind, impact |-> c.impact, values |-> c.values, status |-> c.status, choice |-> c.choice]
      BY DEF Conflict
    <2>2. after[k] = c
      BY <1>3
    <2> HIDE DEF c
    <2>3. QED
      BY <1>2, <2>1, <2>2 DEF Entry
  <1>5. \A k \in DOMAIN all : Entry(k, after[k])
    BY <1>3 DEF Shape
  <1>6. Shape(after)
    BY <1>3, <1>4, <1>5 DEF Shape
  <1>7. QED
    BY <1>2, <1>3, <1>4, <1>6 DEF after

Settled(all, k, value) == [all EXCEPT ![k].status = "resolved", ![k].choice = value]

LEMMA ChoiceRecorded ==
    ASSUME NEW all, Shape(all), NEW k \in DOMAIN all, NEW value,
           all[k].kind = "input" => value # Nothing /\ (k[2] # "tag" => value \in Nat)
    PROVE  LET after == Settled(all, k, value)
           IN  /\ Shape(after)
               /\ DOMAIN after = DOMAIN all
               /\ \A n \in DOMAIN all : after[n].kind = all[n].kind
               /\ \A n \in DOMAIN all \ {k} : after[n] = all[n]
               /\ after[k].status = "resolved" /\ after[k].choice = value
  <1> DEFINE c == [all[k] EXCEPT !.status = "resolved", !.choice = value]
             after == [all EXCEPT ![k].status = "resolved", ![k].choice = value]
  <1>1. all = [n \in DOMAIN all |-> all[n]]
    BY DEF Shape
  <1>2. all[k] = [kind |-> all[k].kind, impact |-> all[k].impact, values |-> all[k].values,
                  status |-> all[k].status, choice |-> all[k].choice]
    BY DEF Shape, Entry
  <1>3. c = [kind |-> all[k].kind, impact |-> all[k].impact, values |-> all[k].values,
             status |-> "resolved", choice |-> value]
    <2>1. PICK r : r = all[k]
      OBVIOUS
    <2>2. PICK kind, impact, values, before, none :
             /\ r = [kind |-> kind, impact |-> impact, values |-> values, status |-> before, choice |-> none]
             /\ kind = r.kind /\ impact = r.impact /\ values = r.values
      BY <1>2, <2>1
    <2>3. [r EXCEPT !.status = "resolved", !.choice = value] =
             [kind |-> kind, impact |-> impact, values |-> values, status |-> "resolved", choice |-> value]
      <3>1. PICK d : d = [r EXCEPT !.status = "resolved"]
        OBVIOUS
      <3>2. d = [kind |-> kind, impact |-> impact, values |-> values, status |-> "resolved", choice |-> none]
        BY <2>2, <3>1
      <3>3. [d EXCEPT !.choice = value] =
               [kind |-> kind, impact |-> impact, values |-> values, status |-> "resolved", choice |-> value]
        BY <3>2
      <3>4. [r EXCEPT !.status = "resolved", !.choice = value] = [d EXCEPT !.choice = value]
        BY <3>1, Zenon
      <3>5. QED
        BY <3>3, <3>4
    <2>4. c = [r EXCEPT !.status = "resolved", !.choice = value]
      BY <2>1
    <2> HIDE DEF c
    <2>5. QED
      BY <2>1, <2>2, <2>3, <2>4
  <1>4. after = [n \in DOMAIN all |-> IF n = k THEN c ELSE all[n]]
    BY <1>1
  <1>5. /\ c.kind = all[k].kind /\ c.impact = all[k].impact /\ c.values = all[k].values
        /\ c.status = "resolved" /\ c.choice = value
    BY <1>3
  <1> HIDE DEF c, after
  <1>6. /\ DOMAIN after = DOMAIN all /\ after = [n \in DOMAIN after |-> after[n]]
        /\ after[k] = c /\ \A n \in DOMAIN all \ {k} : after[n] = all[n]
    BY <1>4
  <1>7. Entry(k, c)
    BY <1>3, <1>5 DEF Shape, Entry
  <1>8. Shape(after)
    BY <1>6, <1>7 DEF Shape
  <1>9. QED
    BY <1>5, <1>6, <1>8 DEF after, Settled

(* Until a person chooses, every disagreement is open. *)
Recording == Shape(conflicts) /\ (stage # "done" => \A k \in DOMAIN conflicts : conflicts[k].status = "unresolved")

(* What a person chooses or enters is of the kind of the input. *)
LEMMA OfferedIs ==
    ASSUME Recording, NEW k \in DOMAIN conflicts, NEW value \in Offered(k)
    PROVE  conflicts[k].kind = "input" => value # Nothing /\ (k[2] # "tag" => value \in Nat)
  <1> SUFFICES ASSUME conflicts[k].kind = "input" PROVE value # Nothing /\ (k[2] # "tag" => value \in Nat)
    OBVIOUS
  <1>1. /\ k[2] \in Fields /\ Nothing \notin conflicts[k].values
        /\ (k[2] # "tag" => conflicts[k].values \subseteq Nat)
    BY DEF Recording, Shape, Entry
  <1>2. Nothing \notin Measured[k[2]] /\ (k[2] # "tag" => Measured[k[2]] \subseteq Nat)
    BY <1>1, SourceAssumption
  <1>3. value \in conflicts[k].values \cup Measured[k[2]]
    BY DEF Offered
  <1>4. QED
    BY <1>1, <1>2, <1>3

LEMMA RecordingInit == Init => Recording
  <1>1. ASSUME Init PROVE Recording
    <2>1. conflicts = <<>> /\ DOMAIN conflicts = {}
      BY <1>1 DEF Init
    <2>2. conflicts = [k \in DOMAIN conflicts |-> conflicts[k]]
      BY <2>1
    <2>3. QED
      BY <2>1, <2>2 DEF Recording, Shape
  <1>2. QED
    BY <1>1

LEMMA RecordingStep ==
    ASSUME PTypes, Running, Surveyors(evidence), Recording, [Next]_vars
    PROVE  Recording'
  <1>1. CASE UNCHANGED vars
    BY <1>1 DEF vars, Recording, Shape
  <1>2. CASE ResolveConflict
    <2>1. stage' = "done"
      BY <1>2, ChosenAtRest
    <2>2. PICK k \in DOMAIN conflicts : \E value \in Offered(k) : Resolve(k, value)
      BY <1>2 DEF ResolveConflict
    <2>3. PICK value \in Offered(k) : Resolve(k, value)
      BY <2>2
    <2> DEFINE settled == Settled(conflicts, k, value)
    <2>4. Shape(settled)
      BY OfferedIs, ChoiceRecorded DEF Recording
    <2> DEFINE decided == Append(evidence, Item("human", Nothing, LevelOf(evidence, Involved(k))))
    <2>5. conflicts' = settled \/ conflicts' = WithDisputes(settled, decided)
      BY <2>3 DEF Resolve, Settled
    <2>6. Surveyors(decided)
      BY ChoiceIsNoRecord
    <2> HIDE DEF settled, decided
    <2>7. Shape(conflicts')
      <3>1. Shape(WithDisputes(settled, decided))
        BY <2>4, <2>6, DisputesRecorded
      <3>2. QED
        BY <2>4, <2>5, <3>1
    <2>8. QED
      BY <2>1, <2>7 DEF Recording
  <1>3. CASE EngineerRecord
    <2>1. conflicts' = WithDisputes(conflicts, evidence) /\ stage # "done"
      BY <1>3 DEF EngineerRecord
    <2>2. Shape(conflicts) /\ \A k \in DOMAIN conflicts : conflicts[k].status = "unresolved"
      BY <2>1 DEF Recording
    <2> DEFINE after == WithDisputes(conflicts, evidence)
    <2>3. /\ Shape(after)
          /\ \A k \in DOMAIN conflicts : after[k] = conflicts[k]
          /\ \A k \in DOMAIN after \ DOMAIN conflicts : after[k].status = "unresolved"
      BY <2>2, DisputesRecorded
    <2> HIDE DEF after
    <2>4. conflicts' = after
      BY <2>1 DEF after
    <2>5. \A k \in DOMAIN after : after[k].status = "unresolved"
      BY <2>2, <2>3
    <2>6. QED
      BY <2>3, <2>4, <2>5 DEF Recording
  <1>4. CASE CompareFacts
    <2>1. conflicts' = WithContradictions(conflicts, evidence) /\ stage # "done"
      BY <1>4 DEF CompareFacts
    <2>2. Shape(conflicts) /\ \A k \in DOMAIN conflicts : conflicts[k].status = "unresolved"
      BY <2>1 DEF Recording
    <2> DEFINE after == WithContradictions(conflicts, evidence)
    <2>3. /\ Shape(after)
          /\ \A k \in DOMAIN conflicts : after[k] = conflicts[k]
          /\ \A k \in DOMAIN after \ DOMAIN conflicts : after[k].status = "unresolved"
      BY <2>2, ContradictionsRecorded
    <2> HIDE DEF after
    <2>4. conflicts' = after
      BY <2>1 DEF after
    <2>5. \A k \in DOMAIN after : after[k].status = "unresolved"
      BY <2>2, <2>3
    <2>6. QED
      BY <2>3, <2>4, <2>5 DEF Recording
  <1>5. CASE ReadImages \/ Plan \/ ReadFile \/ FilesRead \/ Retrieve \/ EngineerStated
               \/ NothingToEngineer \/ Maintain \/ WalkDrawing \/ NoDrawing \/ Screen \/ Code
    <2>1. conflicts' = conflicts /\ stage # "done"
      BY <1>5 DEF ReadImages, Plan, ReadFile, FilesRead, Retrieve, EngineerStated,
             NothingToEngineer, Maintain, WalkDrawing, NoDrawing, Screen, Code, gathered
    <2>2. QED
      BY <2>1 DEF Recording
  <1>6. CASE Reason \/ Verify \/ Draft \/ NoDraft \/ Gate \/ Settle \/ Converse \/ RequestStop \/ HonourStop
               \/ Fail
    <2>1. conflicts' = conflicts /\ stage # "done"
      BY <1>6 DEF Reason, Verify, Draft, NoDraft, Gate, Settle, Converse, RequestStop, HonourStop,
             LooksForStop, Fail, gathered
    <2>2. QED
      BY <2>1 DEF Recording
  <1>7. QED
    BY <1>1, <1>2, <1>3, <1>4, <1>5, <1>6 DEF Next

-----------------------------------------------------------------------------
(* What the verification report says of the answer. *)

Verified == stage \in {"draft", "gate", "settle"} \/ status \in {"awaiting_approval", "delivered"}

(* The report is on the answer as it stands, and on the record as it does. *)
Reported ==
    /\ verdicts = VerdictsOn(answer.claims, conflicts, assessment)
    /\ "claim_verification" \notin failed => \A v \in verdicts : ~ Blocking(v)
    /\ "engineering_verification" \notin failed => AgreesWithRegistry(answer.claims, assessment)

(* A conversation has no record and makes no claim. *)
Conversing == stage = "converse" => assessment = Nothing /\ conflicts = <<>> /\ verdicts = {}

ReportInv == (Verified => Reported) /\ Conversing

LEMMA FailedIs ==
    ASSUME NEW claims, NEW judged, NEW decided, NEW items
    PROVE  LET found == FailedOn(claims, judged, decided, items)
           IN  /\ "claim_verification" \notin found => \A v \in judged : ~ Blocking(v)
               /\ "engineering_verification" \notin found => AgreesWithRegistry(claims, decided)
  BY DEF FailedOn, Derived

LEMMA ReportStep ==
    ASSUME PTypes, Running, ReportInv, [Next]_vars
    PROVE  ReportInv'
  <1>1. CASE UNCHANGED vars
    BY <1>1 DEF vars, ReportInv, Verified, Reported, Conversing
  <1>2. CASE Verify
    <2>1. PICK doubts \in {{}} \cup {{c} : c \in Doubtful} :
             failed' = FailedOn(answer.claims, verdicts', assessment, evidence) \cup doubts
      BY <1>2 DEF Verify
    <2>2. /\ verdicts' = VerdictsOn(answer.claims, conflicts, assessment)
          /\ answer' = answer /\ conflicts' = conflicts /\ assessment' = assessment /\ stage' = "draft"
      BY <1>2 DEF Verify, gathered
    <2>3. QED
      BY <2>1, <2>2, FailedIs DEF ReportInv, Reported, Conversing
  <1>3. CASE ResolveConflict
    <2>1. PICK added, result, decided :
             /\ verdicts' = VerdictsOn(answer'.claims, conflicts', assessment')
             /\ failed' = (failed \ Derived) \cup FailedOn(answer'.claims, verdicts', assessment', evidence')
      BY <1>3 DEF ResolveConflict, Resolve
    <2>2. stage' = "done"
      BY <1>3, ChosenAtRest
    <2>3. QED
      BY <2>1, <2>2, FailedIs DEF ReportInv, Reported, Conversing
  <1>4. CASE Converse
    <2>1. PICK carried \in SUBSET profile.carries : answer' = Released({}, carried, profile.level)
      BY <1>4 DEF Converse
    <2>2. answer'.claims = {}
      BY <2>1 DEF Released
    <2>3. /\ verdicts' = {} /\ conflicts' = conflicts /\ assessment' = Nothing /\ stage' = "done"
      BY <1>4 DEF Converse, gathered, ReportInv, Conversing
    <2>4. verdicts' = VerdictsOn(answer'.claims, conflicts', assessment')
      BY <2>2, <2>3 DEF VerdictsOn
    <2>5. AgreesWithRegistry(answer'.claims, assessment')
      BY <2>2, <2>3 DEF AgreesWithRegistry, Calculated
    <2>6. QED
      BY <2>3, <2>4, <2>5 DEF ReportInv, Reported, Conversing
  <1>5. CASE Draft
    <2>1. /\ failed \subseteq failed' /\ stage' = "gate" /\ stage = "draft"
          /\ UNCHANGED <<answer, verdicts, conflicts, assessment>>
      BY <1>5 DEF Draft, gathered
    <2>2. QED
      BY <2>1 DEF ReportInv, Verified, Reported, Conversing
  <1>6. CASE NoDraft \/ Gate \/ Settle \/ RequestStop
    <2>1. /\ UNCHANGED <<answer, verdicts, conflicts, assessment, failed>>
          /\ Verified' => Verified
          /\ stage' = "converse" => stage = "converse"
      BY <1>6 DEF NoDraft, Gate, Settle, RequestStop, gathered, written, Verified
    <2>2. QED
      BY <2>1 DEF ReportInv, Reported, Conversing
  <1>7. CASE Reason \/ HonourStop \/ Fail
    <2>1. /\ stage' \in {"verify", "done"} /\ status' \notin {"awaiting_approval", "delivered"}
      BY <1>7 DEF Reason, HonourStop, Fail
    <2>2. QED
      BY <2>1 DEF ReportInv, Verified, Conversing
  <1>8. CASE ReadImages \/ Plan \/ ReadFile \/ FilesRead \/ Retrieve \/ EngineerRecord \/ EngineerStated
               \/ NothingToEngineer \/ Maintain \/ WalkDrawing \/ NoDrawing \/ CompareFacts \/ Screen \/ Code
    <2>1. /\ stage # "done" /\ stage' \notin {"draft", "gate", "settle", "converse", "done"}
          /\ status' \in {status, "executing", "planned", "retrieving"}
      BY <1>8 DEF ReadImages, Plan, ReadFile, FilesRead, Retrieve, EngineerRecord, EngineerStated,
             NothingToEngineer, Maintain, WalkDrawing, NoDrawing, CompareFacts, Screen, Code
    <2>2. QED
      BY <2>1 DEF ReportInv, Verified, Conversing, Running
  <1>9. QED
    BY <1>1, <1>2, <1>3, <1>4, <1>5, <1>6, <1>7, <1>8 DEF Next

LEMMA ReportInit == Init => ReportInv
  <1>1. ASSUME Init PROVE ReportInv
    <2>1. ~ Verified
      BY <1>1 DEF Init, Verified
    <2>2. Conversing
      BY <1>1 DEF Init, Conversing
    <2>3. QED
      BY <2>1, <2>2 DEF ReportInv
  <1>2. QED
    BY <1>1

LEMMA StandsUp == Recording /\ ReportInv => ValidAnswerStandsUp
  <1> SUFFICES ASSUME Recording, ReportInv, status \in {"awaiting_approval", "delivered"}, failed = {},
                      NEW c \in answer.claims
               PROVE  /\ c.says = "severity" =>
                            /\ OfKind(conflicts, "input") \cap Unresolved(conflicts) = {}
                            /\ SeverityOf(assessment) \in {Nothing, c.value}
                      /\ \A k \in Unresolved(conflicts) : ~ Takes(c, conflicts, k)
    BY DEF ValidAnswerStandsUp
  <1> DEFINE verdict == Verdict(c, conflicts, assessment)
             open == OfKind(conflicts, "input") \cap Unresolved(conflicts)
             facts == {k \in OfKind(conflicts, "fact") : conflicts[k].status = "unresolved"}
  <1>1. Reported
    BY DEF ReportInv, Verified
  <1>2. verdict # "CONFLICTED"
    <2>1. [claim |-> c, verdict |-> verdict] \in verdicts
      BY <1>1 DEF Reported, VerdictsOn
    <2>2. ~ Blocking([claim |-> c, verdict |-> verdict])
      BY <1>1, <2>1 DEF Reported
    <2> HIDE DEF verdict
    <2>3. QED
      BY <2>2 DEF Blocking
  <1>3. c.says # "disagreement" =>
           ~ (\/ c.says = "severity" /\ open # {}
              \/ \E k \in open \cup facts : Takes(c, conflicts, k))
    BY <1>2 DEF Verdict
  <1>4. c.says = "severity" => open = {}
    BY <1>3
  <1>5. c.says = "severity" => SeverityOf(assessment) \in {Nothing, c.value}
    <2>1. AgreesWithRegistry(answer.claims, assessment)
      BY <1>1 DEF Reported
    <2>2. QED
      BY <2>1 DEF AgreesWithRegistry, SeverityOf
  <1>6. ASSUME NEW k \in Unresolved(conflicts) PROVE ~ Takes(c, conflicts, k)
    <2>1. k \in DOMAIN conflicts /\ conflicts[k].status = "unresolved"
      BY DEF Unresolved
    <2>2. conflicts[k].kind \in {"input", "fact"}
      BY <2>1 DEF Recording, Shape, Entry
    <2>3. k \in open \cup facts
      BY <2>1, <2>2 DEF OfKind
    <2> HIDE DEF open, facts
    <2>4. Takes(c, conflicts, k) => c.says # "disagreement"
      BY <2>2 DEF Takes
    <2>5. QED
      BY <1>3, <2>3, <2>4
  <1>7. QED
    BY <1>4, <1>5, <1>6

(* What the sources disagree about is on the record, once. *)
THEOREM RecordKept == Spec => []Recording
  <1>1. PTypes /\ Running /\ Surveyors(evidence) /\ Recording /\ [Next]_vars => Recording'
    BY RecordingStep
  <1>2. QED
    BY RecordingInit, PipelineTyped, Surveying, <1>1, PTL DEF Spec

(* The report is on the answer and the record as they stand. *)
THEOREM ReportKept == Spec => []ReportInv
  <1>1. PTypes /\ Running /\ ReportInv /\ [Next]_vars => ReportInv'
    BY ReportStep
  <1>2. QED
    BY ReportInit, PipelineTyped, <1>1, PTL DEF Spec

(* An answer that stands verified concludes nothing from an input still in *)
(* dispute, nothing but what the registry calculated, and takes no side of *)
(* a disagreement that is open (claim_verdicts, _reverify).                *)
THEOREM ValidAnswer == Spec => []ValidAnswerStandsUp
  BY RecordKept, ReportKept, StandsUp, PTL

-----------------------------------------------------------------------------
(* The way of a run, stage by stage. *)

Order ==
    {<<"images", "plan">>, <<"plan", "files">>, <<"files", "retrieve">>, <<"retrieve", "engineer">>,
     <<"engineer", "maintain">>, <<"maintain", "topology">>, <<"topology", "facts">>, <<"facts", "screen">>,
     <<"screen", "code">>, <<"code", "reason">>, <<"reason", "verify">>, <<"verify", "draft">>,
     <<"draft", "gate">>, <<"gate", "settle">>}

LEMMA InOrder ==
    ASSUME Next, ~ ResolveConflict, stage' # "done"
    PROVE  /\ stage # "done"
           /\ stage' = stage \/ <<stage, stage'>> \in Order
           /\ files' = files
           /\ stage # "topology" => topology' = topology
  <1>0. stage # "done"
    BY AtRest
  <1>1. CASE ReadImages \/ Plan \/ ReadFile \/ FilesRead \/ Retrieve
    BY <1>0, <1>1 DEF ReadImages, Plan, ReadFile, FilesRead, Retrieve, Order, request, gathered
  <1>2. CASE EngineerRecord \/ EngineerStated \/ NothingToEngineer \/ Maintain \/ WalkDrawing \/ NoDrawing
               \/ CompareFacts \/ Screen \/ Code
    BY <1>0, <1>2 DEF EngineerRecord, EngineerStated, NothingToEngineer, Maintain, WalkDrawing, NoDrawing,
                      CompareFacts, Screen, Code, Order, request, gathered
  <1>3. CASE Reason \/ Verify \/ Draft \/ NoDraft \/ Gate
    BY <1>0, <1>3 DEF Reason, Verify, Draft, NoDraft, Gate, Order, request, gathered
  <1>4. CASE Settle \/ Converse \/ RequestStop \/ HonourStop \/ Fail
    BY <1>0, <1>4 DEF Settle, Converse, RequestStop, HonourStop, Fail, request, gathered
  <1>5. QED
    BY <1>1, <1>2, <1>3, <1>4 DEF Next

(* A run is asked at no less than the level of its attachments; one that   *)
(* asks for no document drafts none; only a conversation is conversed.     *)
Asked ==
    /\ \A s \in Attached : Source[s].level <= profile.level
    /\ ToSet(unread) \subseteq Attached
    /\ stage # "done" => (stage = "converse" <=> profile.kind = "conversation")
    /\ stage = "converse" => evidence = <<>>
    /\ ~ profile.deliverable => draft = Nothing

LEMMA AttachedType == PTypes => Attached \subseteq Papers
  <1> SUFFICES ASSUME PTypes PROVE Attached \subseteq Papers
    OBVIOUS
  <1>1. files.images \in Seq(Papers) /\ files.documents \in Seq(Papers)
    BY DEF PTypes, RunTypes
  <1>2. \A i \in DOMAIN files.images : files.images[i] \in Papers
    BY <1>1
  <1>3. \A i \in DOMAIN files.documents : files.documents[i] \in Papers
    BY <1>1
  <1>4. QED
    BY <1>2, <1>3 DEF Attached, ToSet

LEMMA TailSet == ASSUME NEW S, NEW s \in Seq(S), s # <<>> PROVE ToSet(Tail(s)) \subseteq ToSet(s)
  <1>1. /\ Tail(s) \in Seq(S) /\ Len(Tail(s)) = Len(s) - 1 /\ Len(s) \in Nat /\ DOMAIN s = 1..Len(s)
        /\ \A i \in 1..Len(Tail(s)) : Tail(s)[i] = s[i + 1]
    BY HeadTailProperties, LenProperties
  <1>2. DOMAIN Tail(s) = 1..Len(Tail(s))
    BY <1>1, LenProperties
  <1>3. \A i \in DOMAIN Tail(s) : i + 1 \in DOMAIN s /\ Tail(s)[i] = s[i + 1]
    BY <1>1, <1>2
  <1>4. QED
    BY <1>3 DEF ToSet

LEMMA AskedInit == Init => Asked
  <1> SUFFICES ASSUME Init PROVE Asked
    OBVIOUS
  <1>1. PTypes
    BY TypeInit
  <1>2. PICK asked \in Profiles :
           profile = [asked EXCEPT !.level = Highest({asked.level} \cup {Source[s].level : s \in Attached})]
    BY DEF Init
  <1> DEFINE levels == {asked.level} \cup {Source[s].level : s \in Attached}
  <1>3. asked \in Requests
    BY SourceAssumption
  <1>4. Attached \subseteq Papers
    BY <1>1, AttachedType
  <1>5. levels \in SUBSET Levels
    BY <1>3, <1>4, PaperType, SourceAssumption DEF Requests
  <1>6. \A n \in levels : n <= Highest(levels)
    BY <1>5, HighestLevel
  <1>7. \A s \in Attached : Source[s].level \in levels
    OBVIOUS
  <1> HIDE DEF levels
  <1>8. profile = [asked EXCEPT !.level = Highest(levels)]
    BY <1>2 DEF levels
  <1>9. profile.level = Highest(levels) /\ profile.kind = asked.kind
    BY <1>3, <1>8 DEF Requests
  <1>10. ToSet(unread) \subseteq Attached
    BY DEF Init, Attached
  <1>11. stage = "converse" <=> profile.kind = "conversation"
    BY DEF Init
  <1>12. evidence = <<>> /\ draft = Nothing
    BY DEF Init
  <1>13. QED
    BY <1>6, <1>7, <1>9, <1>10, <1>11, <1>12 DEF Asked

LEMMA AskedStep ==
    ASSUME PTypes, Running, Asked, [Next]_vars
    PROVE  Asked'
  <1>0. profile \in Requests /\ \A s \in Attached : Source[s].level \in Levels
    BY AttachedType, PaperType, SourceAssumption DEF PTypes, RunTypes
  <1>1. CASE UNCHANGED vars
    BY <1>1 DEF vars, Asked, Attached
  <1>2. CASE ResolveConflict
    <2>1. stage = "done" /\ stage' = "done" /\ UNCHANGED request /\ (draft = Nothing => draft' = draft)
      BY <1>2, ChosenAtRest DEF ResolveConflict, Resolve
    <2>2. QED
      BY <2>1 DEF Asked, Attached, request
  <1>3. CASE ReadFile
    <2>1. /\ ToSet(unread') \subseteq ToSet(unread)
          /\ UNCHANGED <<stage, profile, files, draft>> /\ stage = "files"
      BY <1>3, TailSet DEF ReadFile, written, PTypes, RunTypes
    <2>2. QED
      BY <2>1 DEF Asked, Attached
  <1>4. CASE Plan
    <2>1. /\ UNCHANGED <<files, unread, draft>> /\ stage = "plan" /\ stage' = "files"
          /\ \E code \in BOOLEAN : profile' = [profile EXCEPT !.code = @ \/ code]
      BY <1>4 DEF Plan, written
    <2>2. profile'.level = profile.level /\ profile'.kind = profile.kind /\ profile'.deliverable = profile.deliverable
      BY <1>0, <2>1 DEF Requests
    <2>3. QED
      BY <2>1, <2>2 DEF Asked, Attached
  <1>5. CASE Gate
    <2>1. /\ UNCHANGED <<files, unread, draft>> /\ stage = "gate" /\ stage' = "settle"
          /\ profile' = [profile EXCEPT !.level = RaisedLevel]
      BY <1>5 DEF Gate
    <2>2. profile'.level = RaisedLevel /\ profile'.kind = profile.kind /\ profile'.deliverable = profile.deliverable
      BY <1>0, <2>1 DEF Requests
    <2>3. RaisedLevel \in Levels /\ profile.level <= RaisedLevel
      BY RaisedIs
    <2>4. \A s \in Attached : Source[s].level <= profile'.level
      BY <1>0, <2>2, <2>3 DEF Asked, Levels, Requests
    <2>5. QED
      BY <2>1, <2>2, <2>4 DEF Asked, Attached
  <1>6. CASE Draft
    <2>1. UNCHANGED request /\ profile.deliverable /\ stage = "draft" /\ stage' = "gate"
      BY <1>6 DEF Draft
    <2>2. QED
      BY <2>1 DEF Asked, Attached, request
  <1>7. CASE ReadImages \/ FilesRead \/ Retrieve \/ EngineerRecord \/ EngineerStated \/ NothingToEngineer
               \/ Maintain \/ WalkDrawing \/ NoDrawing \/ CompareFacts \/ Screen \/ Code
    <2>1. UNCHANGED <<profile, files, unread, draft>> /\ stage \notin {"converse", "done"}
            /\ stage' \notin {"converse", "done"}
      BY <1>7 DEF ReadImages, FilesRead, Retrieve, EngineerRecord, EngineerStated, NothingToEngineer,
             Maintain, WalkDrawing, NoDrawing, CompareFacts, Screen, Code, request, written
    <2>2. QED
      BY <2>1 DEF Asked, Attached
  <1>8. CASE Reason \/ Verify \/ NoDraft \/ Settle \/ Converse \/ HonourStop \/ Fail
    <2>1. UNCHANGED <<profile, files, unread, draft>> /\ stage' # "converse"
            /\ (stage' # "done" => stage \notin {"converse", "done"})
      BY <1>8 DEF Reason, Verify, NoDraft, Settle, Converse, HonourStop, Fail, request, written
    <2>2. QED
      BY <2>1 DEF Asked, Attached
  <1>9. CASE RequestStop
    BY <1>9 DEF RequestStop, Asked, Attached, request, written, gathered
  <1>10. QED
    BY <1>1, <1>2, <1>3, <1>4, <1>5, <1>6, <1>7, <1>8, <1>9 DEF Next

-----------------------------------------------------------------------------
(* What a run rests on. *)

Original == {"vision_extraction", "uploaded_file", "knowledge_base", "topology"}

Undrawn == {"images", "plan", "files", "retrieve", "engineer", "maintain", "topology"}

Unscreened == Undrawn \cup {"facts", "screen"}

(* Everything an item holds came from a file, a passage or a drawing, and  *)
(* was filed no lower than it; once screened, it is flagged where its      *)
(* source addresses the model, and no lower than what its source carries.  *)
Sourced(item) ==
    /\ item.kind \in Original =>
          /\ item.source \in DOMAIN Source
          /\ Source[item.source].level <= item.level
          /\ item.kind = "topology" => /\ item.source \in Drawings
                                       /\ topology = Source[item.source].isolation
          /\ item.kind # "topology" => item.source \in Papers
          /\ item.kind \in {"vision_extraction", "uploaded_file"} => item.source \in Attached
          /\ stage \notin Unscreened =>
                /\ item.flagged = Source[item.source].instructs
                /\ \A d \in Source[item.source].carries : RaisesTo[d] <= item.level
    /\ item.source # Nothing =>
          \E i \in DOMAIN evidence : evidence[i].kind \in Original /\ evidence[i].source = item.source
    /\ stage \in Undrawn => item.kind # "topology"
    /\ stage \in Unscreened => item.scanned = FALSE

AllSourced == stage # "done" => \A i \in DOMAIN evidence : Sourced(evidence[i])

(* Screening and scanning keep an item what it is, and raise it as much as *)
(* its source asks.                                                        *)
LEMMA KeptItem ==
    ASSUME PTypes, Ledger, stage' = stage \/ <<stage, stage'>> \in Order, AllSourced, stage # "done",
           NEW i \in DOMAIN evidence
    PROVE  /\ i \in DOMAIN evidence'
           /\ evidence'[i].kind = evidence[i].kind /\ evidence'[i].source = evidence[i].source
           /\ evidence[i].level <= evidence'[i].level
           /\ stage \in Unscreened /\ stage' \in Unscreened => evidence'[i].scanned = FALSE
           /\ evidence[i].kind \in Original /\ stage' \notin Unscreened =>
                 /\ evidence'[i].flagged = Source[evidence[i].source].instructs
                 /\ \A d \in Source[evidence[i].source].carries : RaisesTo[d] <= evidence'[i].level
  <1> DEFINE old == evidence[i]
             new == evidence'[i]
  <1>1. old \in Items /\ Sourced(old)
    BY ItemAt DEF PTypes, AllSourced
  <1>2. Screened(old) \in Items
    BY <1>1, ScreenedType
  <1>3. /\ i \in DOMAIN evidence'
        /\ \/ new = old /\ (stage = "screen" => stage' = "screen")
           \/ stage = "screen" /\ stage' = "code" /\ new = Scanned(Screened(old))
           \/ stage = "code" /\ new = Scanned(old)
    BY DEF Ledger
  <1> HIDE DEF new
  <1>4. CASE new = old /\ (stage = "screen" => stage' = "screen")
    <2>1. stage' \notin Unscreened => stage \notin Unscreened
      BY <1>4 DEF Unscreened, Undrawn, Order
    <2>2. old.level <= new.level
      BY <1>1, <1>4 DEF Items, Levels
    <2>3. QED
      BY <1>1, <1>3, <1>4, <2>1, <2>2 DEF Sourced, new
  <1>5. CASE stage = "screen" /\ stage' = "code" /\ new = Scanned(Screened(old))
    <2>1. /\ Screened(old).kind = old.kind /\ Screened(old).source = old.source
          /\ Screened(old).level = old.level /\ Screened(old).scanned = FALSE
          /\ Screened(old).flagged <=> /\ old.kind \notin {"computation", "human"} /\ old.source # Nothing
                                       /\ Source[old.source].instructs
      BY <1>1, <1>5, ScreenedType DEF Sourced, Unscreened
    <2>2. /\ new.kind = old.kind /\ new.source = old.source /\ new.flagged = Screened(old).flagged
          /\ old.level <= new.level
          /\ \A d \in Carried(Screened(old)) : RaisesTo[d] <= new.level
      BY <1>2, <1>5, <2>1, ScannedType
    <2>3. ASSUME old.kind \in Original
          PROVE  /\ new.flagged = Source[old.source].instructs
                 /\ \A d \in Source[old.source].carries : RaisesTo[d] <= new.level
      <3>1. old.source \in DOMAIN Source /\ old.source # Nothing
        BY <1>1, <2>3, SourceAssumption DEF Sourced
      <3>2. Carried(Screened(old)) = Source[old.source].carries
        BY <2>1, <3>1 DEF Carried
      <3>3. Screened(old).flagged \in BOOLEAN /\ Source[old.source].instructs \in BOOLEAN
        BY <1>2, <3>1, SourceAssumption DEF Items
      <3>4. Screened(old).flagged = Source[old.source].instructs
        BY <2>1, <2>3, <3>1, <3>3 DEF Original
      <3>5. QED
        BY <2>2, <3>2, <3>4
    <2>4. stage' \notin Unscreened
      BY <1>5 DEF Unscreened, Undrawn
    <2>5. QED
      BY <1>3, <1>5, <2>2, <2>3, <2>4 DEF new
  <1>6. CASE stage = "code" /\ new = Scanned(old)
    <2>1. /\ new.kind = old.kind /\ new.source = old.source /\ new.flagged = old.flagged
          /\ old.level <= new.level /\ new \in Items
      BY <1>1, <1>6, ScannedType
    <2>2. stage \notin Unscreened
      BY <1>6 DEF Unscreened, Undrawn
    <2>3. ASSUME old.kind \in Original
          PROVE  /\ new.flagged = Source[old.source].instructs
                 /\ \A d \in Source[old.source].carries : RaisesTo[d] <= new.level
      <3>1. /\ old.flagged = Source[old.source].instructs /\ old.source \in DOMAIN Source
            /\ \A d \in Source[old.source].carries : RaisesTo[d] <= old.level
        BY <1>1, <2>2, <2>3 DEF Sourced
      <3>2. \A d \in Source[old.source].carries : RaisesTo[d] \in Levels
        BY <3>1, SourceAssumption, PipelineAssumption
      <3>3. old.level \in Levels /\ new.level \in Levels
        BY <1>1, <2>1 DEF Items
      <3>4. QED
        BY <2>1, <3>1, <3>2, <3>3 DEF Levels
    <2>4. QED
      BY <1>3, <2>1, <2>2, <2>3 DEF new
  <1>7. QED
    BY <1>3, <1>4, <1>5, <1>6

LEMMA SourcedStep ==
    ASSUME PTypes, Running, Asked, AllSourced, [Next]_vars
    PROVE  AllSourced'
  <1>1. CASE UNCHANGED vars
    BY <1>1 DEF vars, AllSourced, Sourced, Attached
  <1>2. CASE ResolveConflict
    BY <1>2, ChosenAtRest DEF AllSourced
  <1>3. ASSUME Next, ~ ResolveConflict, stage' # "done" PROVE AllSourced'
    <2>1. Ledger
      BY <1>3, LedgerGrows
    <2>2. /\ stage # "done" /\ (stage' = stage \/ <<stage, stage'>> \in Order)
          /\ Attached' = Attached /\ (stage # "topology" => topology' = topology)
      BY <1>3, InOrder DEF Attached
    <2>3. /\ stage' \in Undrawn => stage \in Undrawn
          /\ stage' \in Unscreened => stage \in Unscreened
          /\ stage = "topology" => stage \in Undrawn
      BY <2>2 DEF Order, Unscreened, Undrawn
    <2>4. \A i \in DOMAIN evidence : Sourced(evidence[i]) /\ evidence[i] \in Items
      BY <2>2, ItemAt DEF AllSourced, PTypes
    <2>5. \A i \in DOMAIN evidence :
             /\ i \in DOMAIN evidence'
             /\ evidence'[i].kind = evidence[i].kind /\ evidence'[i].source = evidence[i].source
      BY <2>1, <2>2, KeptItem
    <2>6. \A s : (\E j \in DOMAIN evidence : evidence[j].kind \in Original /\ evidence[j].source = s) =>
                 (\E j \in DOMAIN evidence' : evidence'[j].kind \in Original /\ evidence'[j].source = s)
      BY <2>5
    <2>7. ASSUME NEW i \in DOMAIN evidence PROVE Sourced(evidence[i])'
      <3> DEFINE old == evidence[i]
                 new == evidence'[i]
      <3>1. /\ new.kind = old.kind /\ new.source = old.source /\ old.level <= new.level
            /\ stage \in Unscreened /\ stage' \in Unscreened => new.scanned = FALSE
            /\ old.kind \in Original /\ stage' \notin Unscreened =>
                  /\ new.flagged = Source[old.source].instructs
                  /\ \A d \in Source[old.source].carries : RaisesTo[d] <= new.level
        BY <2>1, <2>2, KeptItem
      <3>2. old.level \in Levels /\ new.level \in Levels
        <4>1. i \in DOMAIN evidence' /\ evidence' \in Seq(Items)
          BY <1>3, <2>5, EvidenceStep
        <4>2. evidence'[i] \in Items
          BY <4>1, ItemAt
        <4>3. QED
          BY <2>4, <4>2 DEF Items
      <3>3. Sourced(old)
        BY <2>4
      <3> HIDE DEF old, new
      <3>4. old.kind \in Original =>
              /\ new.source \in DOMAIN Source
              /\ Source[new.source].level <= new.level
              /\ new.kind = "topology" => new.source \in Drawings /\ topology' = Source[new.source].isolation
              /\ new.kind # "topology" => new.source \in Papers
              /\ new.kind \in {"vision_extraction", "uploaded_file"} => new.source \in Attached
        <4>1. ASSUME old.kind \in Original PROVE Source[old.source].level \in Levels
          BY <3>3, <4>1, SourceAssumption DEF Sourced
        <4>2. old.kind = "topology" => topology' = topology
          BY <2>2, <2>3, <3>3 DEF Sourced
        <4>3. QED
          BY <3>1, <3>2, <3>3, <4>1, <4>2 DEF Sourced, Levels
      <3>5. new.source # Nothing =>
              \E j \in DOMAIN evidence' : evidence'[j].kind \in Original /\ evidence'[j].source = new.source
        BY <2>6, <3>1, <3>3 DEF Sourced
      <3>6. stage' \in Undrawn => new.kind # "topology"
        BY <2>3, <3>1, <3>3 DEF Sourced
      <3>7. QED
        BY <2>2, <2>3, <3>1, <3>4, <3>5, <3>6 DEF Sourced, old, new
    <2>8. ASSUME NEW i \in DOMAIN evidence' \ DOMAIN evidence PROVE Sourced(evidence[i])'
      <3> DEFINE new == evidence'[i]
      <3>1. Gathered(new)
        BY <2>1, <2>8 DEF Ledger
      <3>2. new.source \in Papers => new.source \in DOMAIN Source /\ new.source # Nothing
        BY PaperType, SourceAssumption
      <3>3. new.source \in ToSet(files.images) => new.source \in Attached /\ Source[new.source].level <= profile.level
        BY DEF Asked, Attached
      <3>4. new.source \in ToSet(unread) => new.source \in Attached
        BY DEF Asked
      <3>5. new.source \in DOMAIN Source => Source[new.source].level <= Source[new.source].level
        BY SourceAssumption DEF Levels
      <3> HIDE DEF new
      <3>6. new.kind \in Original =>
              /\ new.source \in DOMAIN Source
              /\ Source[new.source].level <= new.level
              /\ new.kind = "topology" => new.source \in Drawings /\ topology' = Source[new.source].isolation
              /\ new.kind # "topology" => new.source \in Papers
              /\ new.kind \in {"vision_extraction", "uploaded_file"} => new.source \in Attached
              /\ stage \in Unscreened
              /\ stage = "topology" => stage' = "facts"
        <4>1. new.source \in Drawings => new.source \in DOMAIN Source
          BY SourceAssumption
        <4>2. QED
          BY <3>1, <3>2, <3>3, <3>4, <3>5, <4>1 DEF Gathered, Original, Unscreened, Undrawn
      <3>7. new.kind \in Original => stage \notin {"screen", "code", "facts"} /\ stage' \in Unscreened
        BY <2>2, <3>1 DEF Gathered, Original, Order, Unscreened, Undrawn
      <3>8. new.source # Nothing =>
              \E j \in DOMAIN evidence' : evidence'[j].kind \in Original /\ evidence'[j].source = new.source
        <4>1. CASE new.kind \in Original
          BY <4>1 DEF new
        <4>2. CASE new.kind \notin Original /\ new.source # Nothing
          <5>1. \E j \in DOMAIN evidence : evidence[j].source = new.source
            BY <3>1, <4>2 DEF Gathered, Original
          <5>2. \E j \in DOMAIN evidence : evidence[j].kind \in Original /\ evidence[j].source = new.source
            BY <2>4, <4>2, <5>1 DEF Sourced
          <5>3. QED
            BY <2>6, <5>2
        <4>3. QED
          BY <4>1, <4>2
      <3>9. /\ stage' \in Undrawn => new.kind # "topology"
            /\ stage' \in Unscreened => new.scanned = FALSE
        BY <2>2, <3>1 DEF Gathered, Undrawn, Unscreened, Order
      <3>10. QED
        BY <2>2, <3>6, <3>7, <3>8, <3>9 DEF Sourced, new
    <2>9. QED
      BY <2>7, <2>8 DEF AllSourced
  <1>4. stage' = "done" => AllSourced'
    BY DEF AllSourced
  <1>5. QED
    BY <1>1, <1>2, <1>3, <1>4

(* Every source a run used is that of an item it gathered. *)
LEMMA UsedIsSourced ==
    ASSUME PTypes, AllSourced, stage # "done", NEW s \in Used
    PROVE  \E i \in DOMAIN evidence : evidence[i].kind \in Original /\ evidence[i].source = s
  <1>1. PICK i \in DOMAIN evidence : evidence[i].source = s /\ s # Nothing
    BY DEF Used
  <1>2. QED
    BY <1>1 DEF AllSourced, Sourced

-----------------------------------------------------------------------------
(* Merging and assessing. *)

LEMMA LowestIn ==
    ASSUME NEW some \in SUBSET Nat, some # {}
    PROVE  Min(some) \in some
  <1>1. PICK n \in some : \A m \in some : ~ (<<m, n>> \in OpToRel(<, Nat))
    BY NatLessThanWellFounded, WFMin
  <1>2. ASSUME NEW m \in some PROVE n <= m
    <2>1. ~ (m < n)
      BY <1>1 DEF OpToRel
    <2>2. QED
      BY <2>1
  <1>3. QED
    BY <1>2 DEF Min

(* What is first stated is stated. *)
LEMMA FirstStatedIs ==
    ASSUME NEW f, NEW sources, DOMAIN sources \subseteq Nat
    PROVE  IF Stated(f, sources) = {} THEN FirstStated(f, sources) = Nothing
           ELSE FirstStated(f, sources) \in Stated(f, sources)
  <1> DEFINE where == {i \in DOMAIN sources : sources[i][f] # Nothing}
  <1>1. FirstStated(f, sources) = IF where = {} THEN Nothing ELSE sources[Min(where)][f]
    BY DEF FirstStated
  <1>2. Stated(f, sources) = {sources[i][f] : i \in where}
    BY DEF Stated
  <1>3. where \subseteq Nat /\ where \subseteq DOMAIN sources
    OBVIOUS
  <1> HIDE DEF where
  <1>4. CASE where = {}
    BY <1>1, <1>2, <1>4
  <1>5. CASE where # {}
    <2>1. Min(where) \in where
      BY <1>3, <1>5, LowestIn
    <2>2. QED
      BY <1>1, <1>2, <1>5, <2>1
  <1>6. QED
    BY <1>4, <1>5

LEMMA AssessType ==
    ASSUME NEW sources, NEW chosen
    PROVE  /\ Assess(sources, chosen) \in Assessments \cup {Nothing}
           /\ Assess(sources, chosen) # Nothing <=> Found(Merged(sources, chosen))
  <1> DEFINE inputs == Merged(sources, chosen)
  <1>1. \A name \in {"calculated", "conflicted", "cannot_calculate"} : Unassessed(name) \in Assessments
    BY DEF Unassessed, Assessments
  <1>2. AssessVessel(inputs) \in Assessments
    <2>1. CASE Incomplete(inputs)
      BY <1>1, <2>1 DEF AssessVessel
    <2>2. CASE ~ Incomplete(inputs)
      <3> DEFINE below == {l \in Readings : inputs[l] # Nothing /\ BelowTMin(inputs, l)}
                 life == Life(inputs, Governing(inputs))
      <3> HIDE DEF inputs
      <3>1. VesselSeverity(below, life) \in {"high", "medium", "low"}
        BY DEF VesselSeverity
      <3>2. SurveyMonths(below, life) \in Nat \cup {Nothing}
        <4>1. Months \in Nat /\ Months \div 2 \in Nat
          BY IntegrityAssumption
        <4>2. QED
          BY <4>1 DEF SurveyMonths
      <3>3. Withdrawn(below, life) \in BOOLEAN
        BY DEF Withdrawn
      <3>4. QED
        BY <2>2, <3>1, <3>2, <3>3 DEF AssessVessel, Assessments
    <2>3. QED
      BY <2>1, <2>2
  <1>3. Nothing \notin Assessments
    BY NothingAssumption
  <1>4. Assess(sources, chosen) = CASE ~ Found(inputs) -> Nothing
          [] Found(inputs) /\ \E f \in Disputes(sources, chosen) : Impact(f) = "high" -> Unassessed("conflicted")
          [] OTHER -> AssessVessel(inputs)
    BY DEF Assess
  <1> HIDE DEF inputs
  <1>5. /\ Assess(sources, chosen) \in Assessments \cup {Nothing}
        /\ Assess(sources, chosen) # Nothing <=> Found(inputs)
    BY <1>1, <1>2, <1>3, <1>4
  <1>6. QED
    BY <1>5 DEF inputs

LEMMA RecordsAre ==
    ASSUME NEW items \in Seq(Items)
    PROVE  /\ DOMAIN Records(items) = Surveys(items) /\ Surveys(items) \subseteq Nat
           /\ \A i \in Surveys(items) : Records(items)[i] = Source[items[i].source].says
  BY DEF Records, Surveys

-----------------------------------------------------------------------------
(* What the run notices of its sources. *)

Compared == {"screen", "code", "reason", "verify", "draft", "gate", "settle"}

Past == {"maintain", "topology", "facts"} \cup Compared

Differ ==
    \E s, t \in Read : \E f \in Fields \ RecordedOnly :
        /\ Nothing \notin {Source[s].says[f], Source[t].says[f]}
        /\ Source[s].says[f] # Source[t].says[f]

Noticed ==
    /\ stage \in Past /\ Surveyed /\ Differ => Unresolved(conflicts) # {}
    /\ stage \in Compared /\ (\E s, t \in Used \ Drawings : Contradict(s, t)) => Unresolved(conflicts) # {}

(* Before a person has chosen anything, what matters is open. *)
LEMMA OpenIs ==
    ASSUME Recording, stage # "done", NEW k \in DOMAIN conflicts,
           conflicts[k].kind = "fact" \/ k[2] \notin RecordedOnly
    PROVE  k \in Unresolved(conflicts)
  <1>1. conflicts[k].status = "unresolved" /\ Entry(k, conflicts[k])
    BY DEF Recording, Shape
  <1>2. conflicts[k].impact = "high"
    BY <1>1 DEF Entry, Impact
  <1>3. QED
    BY <1>1, <1>2 DEF Unresolved

LEMMA OpenStays ==
    ASSUME Surveyors(evidence), Recording, Next, ~ ResolveConflict, stage # "done"
    PROVE  \A k \in DOMAIN conflicts : k \in DOMAIN conflicts' /\ conflicts'[k] = conflicts[k]
  <1>0. Shape(conflicts)
    BY DEF Recording
  <1>1. CASE EngineerRecord
    <2>1. conflicts' = WithDisputes(conflicts, evidence)
      BY <1>1 DEF EngineerRecord
    <2> DEFINE after == WithDisputes(conflicts, evidence)
    <2>2. \A k \in DOMAIN conflicts : k \in DOMAIN after /\ after[k] = conflicts[k]
      BY <1>0, DisputesAdded
    <2> HIDE DEF after
    <2>3. QED
      BY <2>1, <2>2 DEF after
  <1>2. CASE CompareFacts
    <2>1. conflicts' = WithContradictions(conflicts, evidence)
      BY <1>2 DEF CompareFacts
    <2> DEFINE after == WithContradictions(conflicts, evidence)
    <2>2. \A k \in DOMAIN conflicts : k \in DOMAIN after /\ after[k] = conflicts[k]
      BY <1>0, ContradictionsRecorded
    <2> HIDE DEF after
    <2>3. QED
      BY <2>1, <2>2 DEF after
  <1>3. CASE ReadImages \/ Plan \/ ReadFile \/ FilesRead \/ Retrieve \/ EngineerStated
               \/ NothingToEngineer \/ Maintain \/ WalkDrawing \/ NoDrawing \/ Screen \/ Code
    BY <1>3 DEF ReadImages, Plan, ReadFile, FilesRead, Retrieve, EngineerStated,
           NothingToEngineer, Maintain, WalkDrawing, NoDrawing, Screen, Code, gathered
  <1>4. CASE Reason \/ Verify \/ Draft \/ NoDraft \/ Gate \/ Settle \/ Converse \/ RequestStop \/ HonourStop
               \/ Fail
    BY <1>4 DEF Reason, Verify, Draft, NoDraft, Gate, Settle, Converse, RequestStop, HonourStop, Fail, gathered
  <1>5. QED
    BY <1>1, <1>2, <1>3, <1>4 DEF Next

(* No record is read once the formulas have run, and no source is used     *)
(* that was not compared.                                                  *)
LEMMA NoMoreRead ==
    ASSUME PTypes, AllSourced, Next, ~ ResolveConflict, stage' # "done"
    PROVE  /\ stage \in Past \cup {"engineer"} => Read' \subseteq Read
           /\ stage \in Compared \cup {"facts"} => Used' \subseteq Used
  <1>1. Ledger /\ stage # "done" /\ (stage' = stage \/ <<stage, stage'>> \in Order)
    BY LedgerGrows, InOrder
  <1>2. \A i \in DOMAIN evidence :
           evidence'[i].kind = evidence[i].kind /\ evidence'[i].source = evidence[i].source
    BY <1>1, KeptItem
  <1>3. \A i \in DOMAIN evidence' \ DOMAIN evidence : Gathered(evidence'[i])
    BY <1>1 DEF Ledger
  <1>4. ASSUME stage \in Past \cup {"engineer"}, NEW i \in DOMAIN evidence',
               evidence'[i].kind \in {"uploaded_file", "vision_extraction"}
        PROVE  i \in DOMAIN evidence
    BY <1>3, <1>4 DEF Gathered, Past, Compared
  <1>5. ASSUME stage \in Compared \cup {"facts"}, NEW i \in DOMAIN evidence' \ DOMAIN evidence
        PROVE  evidence'[i].source \in Used \cup {Nothing}
    BY <1>3, <1>5 DEF Gathered, Compared, Used
  <1>6. stage \in Past \cup {"engineer"} => Read' \subseteq Read
    BY <1>2, <1>4 DEF Read
  <1>7. stage \in Compared \cup {"facts"} => Used' \subseteq Used
    <2>1. \A i \in DOMAIN evidence : evidence'[i].source \in Used \cup {Nothing}
      BY <1>2 DEF Used
    <2>2. QED
      BY <1>5, <2>1 DEF Used
  <1>8. QED
    BY <1>6, <1>7

(* Records that differ are a dispute of the formulas' inputs, and enough   *)
(* of them is assessed.                                                    *)
LEMMA DisputeFound ==
    ASSUME PTypes, Recording, stage # "done", NEW f \in Fields, NEW s \in Read, NEW t \in Read,
           Nothing \notin {Source[s].says[f], Source[t].says[f]}, Source[s].says[f] # Source[t].says[f]
    PROVE  f \in Disputes(Records(evidence), Chosen(conflicts))
  <1>1. DOMAIN Chosen(conflicts) = {}
    BY DEF Recording, Chosen, OfKind
  <1>2. Describing(Records(evidence), Chosen(conflicts)) = Records(evidence)
    BY <1>1 DEF Describing
  <1>3. PICK i \in Surveys(evidence), j \in Surveys(evidence) : evidence[i].source = s /\ evidence[j].source = t
    BY DEF Read, Surveys
  <1>4. Records(evidence)[i] = Source[s].says /\ Records(evidence)[j] = Source[t].says
          /\ DOMAIN Records(evidence) = Surveys(evidence)
    BY <1>3, RecordsAre DEF PTypes
  <1> DEFINE sources == Records(evidence)
             values == Stated(f, sources)
  <1> HIDE DEF sources
  <1>5. Source[s].says[f] \in values /\ Source[t].says[f] \in values
    BY <1>3, <1>4 DEF Stated, sources
  <1> HIDE DEF values
  <1>6. Several(values)
    BY <1>5 DEF Several
  <1>7. QED
    BY <1>1, <1>2, <1>6 DEF Disputes, sources, values

LEMMA SurveyedIsAssessed ==
    ASSUME PTypes, AllSourced, stage # "done", Surveyed
    PROVE  Recorded # Nothing
  <1> DEFINE sources == Records(evidence)
             none == <<>>
             inputs == Merged(sources, none)
  <1>1. PICK s \in Read : \E l \in Readings : Source[s].says[l] # Nothing
    BY DEF Surveyed
  <1>2. PICK l \in Readings : Source[s].says[l] # Nothing
    BY <1>1
  <1>3. PICK t \in Read, f \in {"nominal", "t_min"} : Source[t].says[f] # Nothing
    BY DEF Surveyed
  <1>4. /\ DOMAIN sources = Surveys(evidence) /\ Surveys(evidence) \subseteq Nat
        /\ \A i \in Surveys(evidence) : sources[i] = Source[evidence[i].source].says
    BY RecordsAre DEF PTypes
  <1>5. Read = {evidence[i].source : i \in Surveys(evidence)}
    BY DEF Read, Surveys
  <1> HIDE DEF sources
  <1>6. \A u \in Read : \A g : Source[u].says[g] # Nothing => Stated(g, sources) # {}
    <2> SUFFICES ASSUME NEW u \in Read, NEW g, Source[u].says[g] # Nothing
                 PROVE  Stated(g, sources) # {}
      OBVIOUS
    <2>1. PICK i \in Surveys(evidence) : evidence[i].source = u
      BY <1>5
    <2>2. i \in DOMAIN sources /\ sources[i][g] = Source[u].says[g]
      BY <1>4, <2>1
    <2>3. Source[u].says[g] \in Stated(g, sources)
      BY <2>2 DEF Stated
    <2>4. QED
      BY <2>3
  <1>7. \A g : Nothing \notin Stated(g, sources)
    BY DEF Stated
  <1>8. DOMAIN none = {}
    OBVIOUS
  <1> HIDE DEF none
  <1>9. \A g \in Fields : inputs[g] = FirstStated(g, sources)
    BY <1>8 DEF Merged, Taken, Describing
  <1> HIDE DEF inputs
  <1>10. FirstStated(l, sources) # Nothing /\ FirstStated(f, sources) # Nothing
    <2>1. Stated(l, sources) # {} /\ Stated(f, sources) # {}
      BY <1>2, <1>3, <1>6
    <2>2. DOMAIN sources \subseteq Nat
      BY <1>4
    <2>3. QED
      BY <1>7, <2>1, <2>2, FirstStatedIs
  <1>11. Found(inputs)
    BY <1>2, <1>9, <1>10 DEF Found, Fields
  <1>12. Assess(sources, none) # Nothing
    BY <1>11, AssessType DEF inputs
  <1>13. Attached # {}
    <2>1. PICK i \in DOMAIN evidence : evidence[i].kind \in {"uploaded_file", "vision_extraction"}
      BY <1>5 DEF Surveys
    <2>2. evidence[i].source \in Attached
      BY <2>1 DEF AllSourced, Sourced, Original
    <2>3. QED
      BY <2>2
  <1>14. QED
    BY <1>12, <1>13 DEF Recorded, sources, none

(* What sources that contradict each other say is on the record. *)
LEMMA ContradictionFound ==
    ASSUME PTypes, AllSourced, stage # "done", NEW s \in Used \ Drawings, NEW t \in Used \ Drawings,
           NEW f \in Source[s].facts, NEW g \in Source[t].facts,
           Source[s].active, Source[t].active,
           f.subject = g.subject, f.attribute = g.attribute, f.value # g.value,
           \A h \in Source[s].facts : <<h.subject, h.attribute>> = <<f.subject, f.attribute>> => h = f,
           \A h \in Source[t].facts : <<h.subject, h.attribute>> = <<f.subject, f.attribute>> => h = g
    PROVE  /\ <<f.subject, f.attribute>> \in Topics
           /\ Several(FactValues(evidence, f.subject, f.attribute))
  <1> DEFINE subject == f.subject
             attribute == f.attribute
             bearing == {evidence[i].source : i \in
                           {i \in DOMAIN evidence :
                               /\ evidence[i].kind \in {"knowledge_base", "uploaded_file", "vision_extraction"}
                               /\ Source[evidence[i].source].active}}
  <1>1. \A u \in Used \ Drawings : Source[u].active => u \in bearing /\ u \in DOMAIN Source
    <2> SUFFICES ASSUME NEW u \in Used \ Drawings, Source[u].active PROVE u \in bearing /\ u \in DOMAIN Source
      OBVIOUS
    <2>1. PICK i \in DOMAIN evidence : evidence[i].kind \in Original /\ evidence[i].source = u
      BY UsedIsSourced
    <2>2. Sourced(evidence[i])
      BY DEF AllSourced
    <2>3. QED
      BY <2>1, <2>2 DEF Sourced, Original
  <1>2. Says(s, subject, attribute) = {f.value} /\ Says(t, subject, attribute) = {g.value}
    <2>1. \A h \in Source[s].facts : h.subject = subject /\ h.attribute = attribute => h = f
      OBVIOUS
    <2>2. \A h \in Source[t].facts : h.subject = subject /\ h.attribute = attribute => h = g
      OBVIOUS
    <2>3. QED
      BY <2>1, <2>2 DEF Says
  <1>3. \A u \in bearing : ~ Several(Says(u, subject, attribute)) => u \in Witnesses(evidence, subject, attribute)
    BY DEF Witnesses
  <1> HIDE DEF bearing, subject, attribute
  <1>4. s \in Witnesses(evidence, subject, attribute) /\ t \in Witnesses(evidence, subject, attribute)
    BY <1>1, <1>2, <1>3 DEF Several
  <1>5. f.value \in FactValues(evidence, subject, attribute) /\ g.value \in FactValues(evidence, subject, attribute)
    BY <1>2, <1>4 DEF FactValues
  <1>6. Several(FactValues(evidence, subject, attribute))
    BY <1>5 DEF Several
  <1>7. <<f.subject, f.attribute>> \in Topics
    BY <1>1 DEF Topics
  <1>8. QED
    BY <1>6, <1>7 DEF subject, attribute

LEMMA NoticedStep ==
    ASSUME PTypes, Running, Surveyors(evidence), Recording, Asked, AllSourced, Noticed, [Next]_vars
    PROVE  Noticed'
  <1>1. CASE UNCHANGED vars
    BY <1>1 DEF vars, Noticed, Surveyed, Differ, Read, Used, Contradict, Unresolved
  <1>2. CASE stage' = "done"
    BY <1>2 DEF Noticed, Past, Compared
  <1>3. ASSUME Next, ~ ResolveConflict, stage' # "done" PROVE Noticed'
    <2>1. stage # "done" /\ (stage' = stage \/ <<stage, stage'>> \in Order)
      BY <1>3, InOrder
    <2>2. /\ stage \in Past \cup {"engineer"} => Read' \subseteq Read
          /\ stage \in Compared \cup {"facts"} => Used' \subseteq Used
      BY <1>3, NoMoreRead
    <2>3. Recording'
      BY RecordingStep
    <2>4. Unresolved(conflicts) # {} => Unresolved(conflicts') # {}
      BY <1>3, <2>1, OpenStays DEF Unresolved
    <2>5. \A k \in DOMAIN conflicts' :
             conflicts'[k].kind = "fact" \/ k[2] \notin RecordedOnly => k \in Unresolved(conflicts')
      <3> SUFFICES ASSUME NEW k \in DOMAIN conflicts',
                          conflicts'[k].kind = "fact" \/ k[2] \notin RecordedOnly
                   PROVE  k \in Unresolved(conflicts')
        OBVIOUS
      <3>1. conflicts'[k].status = "unresolved" /\ Entry(k, conflicts'[k])
        BY <1>3, <2>3 DEF Recording, Shape
      <3>2. conflicts'[k].impact = "high"
        BY <3>1 DEF Entry, Impact
      <3>3. QED
        BY <3>1, <3>2 DEF Unresolved
    <2>6. ASSUME stage' \in Past, Surveyed', Differ' PROVE Unresolved(conflicts') # {}
      <3>1. stage \in Past \cup {"engineer"}
        BY <2>1, <2>6 DEF Past, Compared, Order
      <3>2. Surveyed /\ Differ
        BY <2>2, <2>6, <3>1 DEF Surveyed, Differ
      <3>3. CASE stage \in Past
        BY <2>4, <3>2, <3>3 DEF Noticed
      <3>4. CASE stage = "engineer"
        <4>1. EngineerRecord
          <5>1. Recorded # Nothing
            BY <2>1, <3>2, SurveyedIsAssessed
          <5>2. stage' # stage
            BY <2>6, <3>4 DEF Past, Compared
          <5>3. ~ (ReadImages \/ Plan \/ ReadFile \/ FilesRead \/ Retrieve \/ EngineerStated \/ NothingToEngineer
                     \/ Maintain \/ WalkDrawing \/ NoDrawing \/ CompareFacts \/ Screen \/ Code)
            BY <3>4, <5>1 DEF ReadImages, Plan, ReadFile, FilesRead, Retrieve, EngineerStated,
                   NothingToEngineer, Maintain, WalkDrawing, NoDrawing, CompareFacts, Screen, Code
          <5>4. ~ (Reason \/ Verify \/ Draft \/ NoDraft \/ Gate \/ Settle \/ Converse \/ RequestStop
                     \/ HonourStop \/ Fail)
            BY <1>3, <3>4, <5>2 DEF Reason, Verify, Draft, NoDraft, Gate, Settle, Converse, RequestStop,
                   HonourStop, Fail
          <5>5. QED
            BY <1>3, <5>3, <5>4 DEF Next
        <4>2. PICK s \in Read, t \in Read, f \in Fields \ RecordedOnly :
                 /\ Nothing \notin {Source[s].says[f], Source[t].says[f]}
                 /\ Source[s].says[f] # Source[t].says[f]
          BY <3>2 DEF Differ
        <4>3. f \in Disputes(Records(evidence), Chosen(conflicts))
          BY <2>1, <4>2, DisputeFound
        <4> DEFINE found == {Input(g) : g \in Disputes(Records(evidence), Chosen(conflicts))}
                   after == WithDisputes(conflicts, evidence)
        <4>4. Input(f) \in found
          BY <4>3
        <4>5. DOMAIN after = DOMAIN conflicts \cup found
          BY DisputesRecorded DEF Recording
        <4> HIDE DEF found, after
        <4>6. conflicts' = after
          BY <4>1 DEF EngineerRecord, after
        <4>7. Input(f) \in DOMAIN conflicts' /\ Input(f)[2] \notin RecordedOnly
          BY <4>2, <4>4, <4>5, <4>6 DEF Input
        <4>8. QED
          BY <2>5, <4>7
      <3>5. QED
        BY <3>1, <3>3, <3>4
    <2>7. ASSUME stage' \in Compared, NEW s \in Used' \ Drawings, NEW t \in Used' \ Drawings, Contradict(s, t)
          PROVE  Unresolved(conflicts') # {}
      <3>1. stage \in Compared \cup {"facts"}
        BY <2>1, <2>7 DEF Compared, Order
      <3>2. s \in Used \ Drawings /\ t \in Used \ Drawings
        BY <2>2, <2>7, <3>1
      <3>3. CASE stage \in Compared
        BY <2>4, <2>7, <3>2, <3>3 DEF Noticed
      <3>4. CASE stage = "facts"
        <4>1. CompareFacts
          <5>1. stage' # stage
            BY <2>7, <3>4 DEF Compared
          <5>2. ~ (ReadImages \/ Plan \/ ReadFile \/ FilesRead \/ Retrieve \/ EngineerRecord \/ EngineerStated
                     \/ NothingToEngineer \/ Maintain \/ WalkDrawing \/ NoDrawing \/ Screen \/ Code)
            BY <3>4 DEF ReadImages, Plan, ReadFile, FilesRead, Retrieve, EngineerRecord, EngineerStated,
                   NothingToEngineer, Maintain, WalkDrawing, NoDrawing, Screen, Code
          <5>3. ~ (Reason \/ Verify \/ Draft \/ NoDraft \/ Gate \/ Settle \/ Converse \/ RequestStop
                     \/ HonourStop \/ Fail)
            BY <1>3, <3>4, <5>1 DEF Reason, Verify, Draft, NoDraft, Gate, Settle, Converse, RequestStop,
                   HonourStop, Fail
          <5>4. QED
            BY <1>3, <5>2, <5>3 DEF Next
        <4>2. PICK f \in Source[s].facts, g \in Source[t].facts :
                 /\ f.subject = g.subject /\ f.attribute = g.attribute /\ f.value # g.value
                 /\ f.attribute \notin RecordedOnly
                 /\ \A h \in Source[s].facts : <<h.subject, h.attribute>> = <<f.subject, f.attribute>> => h = f
                 /\ \A h \in Source[t].facts : <<h.subject, h.attribute>> = <<f.subject, f.attribute>> => h = g
          BY <2>7 DEF Contradict
        <4>3. Source[s].active /\ Source[t].active
          BY <2>7 DEF Contradict
        <4> DEFINE topic == <<f.subject, f.attribute>>
                   after == WithContradictions(conflicts, evidence)
        <4>4. topic \in Topics /\ Several(FactValues(evidence, topic[1], topic[2]))
          BY <2>1, <3>2, <4>2, <4>3, ContradictionFound
        <4>5. topic[2] \notin RecordedOnly /\ Input(topic[2])[2] \notin RecordedOnly
          BY <4>2 DEF Input
        <4> HIDE DEF topic
        <4>6. /\ DOMAIN conflicts \subseteq DOMAIN after
              /\ \A u \in Topics : Several(FactValues(evidence, u[1], u[2])) =>
                    u \in DOMAIN after \/ Input(u[2]) \in DOMAIN conflicts
          BY ContradictionsRecorded DEF Recording
        <4> HIDE DEF after
        <4>7. conflicts' = after
          BY <4>1 DEF CompareFacts, after
        <4>8. topic \in DOMAIN conflicts' \/ Input(topic[2]) \in DOMAIN conflicts'
          BY <4>4, <4>6, <4>7
        <4>9. QED
          BY <2>5, <4>5, <4>8
      <3>5. QED
        BY <3>1, <3>3, <3>4
    <2>8. \A s, t : Contradict(s, t)' <=> Contradict(s, t)
      BY DEF Contradict
    <2>9. QED
      BY <2>6, <2>7, <2>8 DEF Noticed
  <1>4. CASE ResolveConflict
    BY <1>2, <1>4, ChosenAtRest
  <1>5. QED
    BY <1>1, <1>2, <1>3, <1>4

-----------------------------------------------------------------------------
(* What policy lets the model see only if a person looks at the run. *)

Scanning == {"code", "reason", "verify", "draft", "gate", "settle"}

Referred == stage \in Scanning /\ (\E s \in Used : AskedAtPrompt(s)) => dlpHeld

LEMMA FoundAtPrompt ==
    ASSUME AllSourced, stage = "screen", NEW s \in Used, AskedAtPrompt(s)
    PROVE  HeldAtPrompt(evidence)
  <1>1. PICK i \in DOMAIN evidence : evidence[i].source = s /\ s # Nothing
    BY DEF Used
  <1> DEFINE carries == Source[s].carries
             found == Beyond(carries, evidence[i].level)
  <1>2. Carried(evidence[i]) = carries
    BY <1>1 DEF Carried
  <1>3. found \subseteq carries /\ carries \ Markings \subseteq found
    BY DEF Beyond
  <1>4. Acting(found, "prompt", "block") \subseteq Acting(carries, "prompt", "block")
    BY <1>3 DEF Acting
  <1>5. Acting(carries \ Markings, "prompt", "require_approval") \subseteq Acting(found, "prompt", "require_approval")
    BY <1>3 DEF Acting
  <1>6. ~ evidence[i].scanned
    BY DEF AllSourced, Sourced, Unscreened
  <1>7. Acting(found, "prompt", "block") = {} /\ Acting(found, "prompt", "require_approval") # {}
    BY <1>4, <1>5 DEF AskedAtPrompt
  <1> HIDE DEF found
  <1>8. QED
    BY <1>2, <1>6, <1>7 DEF HeldAtPrompt, found

LEMMA ReferredInit == Init => Referred
  BY DEF Init, Referred, Scanning

LEMMA ReferredStep ==
    ASSUME PTypes, Running, AllSourced, Referred, [Next]_vars
    PROVE  Referred'
  <1>1. CASE UNCHANGED vars
    BY <1>1 DEF vars, Referred, Used
  <1>2. CASE ResolveConflict
    BY <1>2, ChosenAtRest DEF Referred, Scanning
  <1>3. ASSUME Next, ~ ResolveConflict, stage' \in Scanning, NEW s \in Used', AskedAtPrompt(s)
        PROVE  dlpHeld'
    <2>1. stage # "done" /\ stage' # "done" /\ (stage' = stage \/ <<stage, stage'>> \in Order)
      BY <1>3, AtRest, InOrder DEF Scanning
    <2>2. stage = "screen" \/ stage \in Scanning
      BY <1>3, <2>1 DEF Order, Scanning
    <2>3. s \in Used
      BY <1>3, <2>1, <2>2, NoMoreRead DEF Scanning, Compared
    <2>4. CASE stage = "screen"
      <3>1. HeldAtPrompt(evidence)
        BY <1>3, <2>3, <2>4, FoundAtPrompt
      <3>2. ~ (ReadImages \/ Plan \/ ReadFile \/ FilesRead \/ Retrieve \/ EngineerRecord \/ EngineerStated
                 \/ NothingToEngineer \/ Maintain \/ WalkDrawing \/ NoDrawing \/ CompareFacts \/ Code)
        BY <2>4 DEF ReadImages, Plan, ReadFile, FilesRead, Retrieve, EngineerRecord, EngineerStated,
               NothingToEngineer, Maintain, WalkDrawing, NoDrawing, CompareFacts, Code
      <3>3. ~ (Reason \/ Verify \/ Draft \/ NoDraft \/ Gate \/ Settle \/ Converse \/ RequestStop
                 \/ HonourStop \/ Fail)
        BY <1>3, <2>1, <2>4 DEF Reason, Verify, Draft, NoDraft, Gate, Settle, Converse, RequestStop,
               HonourStop, Fail, Scanning
      <3>4. Screen
        BY <1>3, <3>2, <3>3 DEF Next
      <3>5. QED
        BY <3>1, <3>4 DEF Screen
    <2>5. CASE stage \in Scanning
      <3>1. dlpHeld
        BY <1>3, <2>3, <2>5 DEF Referred
      <3>2. ~ (ReadImages \/ Plan \/ ReadFile \/ FilesRead \/ Retrieve \/ EngineerRecord \/ EngineerStated
                 \/ NothingToEngineer \/ Maintain \/ WalkDrawing \/ NoDrawing \/ CompareFacts \/ Screen \/ Converse)
        BY <2>5 DEF ReadImages, Plan, ReadFile, FilesRead, Retrieve, EngineerRecord, EngineerStated,
               NothingToEngineer, Maintain, WalkDrawing, NoDrawing, CompareFacts, Screen, Converse, Scanning
      <3>3. CASE Code \/ Reason \/ Draft
        BY <3>1, <3>3 DEF Code, Reason, Draft
      <3>4. CASE Verify \/ NoDraft \/ Gate \/ Settle \/ RequestStop
        BY <3>1, <3>4 DEF Verify, NoDraft, Gate, Settle, RequestStop, written
      <3>5. CASE HonourStop \/ Fail
        BY <2>1, <3>5 DEF HonourStop, Fail
      <3>6. QED
        BY <1>3, <3>2, <3>3, <3>4, <3>5 DEF Next
    <2>6. QED
      BY <2>2, <2>4, <2>5
  <1>4. QED
    BY <1>1, <1>2, <1>3 DEF Referred

-----------------------------------------------------------------------------
(* The gate. *)

LEMMA NothingHolds ==
    ASSUME NEW level, Matching(level) = {}
    PROVE  /\ ~ (level >= 2) /\ ~ profile.deliverable /\ failed = {} /\ Unresolved(conflicts) = {}
           /\ \A v \in verdicts : v.verdict # "REQUIRES_HUMAN_DECISION"
           /\ \A i \in DOMAIN evidence : ~ evidence[i].flagged
           /\ ~ topology /\ SeverityOf(assessment) # "high" /\ ~ Breach(assessment) /\ ~ dlpHeld
  <1>1. level >= 2 => "sensitive_classification" \in Matching(level)
    BY DEF Matching
  <1>2. profile.deliverable => "released_deliverable" \in Matching(level)
    BY DEF Matching
  <1>3. failed # {} => "verification_failure" \in Matching(level)
    BY DEF Matching
  <1>4. Unresolved(conflicts) # {} => "unresolved_conflict" \in Matching(level)
    BY DEF Matching
  <1>5. (\E v \in verdicts : v.verdict = "REQUIRES_HUMAN_DECISION") => "human_decision" \in Matching(level)
    BY DEF Matching
  <1>6. (\E i \in DOMAIN evidence : evidence[i].flagged) => "untrusted_instructions" \in Matching(level)
    BY DEF Matching
  <1>7. topology => "isolation_plan" \in Matching(level)
    BY DEF Matching
  <1>8. SeverityOf(assessment) = "high" => "high_severity_finding" \in Matching(level)
    BY DEF Matching
  <1>9. Breach(assessment) => "interim_operation_limit" \in Matching(level)
    BY DEF Matching
  <1>10. dlpHeld => "sensitive_content" \in Matching(level)
    BY DEF Matching
  <1>11. QED
    BY <1>1, <1>2, <1>3, <1>4, <1>5, <1>6, <1>7, <1>8, <1>9, <1>10

(* A run no rule holds at its level is clean. *)
LEMMA PassesClean ==
    ASSUME PTypes, Recording, ReportInv, Asked, AllSourced, Noticed, Referred, stage = "gate",
           Matching(RaisedLevel) = {}
    PROVE  Clean /\ draft = Nothing
  <1>1. /\ ~ (RaisedLevel >= 2) /\ ~ profile.deliverable /\ failed = {} /\ Unresolved(conflicts) = {}
        /\ \A v \in verdicts : v.verdict # "REQUIRES_HUMAN_DECISION"
        /\ \A i \in DOMAIN evidence : ~ evidence[i].flagged
        /\ ~ topology /\ SeverityOf(assessment) # "high" /\ ~ Breach(assessment) /\ ~ dlpHeld
    BY NothingHolds
  <1>2. /\ RaisedLevel \in Levels
        /\ \A i \in DOMAIN evidence : evidence[i].level <= RaisedLevel
        /\ \A d \in answer.carries : RaisesTo[d] <= RaisedLevel
    BY RaisedIs
  <1>3. stage # "done" /\ stage \notin Unscreened
    BY DEF Unscreened, Undrawn
  <1>4. ASSUME NEW s \in Used
        PROVE  /\ ~ Source[s].instructs /\ Source[s].level < 2 /\ ~ Source[s].isolation
               /\ \A d \in Source[s].carries : RaisesTo[d] < 2
    <2>1. PICK i \in DOMAIN evidence : evidence[i].kind \in Original /\ evidence[i].source = s
      BY <1>3, UsedIsSourced
    <2>2. /\ s \in DOMAIN Source /\ Source[s].level <= evidence[i].level
          /\ evidence[i].kind = "topology" => topology = Source[s].isolation
          /\ evidence[i].kind # "topology" => s \in Papers
          /\ evidence[i].flagged = Source[s].instructs
          /\ \A d \in Source[s].carries : RaisesTo[d] <= evidence[i].level
      BY <1>3, <2>1 DEF AllSourced, Sourced
    <2>3. evidence[i].level \in Levels /\ evidence[i].level <= RaisedLevel
      BY <1>2, ItemAt DEF PTypes, Items
    <2>4. Source[s].level \in Levels /\ \A d \in Source[s].carries : RaisesTo[d] \in Levels
      BY <2>2, SourceAssumption, PipelineAssumption
    <2>5. evidence[i].level < 2
      BY <1>1, <1>2, <2>3 DEF Levels
    <2>6. Source[s].level < 2 /\ \A d \in Source[s].carries : RaisesTo[d] < 2
      BY <2>2, <2>3, <2>4, <2>5 DEF Levels
    <2>7. ~ Source[s].isolation
      BY <1>1, <2>2, SourceAssumption DEF Papers
    <2>8. QED
      BY <1>1, <2>2, <2>6, <2>7
  <1>5. Surveyed => \A s, t \in Read : \A f \in Fields \ RecordedOnly :
           Nothing \in {Source[s].says[f], Source[t].says[f]} \/ Source[s].says[f] = Source[t].says[f]
    <2>1. Surveyed => ~ Differ
      BY <1>1 DEF Noticed, Past, Compared
    <2>2. QED
      BY <2>1 DEF Differ
  <1>6. \A s, t \in Used \ Drawings : ~ Contradict(s, t)
    BY <1>1 DEF Noticed, Compared
  <1>7. \A d \in answer.carries : RaisesTo[d] < 2
    <2>1. \A d \in answer.carries : RaisesTo[d] \in Levels
      BY PipelineAssumption DEF PTypes, MadeTypes
    <2>2. QED
      BY <1>1, <1>2, <2>1 DEF Levels
  <1>8. ASSUME NEW c \in answer.claims PROVE c.says # "disposition"
    <2> SUFFICES ASSUME c.says = "disposition" PROVE FALSE
      OBVIOUS
    <2>1. [claim |-> c, verdict |-> Verdict(c, conflicts, assessment)] \in verdicts
      BY DEF ReportInv, Verified, Reported, VerdictsOn
    <2>2. \A k \in DOMAIN conflicts : ~ Takes(c, conflicts, k)
      BY DEF Recording, Shape, Entry, Takes
    <2>3. Verdict(c, conflicts, assessment) = "REQUIRES_HUMAN_DECISION"
      BY <2>2 DEF Verdict, OfKind, Unresolved
    <2>4. QED
      BY <1>1, <2>1, <2>3
  <1>9. draft = Nothing
    BY <1>1 DEF Asked
  <1>10. \A s \in Used : ~ AskedAtPrompt(s)
    BY <1>1 DEF Referred, Scanning
  <1>11. QED
    BY <1>1, <1>4, <1>5, <1>6, <1>7, <1>8, <1>9, <1>10 DEF Clean

(* What a conversation delivers unheld. *)
LEMMA ConversesClean ==
    ASSUME PTypes, Asked, Conversing, Converse, status' = "delivered"
    PROVE  Clean'
  <1>1. /\ stage = "converse" /\ evidence = <<>> /\ assessment = Nothing /\ profile.kind = "conversation"
      BY DEF Converse, Asked, Conversing
  <1>2. PICK carried \in SUBSET profile.carries :
           /\ answer' = Released({}, carried, profile.level)
           /\ approval' = Record(IF Holding(Beyond(carried, profile.level), "answer")
                                 THEN Matching(profile.level) \cup {"sensitive_content"} ELSE {})
           /\ dlpHeld' = Holding(Beyond(carried, profile.level), "answer")
    BY DEF Converse
  <1>3. /\ evidence' = evidence /\ assessment' = assessment /\ profile' = profile /\ failed' = {}
        /\ approval'.reasons = {}
    BY DEF Converse, gathered, request
  <1> DEFINE found == Beyond(carried, profile.level)
  <1>4. ~ Holding(found, "answer")
    <2>1. Holding(found, "answer") => "sensitive_content" \in approval'.reasons
      BY <1>2 DEF Record
    <2>2. QED
      BY <1>3, <2>1
  <1>5. carried \subseteq Detectors
    BY <1>2 DEF PTypes, RunTypes, Requests
  <1>6. /\ answer'.claims = {}
        /\ answer'.carries = carried \ Acting(found, "answer", "redact")
    BY <1>2, <1>4 DEF Released, Holding
  <1>7. ASSUME NEW d \in answer'.carries PROVE d \in Markings \/ Boundary["answer"][d] = "allow"
    <2>1. d \in carried /\ d \notin Acting(found, "answer", "redact")
      BY <1>6
    <2>2. d \in found \/ d \in Markings
      BY <2>1 DEF Beyond
    <2>3. Boundary["answer"][d] \in {"allow", "redact", "require_approval", "block"}
      BY <1>5, <2>1, PipelineAssumption
    <2> HIDE DEF found
    <2>4. d \in found => Boundary["answer"][d] = "allow"
      BY <1>4, <2>1, <2>3 DEF Holding, Acting
    <2>5. QED
      BY <2>2, <2>4
  <1>8. Used' = {} /\ Read' = {}
    BY <1>1, <1>3 DEF Used, Read
  <1>9. ~ Surveyed'
    BY <1>8 DEF Surveyed
  <1>10. SeverityOf(assessment') # "high" /\ ~ Breach(assessment')
    BY <1>1, <1>3, NothingAssumption DEF SeverityOf, Breach, Calculated
  <1>11. QED
    BY <1>1, <1>3, <1>6, <1>7, <1>8, <1>9, <1>10 DEF Clean

CleanInv ==
    /\ stage = "settle" /\ approval.reasons = {} => Clean /\ draft = Nothing
    /\ status = "delivered" => Clean /\ file = Nothing

LEMMA CleanInit == Init => CleanInv
  BY DEF Init, CleanInv

LEMMA CleanStays ==
    ASSUME Clean, UNCHANGED <<evidence, conflicts, assessment, answer, failed>>, profile'.kind = profile.kind
    PROVE  Clean'
  <1>1. Used' = Used /\ Read' = Read /\ Surveyed' = Surveyed
    BY DEF Used, Read, Surveyed
  <1>2. QED
    BY <1>1 DEF Clean, Contradict

LEMMA CleanStep ==
    ASSUME PTypes, Running, Recording, ReportInv, Asked, AllSourced, Noticed, Referred, CleanInv, [Next]_vars
    PROVE  CleanInv'
  <1>1. CASE UNCHANGED vars
    <2>1. /\ UNCHANGED <<evidence, conflicts, assessment, answer, failed, stage, status, approval, draft, file>>
          /\ profile' = profile
      BY <1>1 DEF vars
    <2>2. QED
      BY <2>1, CleanStays DEF CleanInv
  <1>2. CASE ResolveConflict
    BY <1>2, ChosenAtRest DEF CleanInv, ResolveConflict, Resolve
  <1>3. CASE Gate
    <2>1. /\ approval'.reasons = Matching(RaisedLevel)
          /\ stage = "gate" /\ status' = status /\ stage' = "settle"
          /\ UNCHANGED <<evidence, conflicts, assessment, answer, failed, draft>>
          /\ profile' = [profile EXCEPT !.level = RaisedLevel]
      BY <1>3 DEF Gate, Record, gathered
    <2>2. profile'.kind = profile.kind
      BY <2>1 DEF PTypes, RunTypes, Requests
    <2>3. status' # "delivered"
      BY <2>1 DEF Running
    <2>4. approval'.reasons = {} => Clean' /\ draft' = Nothing
      BY <2>1, <2>2, PassesClean, CleanStays
    <2>5. QED
      BY <2>3, <2>4 DEF CleanInv
  <1>4. CASE Settle
    <2>1. /\ stage = "settle" /\ stage' = "done" /\ profile' = profile
          /\ UNCHANGED <<evidence, conflicts, assessment, answer, failed, draft>>
          /\ status' = "delivered" => approval.reasons = {}
          /\ file' \in IF draft = Nothing THEN {Nothing} ELSE {Nothing, Rendered(draft, evidence, assessment)}
      BY <1>4 DEF Settle, gathered, request
    <2>2. status' = "delivered" => Clean' /\ file' = Nothing
      BY <2>1, CleanStays DEF CleanInv
    <2>3. QED
      BY <2>1, <2>2 DEF CleanInv
  <1>5. CASE Converse
    <2>1. stage' = "done" /\ file' = Nothing
      BY <1>5 DEF Converse, Running
    <2>2. status' = "delivered" => Clean'
      BY <1>5, ConversesClean DEF ReportInv
    <2>3. QED
      BY <2>1, <2>2 DEF CleanInv
  <1>6. CASE RequestStop
    <2>1. /\ UNCHANGED <<evidence, conflicts, assessment, answer, failed, stage, status, approval, draft, file>>
          /\ profile' = profile
      BY <1>6 DEF RequestStop, gathered, written, request
    <2>2. QED
      BY <2>1, CleanStays DEF CleanInv
  <1>7. CASE HonourStop \/ Fail
    BY <1>7 DEF HonourStop, Fail, CleanInv
  <1>8. CASE Reason \/ Verify \/ Draft \/ NoDraft
    <2>1. stage # "done" /\ stage' # "settle" /\ status' \in {status, "executing", "verifying"}
      BY <1>8 DEF Reason, Verify, Draft, NoDraft
    <2>2. QED
      BY <2>1 DEF Running, CleanInv
  <1>9. CASE ReadImages \/ Plan \/ ReadFile \/ FilesRead \/ Retrieve \/ EngineerRecord \/ EngineerStated
               \/ NothingToEngineer \/ Maintain \/ WalkDrawing \/ NoDrawing \/ CompareFacts \/ Screen \/ Code
    <2>1. stage # "done" /\ stage' # "settle" /\ status' \in {status, "executing", "planned", "retrieving"}
      BY <1>9 DEF ReadImages, Plan, ReadFile, FilesRead, Retrieve, EngineerRecord, EngineerStated,
             NothingToEngineer, Maintain, WalkDrawing, NoDrawing, CompareFacts, Screen, Code
    <2>2. QED
      BY <2>1 DEF Running, CleanInv
  <1>10. QED
    BY <1>1, <1>2, <1>3, <1>4, <1>5, <1>6, <1>7, <1>8, <1>9 DEF Next

LEMMA NoticedInit == Init => AllSourced /\ Noticed
  BY DEF Init, AllSourced, Noticed, Past, Compared

(* What a run rests on is on its ledger, filed, flagged and compared, and  *)
(* noted where it asks for a person.                                       *)
THEOREM SourcesNoticed == Spec => [](Asked /\ AllSourced /\ Noticed /\ Referred)
  <1>1. /\ PTypes /\ Running /\ Surveyors(evidence) /\ Recording
        /\ Asked /\ AllSourced /\ Noticed /\ Referred
        /\ [Next]_vars
        => (Asked /\ AllSourced /\ Noticed /\ Referred)'
    BY AskedStep, SourcedStep, NoticedStep, ReferredStep
  <1>2. QED
    BY AskedInit, NoticedInit, ReferredInit, PipelineTyped, Surveying, RecordKept, <1>1, PTL DEF Spec

(* Nothing is delivered without a person that rests on a sensitive source, *)
(* on one that addresses the model or on sources that disagree, that plans *)
(* an isolation or finds a vessel unsafe, that failed a check or leaves a  *)
(* document (the gate of orchestrator.run).                                *)
THEOREM Unheld == Spec => []UnheldIsClean
  <1>1. /\ PTypes /\ Running /\ Recording /\ ReportInv
        /\ Asked /\ AllSourced /\ Noticed /\ Referred
        /\ CleanInv /\ [Next]_vars
        => CleanInv'
    BY CleanStep
  <1>2. CleanInv => UnheldIsClean
    BY DEF CleanInv, UnheldIsClean
  <1>3. QED
    BY CleanInit, PipelineTyped, RecordKept, ReportKept, SourcesNoticed, <1>1, <1>2, PTL DEF Spec

-----------------------------------------------------------------------------
(* What a person has chosen. *)

LEMMA ChosenIs ==
    ASSUME NEW all, Shape(all)
    PROVE  /\ \A f : f \in DOMAIN Chosen(all) <=>
                 /\ Input(f) \in DOMAIN all
                 /\ all[Input(f)].kind = "input" /\ all[Input(f)].status = "resolved"
           /\ \A f \in DOMAIN Chosen(all) :
                 /\ f \in Fields
                 /\ Chosen(all)[f] = all[Input(f)].choice
                 /\ Chosen(all)[f] # Nothing /\ (f # "tag" => Chosen(all)[f] \in Nat)
           /\ Chosen(all) = [f \in DOMAIN Chosen(all) |-> all[Input(f)].choice]
  <1> DEFINE keys == {k \in OfKind(all, "input") : all[k].status = "resolved"}
             chosen == Chosen(all)
  <1>1. chosen = [f \in {k[2] : k \in keys} |-> all[Input(f)].choice]
    BY DEF Chosen
  <1>2. \A k \in keys : /\ k \in DOMAIN all /\ all[k].kind = "input" /\ all[k].status = "resolved"
                        /\ k = Input(k[2]) /\ k[2] \in Fields
                        /\ all[k].choice # Nothing /\ (k[2] # "tag" => all[k].choice \in Nat)
    BY DEF OfKind, Shape, Entry
  <1>3. \A f : Input(f) \in DOMAIN all /\ all[Input(f)].kind = "input" /\ all[Input(f)].status = "resolved"
               => Input(f) \in keys /\ Input(f)[2] = f
    BY DEF OfKind, Input
  <1> HIDE DEF keys, chosen
  <1>4. \A f : f \in DOMAIN chosen <=> Input(f) \in keys
    <2>1. \A f : f \in DOMAIN chosen <=> \E k \in keys : f = k[2]
      BY <1>1
    <2>2. ASSUME NEW f, NEW k \in keys, f = k[2] PROVE Input(f) \in keys
      BY <1>2, <2>2
    <2>3. ASSUME NEW f, Input(f) \in keys PROVE \E k \in keys : f = k[2]
      <3>1. Input(f)[2] = f
        BY DEF Input
      <3>2. QED
        BY <2>3, <3>1
    <2>4. QED
      BY <2>1, <2>2, <2>3
  <1>5. \A f \in DOMAIN chosen : Input(f) \in keys /\ Input(f)[2] = f /\ chosen[f] = all[Input(f)].choice
    BY <1>1, <1>4 DEF Input
  <1>6. chosen = [f \in DOMAIN chosen |-> all[Input(f)].choice]
    BY <1>1
  <1>7. \A f \in DOMAIN chosen :
           /\ f \in Fields
           /\ chosen[f] = all[Input(f)].choice /\ chosen[f] # Nothing /\ (f # "tag" => chosen[f] \in Nat)
    <2> SUFFICES ASSUME NEW f \in DOMAIN chosen
                 PROVE  /\ f \in Fields
                        /\ chosen[f] = all[Input(f)].choice
                        /\ chosen[f] # Nothing /\ (f # "tag" => chosen[f] \in Nat)
      OBVIOUS
    <2>1. Input(f) \in keys /\ Input(f)[2] = f /\ chosen[f] = all[Input(f)].choice
      BY <1>5
    <2>2. /\ f \in Fields
          /\ all[Input(f)].choice # Nothing /\ (f # "tag" => all[Input(f)].choice \in Nat)
      BY <1>2, <2>1
    <2>3. QED
      BY <2>1, <2>2
  <1>8. \A f : f \in DOMAIN chosen <=>
           /\ Input(f) \in DOMAIN all /\ all[Input(f)].kind = "input" /\ all[Input(f)].status = "resolved"
    BY <1>2, <1>3, <1>4
  <1>9. QED
    BY <1>6, <1>7, <1>8 DEF chosen

(* The choices are the same where no input was resolved. *)
LEMMA SameChoices ==
    ASSUME NEW all, NEW after, Shape(all), Shape(after),
           \A k \in DOMAIN all : k \in DOMAIN after /\ after[k].kind = all[k].kind,
           \A k \in DOMAIN all : all[k].kind = "input" => after[k] = all[k],
           \A k \in DOMAIN after \ DOMAIN all : after[k].status = "unresolved"
    PROVE  Chosen(after) = Chosen(all)
  <1>1. \A f : f \in DOMAIN Chosen(all) => f \in DOMAIN Chosen(after) /\ after[Input(f)] = all[Input(f)]
    BY ChosenIs
  <1>2. \A f : f \in DOMAIN Chosen(after) => f \in DOMAIN Chosen(all)
    BY ChosenIs
  <1>3. DOMAIN Chosen(after) = DOMAIN Chosen(all)
    BY <1>1, <1>2
  <1>4. /\ Chosen(all) = [f \in DOMAIN Chosen(all) |-> all[Input(f)].choice]
        /\ Chosen(after) = [f \in DOMAIN Chosen(after) |-> after[Input(f)].choice]
    BY ChosenIs
  <1>5. QED
    BY <1>1, <1>3, <1>4

(* One more choice. *)
LEMMA OneMoreChoice ==
    ASSUME NEW all, NEW after, Shape(all), Shape(after), NEW f, Input(f) \in DOMAIN all,
           all[Input(f)].kind = "input", after[Input(f)].status = "resolved",
           DOMAIN after = DOMAIN all, \A k \in DOMAIN all : after[k].kind = all[k].kind,
           \A k \in DOMAIN all \ {Input(f)} : after[k] = all[k]
    PROVE  /\ DOMAIN Chosen(after) = DOMAIN Chosen(all) \cup {f}
           /\ \A g \in DOMAIN Chosen(all) \ {f} : Chosen(after)[g] = Chosen(all)[g]
  <1>1. \A g : g # f => Input(g) # Input(f)
    BY DEF Input
  <1>2. f \in DOMAIN Chosen(after)
    BY ChosenIs
  <1>3. \A g : g # f => (g \in DOMAIN Chosen(after) <=> g \in DOMAIN Chosen(all))
    BY <1>1, ChosenIs
  <1>4. \A g \in DOMAIN Chosen(all) \ {f} : Chosen(after)[g] = Chosen(all)[g]
    BY <1>1, <1>3, ChosenIs
  <1>5. QED
    BY <1>2, <1>3, <1>4

(* A choice other than of the vessel takes no value from the formulas: the *)
(* records are still those of an inspection.                               *)
LEMMA FoundStays ==
    ASSUME NEW sources, DOMAIN sources \subseteq Nat, NEW chosen, NEW more, NEW f, f # "tag",
           DOMAIN more = DOMAIN chosen \cup {f},
           \A g \in DOMAIN chosen \ {f} : more[g] = chosen[g],
           more[f] # Nothing, \A g \in DOMAIN chosen : chosen[g] # Nothing,
           Found(Merged(sources, chosen))
    PROVE  Found(Merged(sources, more))
  <1> DEFINE kept == Describing(sources, chosen)
  <1>1. Describing(sources, more) = kept
    BY DEF Describing
  <1>2. ASSUME NEW g \in Fields, Merged(sources, chosen)[g] # Nothing PROVE Merged(sources, more)[g] # Nothing
    <2> DEFINE first == FirstStated(g, kept)
               stated == Stated(g, kept)
    <2>1. /\ Merged(sources, chosen)[g] = IF Taken(g, sources, chosen) THEN chosen[g] ELSE first
          /\ Merged(sources, more)[g] = IF Taken(g, sources, more) THEN more[g] ELSE first
      BY <1>1 DEF Merged
    <2>2. /\ Taken(g, sources, chosen) <=> g \in DOMAIN chosen /\ (g \in Readings => stated # {})
          /\ Taken(g, sources, more) <=> g \in DOMAIN more /\ (g \in Readings => stated # {})
      BY <1>1 DEF Taken
    <2> HIDE DEF first, stated, kept
    <2>3. CASE Taken(g, sources, more)
      <3>1. more[g] # Nothing
        BY <2>2, <2>3
      <3>2. QED
        BY <2>1, <2>3, <3>1
    <2>4. CASE ~ Taken(g, sources, more)
      BY <1>2, <2>1, <2>2, <2>4
    <2>5. QED
      BY <2>3, <2>4
  <1>3. \A l \in Readings : l \in Fields
    BY DEF Fields
  <1>4. "nominal" \in Fields /\ "t_min" \in Fields
    BY DEF Fields
  <1>5. QED
    BY <1>2, <1>3, <1>4 DEF Found

-----------------------------------------------------------------------------
(* The figures are those of the records and the choices. *)

Early == {"images", "plan", "files", "retrieve", "engineer"}

Figured ==
    /\ assessment # Nothing /\ assessment.severity # Nothing =>
          assessment = Assess(Records(evidence), Chosen(conflicts))
    /\ stage \in Early => assessment = Nothing /\ conflicts = <<>>

(* Which vessel it is is asked only where the records name several. *)
TagOpen == Input("tag") \in DOMAIN conflicts => Several(Stated("tag", Records(evidence)))

LEMMA UnassessedIs ==
    ASSUME NEW name
    PROVE  /\ Unassessed(name).status = name /\ Unassessed(name).severity = Nothing
           /\ Unassessed(name).breach = FALSE
  BY DEF Unassessed

(* No record is added once the formulas have run. *)
LEMMA RecordsStay ==
    ASSUME PTypes, AllSourced, Next, ~ ResolveConflict, stage \in Past
    PROVE  Records(evidence') = Records(evidence)
  <1>1. stage # "done"
    BY DEF Past, Compared
  <1>2. Ledger
    BY LedgerGrows
  <1>3. stage' = "done" => evidence' = evidence
    BY DEF Next, ReadImages, Plan, ReadFile, FilesRead, Retrieve, EngineerRecord, EngineerStated,
           NothingToEngineer, Maintain, WalkDrawing, NoDrawing, CompareFacts, Screen, Code,
           Reason, Verify, Draft, NoDraft, Gate, Settle, Converse, RequestStop, HonourStop, Fail, gathered
  <1>4. ASSUME stage' # "done" PROVE Records(evidence') = Records(evidence)
    <2>1. stage' = stage \/ <<stage, stage'>> \in Order
      BY <1>4, InOrder
    <2>2. \A i \in DOMAIN evidence :
             /\ i \in DOMAIN evidence'
             /\ evidence'[i].kind = evidence[i].kind /\ evidence'[i].source = evidence[i].source
      BY <1>1, <1>2, <2>1, KeptItem
    <2>3. \A i \in DOMAIN evidence' \ DOMAIN evidence : evidence'[i].kind \notin RecordKinds
      BY <1>2 DEF Ledger, Gathered, RecordKinds, Past, Compared
    <2>4. QED
      BY <2>2, <2>3, SameRecords
  <1>5. QED
    BY <1>3, <1>4

(* An undecided vessel is in dispute, and nothing is calculated of it. *)
LEMMA TagDisputed ==
    ASSUME NEW sources, NEW chosen, "tag" \notin DOMAIN chosen
    PROVE  /\ "tag" \in Disputes(sources, chosen) <=> Several(Stated("tag", sources))
           /\ Several(Stated("tag", sources)) /\ Assess(sources, chosen) # Nothing =>
                 Assess(sources, chosen) = Unassessed("conflicted")
  <1>1. Describing(sources, chosen) = sources /\ "tag" \in Fields
    BY DEF Describing, Fields
  <1>2. "tag" \in Disputes(sources, chosen) <=> Several(Stated("tag", sources))
    BY <1>1 DEF Disputes
  <1>3. Impact("tag") = "high"
    BY DEF Impact, RecordedOnly
  <1>4. ASSUME "tag" \in Disputes(sources, chosen), Assess(sources, chosen) # Nothing
        PROVE  Assess(sources, chosen) = Unassessed("conflicted")
    <2>1. \E f \in Disputes(sources, chosen) : Impact(f) = "high"
      BY <1>3, <1>4
    <2>2. Found(Merged(sources, chosen))
      BY <1>4, AssessType
    <2>3. QED
      BY <2>1, <2>2 DEF Assess
  <1>5. QED
    BY <1>2, <1>4

(* Where the choices and the records stand, the figures do. *)
LEMMA FiguresKept ==
    ASSUME Figured, TagOpen, Records(evidence') = Records(evidence), Chosen(conflicts') = Chosen(conflicts),
           assessment' = assessment, stage' \notin Early,
           Input("tag") \in DOMAIN conflicts' => Input("tag") \in DOMAIN conflicts
    PROVE  Figured' /\ TagOpen'
  BY DEF Figured, TagOpen

(* A choice is followed by the figures it gives; and where it gives none,  *)
(* there were none.                                                        *)
LEMMA FiguresOfChoice ==
    ASSUME PTypes, Running, Surveyors(evidence), Recording, Figured, TagOpen, ResolveConflict
    PROVE  Figured' /\ TagOpen'
  <1>1. PICK k \in DOMAIN conflicts : \E value \in Offered(k) : Resolve(k, value)
    BY DEF ResolveConflict
  <1>2. PICK value \in Offered(k) : Resolve(k, value)
    BY <1>1
  <1> DEFINE settled == Settled(conflicts, k, value)
             decided == Append(evidence, Item("human", Nothing, LevelOf(evidence, Involved(k))))
             result == Assess(Records(decided), Chosen(settled))
             after == WithDisputes(settled, decided)
             sources == Records(evidence)
  <1>3. /\ conflicts[k].status = "unresolved"
        /\ conflicts' = IF result = Nothing THEN settled ELSE after
        /\ assessment' = IF result = Nothing THEN assessment ELSE result
        /\ evidence' = IF result = Nothing THEN decided ELSE WithComputation(decided, result)
    BY <1>2 DEF Resolve, Settled
  <1>4. decided \in Seq(Items) /\ Records(decided) = sources /\ Surveyors(decided)
    BY ChoiceIsNoRecord
  <1>0. Shape(conflicts)
    BY DEF Recording
  <1>5. /\ Shape(settled) /\ DOMAIN settled = DOMAIN conflicts
        /\ \A n \in DOMAIN conflicts : settled[n].kind = conflicts[n].kind
        /\ \A n \in DOMAIN conflicts \ {k} : settled[n] = conflicts[n]
        /\ settled[k].status = "resolved" /\ settled[k].choice = value
    BY <1>0, OfferedIs, ChoiceRecorded
  <1>6. stage' = "done" /\ stage' \notin Early
    BY ChosenAtRest DEF Early
  <1> DEFINE computed == WithComputation(decided, result)
  <1> HIDE DEF decided, settled
  <1>7. Records(computed) = sources
    BY <1>4, ComputedIsNoRecord
  <1>8. /\ Shape(after)
        /\ \A n \in DOMAIN settled : n \in DOMAIN after /\ after[n] = settled[n]
        /\ \A n \in DOMAIN after \ DOMAIN settled : after[n].kind = "input" /\ after[n].status = "unresolved"
    BY <1>4, <1>5, DisputesAdded
  <1>17. Input("tag") \in DOMAIN after => Input("tag") \in DOMAIN settled \/ "tag" \in Disputes(sources, Chosen(settled))
    BY <1>4 DEF WithDisputes, Input
  <1>9. result = Assess(sources, Chosen(settled))
    BY <1>4
  <1> HIDE DEF settled, after, computed, result
  <1>10. Chosen(after) = Chosen(settled)
    BY <1>5, <1>8, SameChoices
  <1>11. Records(evidence') = sources /\ Chosen(conflicts') = Chosen(settled)
    BY <1>3, <1>4, <1>7, <1>10 DEF computed
  <1>12. Input("tag") \in DOMAIN conflicts' => Several(Stated("tag", sources))
    <2>1. CASE Input("tag") \in DOMAIN conflicts
      BY <2>1 DEF TagOpen
    <2>2. ASSUME Input("tag") \in DOMAIN conflicts', Input("tag") \notin DOMAIN conflicts
          PROVE  Several(Stated("tag", sources))
      <3>1. "tag" \in Disputes(sources, Chosen(settled))
        BY <1>3, <1>5, <1>17, <2>2
      <3>2. "tag" \notin DOMAIN Chosen(settled)
        BY <1>5, <2>2, ChosenIs
      <3>3. QED
        BY <3>1, <3>2, TagDisputed
    <2>3. QED
      BY <2>1, <2>2
  <1>13. TagOpen'
    BY <1>11, <1>12 DEF TagOpen
  <1>14. CASE result # Nothing
    <2>1. assessment' = Assess(Records(evidence'), Chosen(conflicts'))
      BY <1>3, <1>9, <1>11, <1>14
    <2>2. QED
      BY <1>6, <1>13, <2>1 DEF Figured
  <1>15. ASSUME result = Nothing, assessment # Nothing, assessment.severity # Nothing PROVE FALSE
    <2>1. assessment = Assess(sources, Chosen(conflicts))
      BY <1>15 DEF Figured
    <2>2. (k = Input(k[2]) /\ k[2] \in Fields) \/ conflicts[k].kind = "fact"
      BY <1>0 DEF Shape, Entry
    <2>3. CASE conflicts[k].kind # "input"
      <3>1. Chosen(settled) = Chosen(conflicts)
        BY <1>0, <1>5, <2>3, SameChoices
      <3>2. QED
        BY <1>9, <1>15, <2>1, <3>1
    <2> DEFINE f == k[2]
    <2>4. ASSUME conflicts[k].kind = "input" PROVE k = Input(f)
      BY <2>2, <2>4
    <2> HIDE DEF f
    <2>5. ASSUME conflicts[k].kind = "input", f # "tag" PROVE FALSE
      <3>1. k = Input(f)
        BY <2>4, <2>5
      <3>2. /\ Input(f) \in DOMAIN conflicts /\ conflicts[Input(f)].kind = "input"
            /\ settled[Input(f)].status = "resolved"
            /\ \A n \in DOMAIN conflicts \ {Input(f)} : settled[n] = conflicts[n]
        BY <1>5, <2>5, <3>1
      <3>3. /\ DOMAIN Chosen(settled) = DOMAIN Chosen(conflicts) \cup {f}
            /\ \A g \in DOMAIN Chosen(conflicts) \ {f} : Chosen(settled)[g] = Chosen(conflicts)[g]
        BY <1>0, <1>5, <3>2, OneMoreChoice
      <3>4. /\ \A g \in DOMAIN Chosen(conflicts) : Chosen(conflicts)[g] # Nothing
            /\ \A g \in DOMAIN Chosen(settled) : Chosen(settled)[g] # Nothing
        BY <1>0, <1>5, ChosenIs
      <3>5. DOMAIN sources \subseteq Nat
        BY RecordsAre DEF PTypes
      <3>6. Found(Merged(sources, Chosen(conflicts)))
        BY <1>15, <2>1, AssessType
      <3> HIDE DEF sources
      <3>7. Found(Merged(sources, Chosen(settled)))
        BY <2>5, <3>3, <3>4, <3>5, <3>6, FoundStays
      <3>8. QED
        BY <1>9, <1>15, <3>7, AssessType
    <2>6. ASSUME conflicts[k].kind = "input", f = "tag" PROVE FALSE
      <3>1. k = Input("tag")
        BY <2>4, <2>6
      <3>2. Several(Stated("tag", sources))
        BY <3>1 DEF TagOpen
      <3>3. "tag" \notin DOMAIN Chosen(conflicts)
        BY <1>0, <1>3, <3>1, ChosenIs
      <3>4. assessment = Unassessed("conflicted")
        BY <1>15, <2>1, <3>2, <3>3, TagDisputed
      <3>5. QED
        BY <1>15, <3>4, UnassessedIs
    <2>7. QED
      BY <2>3, <2>5, <2>6
  <1>16. QED
    BY <1>3, <1>6, <1>13, <1>14, <1>15 DEF Figured

LEMMA FiguresStep ==
    ASSUME PTypes, Running, Surveyors(evidence), Recording, ReportInv, AllSourced, Figured, TagOpen, [Next]_vars
    PROVE  Figured' /\ TagOpen'
  <1>0. Shape(conflicts)
    BY DEF Recording
  <1>1. CASE UNCHANGED vars
    BY <1>1 DEF vars, Figured, TagOpen
  <1>2. CASE ResolveConflict
    BY <1>2, FiguresOfChoice
  <1>3. CASE EngineerRecord
    <2> DEFINE after == WithDisputes(conflicts, evidence)
    <2>1. /\ stage' = "maintain" /\ assessment' = Assess(Records(evidence), <<>>)
          /\ conflicts' = after /\ evidence' = WithComputation(evidence, Recorded)
          /\ conflicts = <<>>
      BY <1>3 DEF EngineerRecord, Recorded, Figured, Early
    <2>2. DOMAIN conflicts = {}
      BY <2>1
    <2>3. Chosen(conflicts) = <<>>
      <3>1. DOMAIN Chosen(conflicts) = {}
        BY <1>0, <2>2, ChosenIs
      <3>2. Chosen(conflicts) = [f \in {} |-> conflicts[Input(f)].choice]
        BY <1>0, <3>1, ChosenIs
      <3>3. QED
        BY <3>2
    <2>4. Records(evidence') = Records(evidence)
      BY <2>1, ComputedIsNoRecord DEF PTypes
    <2>5. /\ Shape(after)
          /\ \A n \in DOMAIN conflicts : n \in DOMAIN after /\ after[n] = conflicts[n]
          /\ \A n \in DOMAIN after \ DOMAIN conflicts : after[n].kind = "input" /\ after[n].status = "unresolved"
      BY <1>0, DisputesAdded
    <2>6. Input("tag") \in DOMAIN after => "tag" \in Disputes(Records(evidence), Chosen(conflicts))
      BY <2>2 DEF WithDisputes, Input
    <2> HIDE DEF after
    <2>7. Chosen(conflicts') = Chosen(conflicts)
      BY <1>0, <2>1, <2>5, SameChoices
    <2>8. TagOpen'
      <3>1. "tag" \notin DOMAIN Chosen(conflicts)
        BY <1>0, <2>2, ChosenIs
      <3>2. QED
        BY <2>1, <2>4, <2>6, <3>1, TagDisputed DEF TagOpen
    <2>9. assessment' = Assess(Records(evidence'), Chosen(conflicts'))
      BY <2>1, <2>3, <2>4, <2>7
    <2>10. Figured'
      BY <2>1, <2>9 DEF Figured, Early
    <2>11. QED
      BY <2>8, <2>10
  <1>4. CASE EngineerStated
    <2>1. /\ assessment'.severity = Nothing /\ stage' = "maintain" /\ conflicts' = <<>>
      BY <1>4, UnassessedIs DEF EngineerStated, Figured, Early
    <2>2. DOMAIN conflicts' = {}
      BY <2>1
    <2>3. QED
      BY <2>1, <2>2 DEF Figured, TagOpen, Early
  <1>5. CASE ReadImages \/ Plan \/ ReadFile \/ FilesRead \/ Retrieve \/ NothingToEngineer
    <2>1. assessment' = Nothing /\ conflicts' = <<>>
      BY <1>5 DEF ReadImages, Plan, ReadFile, FilesRead, Retrieve, NothingToEngineer, Figured, Early, gathered
    <2>2. DOMAIN conflicts' = {}
      BY <2>1
    <2>3. QED
      BY <2>1, <2>2 DEF Figured, TagOpen
  <1>6. CASE CompareFacts
    <2> DEFINE after == WithContradictions(conflicts, evidence)
    <2>1. stage' = "screen" /\ conflicts' = after /\ UNCHANGED <<evidence, assessment>>
      BY <1>6 DEF CompareFacts
    <2>2. /\ Shape(after) /\ DOMAIN conflicts \subseteq DOMAIN after
          /\ \A k \in DOMAIN conflicts : after[k] = conflicts[k]
          /\ \A k \in DOMAIN after \ DOMAIN conflicts : after[k].kind = "fact" /\ after[k].status = "unresolved"
      BY <1>0, ContradictionsRecorded
    <2>3. Input("tag") \notin Topics
      BY SourceAssumption DEF Input, Topics
    <2>4. \A k \in DOMAIN after \ DOMAIN conflicts : k \in Topics
      BY DEF WithContradictions
    <2> HIDE DEF after
    <2>5. Chosen(conflicts') = Chosen(conflicts)
      BY <1>0, <2>1, <2>2, SameChoices
    <2>6. QED
      BY <2>1, <2>3, <2>4, <2>5, FiguresKept DEF Early
  <1>7. CASE Maintain \/ WalkDrawing \/ NoDrawing \/ Screen \/ Code
    <2>1. ~ ResolveConflict /\ stage \in Past
      <3>1. stage \in Past /\ stage # "done"
        BY <1>7 DEF Maintain, WalkDrawing, NoDrawing, Screen, Code, Past, Compared
      <3>2. QED
        BY <3>1, ChosenAtRest
    <2>2. Records(evidence') = Records(evidence)
      <3>1. Next
        BY <1>7 DEF Next
      <3>2. QED
        BY <2>1, <3>1, RecordsStay
    <2>3. UNCHANGED <<conflicts, assessment>> /\ stage' \notin Early
      BY <1>7 DEF Maintain, WalkDrawing, NoDrawing, Screen, Code, Early, gathered
    <2>4. QED
      BY <2>2, <2>3, FiguresKept
  <1>8. CASE Reason \/ Verify \/ Draft \/ NoDraft \/ Gate \/ Settle \/ Converse \/ HonourStop \/ Fail
    <2>1. UNCHANGED <<evidence, conflicts, assessment>> /\ stage' \notin Early
      BY <1>8 DEF Reason, Verify, Draft, NoDraft, Gate, Settle, Converse, HonourStop, Fail, Early, gathered
    <2>2. QED
      BY <2>1, FiguresKept
  <1>9. CASE RequestStop
    BY <1>9 DEF RequestStop, gathered, Figured, TagOpen
  <1>10. QED
    BY <1>1, <1>2, <1>3, <1>4, <1>5, <1>6, <1>7, <1>8, <1>9 DEF Next

LEMMA FiguresInit == Init => Figured /\ TagOpen
  BY DEF Init, Figured, TagOpen

(* A field in no dispute is worth what the formulas take for it, and no    *)
(* other value.                                                            *)
LEMMA WorthIs ==
    ASSUME PTypes, Surveyors(evidence), Recording, NEW f \in Fields,
           f \notin Disputes(Records(evidence), Chosen(conflicts))
    PROVE  LET taken == Merged(Records(evidence), Chosen(conflicts))[f]
           IN  /\ Worth(f) = IF taken = Nothing THEN {} ELSE {taken}
               /\ f # "tag" => taken \in Nat \cup {Nothing}
  <1> DEFINE sources == Records(evidence)
             chosen == Chosen(conflicts)
             kept == Describing(sources, chosen)
             taken == Merged(sources, chosen)[f]
             about == {s \in Read : "tag" \in DOMAIN chosen =>
                                       Source[s].says["tag"] \in {Nothing, chosen["tag"]}}
             stated == {Source[s].says[f] : s \in about} \ {Nothing}
  <1>1. Worth(f) = IF f \in DOMAIN chosen /\ (f \in Readings => stated # {}) THEN {chosen[f]} ELSE stated
    BY DEF Worth
  <1>2. /\ DOMAIN sources = Surveys(evidence) /\ Surveys(evidence) \subseteq Nat
        /\ \A i \in Surveys(evidence) : sources[i] = Source[evidence[i].source].says
    BY RecordsAre DEF PTypes
  <1>3. Read = {evidence[i].source : i \in Surveys(evidence)}
    BY DEF Read, Surveys
  <1>4. /\ f \in DOMAIN chosen => chosen[f] # Nothing /\ (f # "tag" => chosen[f] \in Nat)
    BY ChosenIs DEF Recording
  <1>5. Nothing \notin Stated(f, kept) /\ (f # "tag" => Stated(f, kept) \subseteq Nat)
    BY StatedIs
  <1>6. /\ taken = IF Taken(f, sources, chosen) THEN chosen[f] ELSE FirstStated(f, kept)
        /\ Taken(f, sources, chosen) <=> f \in DOMAIN chosen /\ (f \in Readings => Stated(f, kept) # {})
        /\ f \notin DOMAIN chosen => ~ Several(Stated(f, kept))
    BY DEF Merged, Taken, Disputes
  <1>7. \/ kept = sources /\ "tag" \notin DOMAIN chosen
        \/ /\ "tag" \in DOMAIN chosen
           /\ kept = [i \in {i \in DOMAIN sources : sources[i]["tag"] \in {Nothing, chosen["tag"]}} |-> sources[i]]
    BY DEF Describing, Restrict
  <1> HIDE DEF sources, chosen, kept, taken
  <1>8. /\ DOMAIN kept = {i \in DOMAIN sources : "tag" \in DOMAIN chosen =>
                                                    sources[i]["tag"] \in {Nothing, chosen["tag"]}}
        /\ \A i \in DOMAIN kept : kept[i] = sources[i]
    BY <1>7
  <1>9. stated = Stated(f, kept)
    <2>1. ASSUME NEW v PROVE v \in stated <=> v \in Stated(f, kept)
      <3>1. v \in Stated(f, kept) <=> v # Nothing /\ \E i \in DOMAIN kept : v = kept[i][f]
        BY DEF Stated
      <3>2. v \in stated <=> v # Nothing /\ \E s \in about : v = Source[s].says[f]
        OBVIOUS
      <3>3. ASSUME NEW i \in DOMAIN kept PROVE \E s \in about : kept[i][f] = Source[s].says[f]
        <4>1. i \in Surveys(evidence) /\ kept[i] = Source[evidence[i].source].says
          BY <1>2, <1>8
        <4>2. evidence[i].source \in Read
          BY <1>3, <4>1
        <4>3. evidence[i].source \in about
          BY <1>2, <1>8, <4>1, <4>2
        <4>4. QED
          BY <4>1, <4>3
      <3>4. ASSUME NEW s \in about PROVE \E i \in DOMAIN kept : kept[i][f] = Source[s].says[f]
        <4>1. PICK i \in Surveys(evidence) : evidence[i].source = s
          BY <1>3
        <4>2. sources[i] = Source[s].says /\ i \in DOMAIN sources
          BY <1>2, <4>1
        <4>3. i \in DOMAIN kept
          BY <1>8, <4>2
        <4>4. QED
          BY <1>8, <4>2, <4>3
      <3> HIDE DEF about, stated
      <3>5. QED
        BY <3>1, <3>2, <3>3, <3>4
    <2> HIDE DEF stated
    <2>2. QED
      BY <2>1
  <1> HIDE DEF stated
  <1>10. DOMAIN kept \subseteq Nat
    BY <1>2, <1>8
  <1>11. CASE Taken(f, sources, chosen)
    <2>1. taken = chosen[f] /\ f \in DOMAIN chosen /\ Worth(f) = {chosen[f]}
      BY <1>1, <1>6, <1>9, <1>11
    <2>2. QED
      BY <1>4, <2>1 DEF taken, sources, chosen
  <1>12. CASE ~ Taken(f, sources, chosen)
    <2>1. taken = FirstStated(f, kept) /\ Worth(f) = Stated(f, kept)
      BY <1>1, <1>6, <1>9, <1>12
    <2>2. ~ Several(Stated(f, kept))
      BY <1>6, <1>12 DEF Several
    <2> DEFINE values == Stated(f, kept)
    <2>3. IF values = {} THEN taken = Nothing ELSE taken \in values
      BY <1>10, <2>1, FirstStatedIs
    <2>4. Nothing \notin values /\ (f # "tag" => values \subseteq Nat)
      BY <1>5
    <2>5. ~ Several(values) /\ Worth(f) = values
      BY <2>1, <2>2
    <2> HIDE DEF values
    <2>6. /\ Worth(f) = IF taken = Nothing THEN {} ELSE {taken}
          /\ f # "tag" => taken \in Nat \cup {Nothing}
      BY <2>3, <2>4, <2>5 DEF Several
    <2>7. QED
      BY <2>6 DEF taken, sources, chosen
  <1>13. QED
    BY <1>11, <1>12

(* Calculated figures are of an undisputed vessel, completely described.   *)
LEMMA CalculatedIs ==
    ASSUME NEW sources, NEW chosen, NEW decided, decided = Assess(sources, chosen),
           Calculated(decided), decided.severity # Nothing
    PROVE  /\ decided = AssessVessel(Merged(sources, chosen))
           /\ ~ Incomplete(Merged(sources, chosen))
           /\ \A f \in Fields \ RecordedOnly : f \notin Disputes(sources, chosen)
  <1> DEFINE inputs == Merged(sources, chosen)
  <1>1. decided # Nothing /\ decided.status = "calculated"
    BY DEF Calculated
  <1>2. decided = CASE ~ Found(inputs) -> Nothing
          [] Found(inputs) /\ \E f \in Disputes(sources, chosen) : Impact(f) = "high" -> Unassessed("conflicted")
          [] OTHER -> AssessVessel(inputs)
    BY DEF Assess
  <1> HIDE DEF inputs
  <1>3. decided # Unassessed("conflicted") /\ decided # Unassessed("cannot_calculate")
    BY <1>1, UnassessedIs
  <1>4. decided = AssessVessel(inputs) /\ \A f \in Disputes(sources, chosen) : Impact(f) # "high"
    BY <1>1, <1>2, <1>3
  <1>5. ~ Incomplete(inputs)
    BY <1>3, <1>4 DEF AssessVessel
  <1>6. \A f \in Fields \ RecordedOnly : f \notin Disputes(sources, chosen)
    BY <1>4 DEF Impact
  <1>7. QED
    BY <1>4, <1>5, <1>6 DEF inputs

LEMMA AssessedIs ==
    ASSUME NEW inputs, ~ Incomplete(inputs), NEW decided, decided = AssessVessel(inputs)
    PROVE  LET below == {l \in Readings : inputs[l] # Nothing /\ BelowTMin(inputs, l)}
           IN  /\ decided.severity = "high" <=> below # {}
               /\ decided.breach => /\ below = {} /\ inputs["operating_pressure"] # Nothing
                                    /\ ~ WithinEnvelope(inputs["operating_pressure"])
  <1> DEFINE below == {l \in Readings : inputs[l] # Nothing /\ BelowTMin(inputs, l)}
             governing == Governing(inputs)
             life == Life(inputs, governing)
             withdraw == Withdrawn(below, life)
             interim == FfsTriggered(below, life, LocalLoss(inputs, governing)) /\ ~ withdraw
             breach == /\ interim
                       /\ inputs["operating_pressure"] # Nothing
                       /\ ~ WithinEnvelope(inputs["operating_pressure"])
  <1>1. decided = [status |-> "calculated", severity |-> VesselSeverity(below, life),
                   months |-> SurveyMonths(below, life), withdraw |-> withdraw, breach |-> breach]
    BY DEF AssessVessel
  <1>2. below # {} => withdraw
    BY DEF Withdrawn
  <1>3. breach => ~ withdraw /\ inputs["operating_pressure"] # Nothing
                    /\ ~ WithinEnvelope(inputs["operating_pressure"])
    OBVIOUS
  <1> HIDE DEF below, life, withdraw, breach
  <1>4. VesselSeverity(below, life) = "high" <=> below # {}
    BY DEF VesselSeverity
  <1>5. /\ decided.severity = VesselSeverity(below, life)
        /\ decided.breach <=> breach
    BY <1>1
  <1>6. QED
    BY <1>2, <1>3, <1>4, <1>5 DEF below

LEMMA FiguresHold ==
    ASSUME PTypes, Surveyors(evidence), Recording, Figured
    PROVE  FiguresAreUndisputed
  <1> SUFFICES ASSUME Calculated(assessment), assessment.severity # Nothing
               PROVE  /\ \A f \in Fields \ RecordedOnly : Cardinality(Worth(f)) <= 1
                      /\ LET thin == \E l \in Readings : \E w \in Worth(l), m \in Worth("t_min") : w < m
                         IN  /\ assessment.severity = "high" <=> thin
                             /\ assessment.breach =>
                                   ~ thin /\ \E w \in Worth("operating_pressure") : 10 * w > 9 * Mawp
    BY DEF FiguresAreUndisputed
  <1> DEFINE sources == Records(evidence)
             chosen == Chosen(conflicts)
             inputs == Merged(sources, chosen)
             below == {l \in Readings : inputs[l] # Nothing /\ BelowTMin(inputs, l)}
             thin == \E l \in Readings : \E w \in Worth(l), m \in Worth("t_min") : w < m
  <1>1. assessment = Assess(sources, chosen)
    BY DEF Figured, Calculated
  <1>2. /\ assessment = AssessVessel(inputs) /\ ~ Incomplete(inputs)
        /\ \A f \in Fields \ RecordedOnly : f \notin Disputes(sources, chosen)
    BY <1>1, CalculatedIs
  <1>3. \A f \in Fields \ RecordedOnly :
           /\ Worth(f) = IF inputs[f] = Nothing THEN {} ELSE {inputs[f]}
           /\ f # "tag" => inputs[f] \in Nat \cup {Nothing}
    BY <1>2, WorthIs
  <1>4. /\ "t_min" \in Fields \ RecordedOnly /\ "operating_pressure" \in Fields \ RecordedOnly
        /\ \A l \in Readings : l \in Fields \ RecordedOnly /\ l # "tag"
    BY IntegrityAssumption DEF Fields, RecordedOnly, Readings
  <1>5. /\ assessment.severity = "high" <=> below # {}
        /\ assessment.breach => /\ below = {} /\ inputs["operating_pressure"] # Nothing
                                /\ ~ WithinEnvelope(inputs["operating_pressure"])
    BY <1>2, AssessedIs
  <1>6. inputs["t_min"] # Nothing
    BY <1>2 DEF Incomplete
  <1> HIDE DEF inputs
  <1>7. \A f \in Fields \ RecordedOnly : Cardinality(Worth(f)) <= 1
    <2> SUFFICES ASSUME NEW f \in Fields \ RecordedOnly PROVE Cardinality(Worth(f)) <= 1
      OBVIOUS
    <2>1. Worth(f) = {} \/ Worth(f) = {inputs[f]}
      BY <1>3
    <2>2. Cardinality({}) = 0 /\ Cardinality({inputs[f]}) = 1
      BY FS_EmptySet, FS_Singleton
    <2>3. QED
      BY <2>1, <2>2
  <1>8. thin <=> below # {}
    <2>1. Worth("t_min") = {inputs["t_min"]}
      BY <1>3, <1>4, <1>6
    <2>2. \A l \in Readings : (\E w \in Worth(l) : w < inputs["t_min"]) <=> l \in below
      BY <1>3, <1>4 DEF BelowTMin
    <2>3. QED
      BY <2>1, <2>2
  <1>9. assessment.breach => \E w \in Worth("operating_pressure") : 10 * w > 9 * Mawp
    <2> SUFFICES ASSUME assessment.breach PROVE \E w \in Worth("operating_pressure") : 10 * w > 9 * Mawp
      OBVIOUS
    <2> DEFINE w == inputs["operating_pressure"]
    <2>1. w \in Worth("operating_pressure") /\ w \in Nat /\ ~ WithinEnvelope(w)
      BY <1>3, <1>4, <1>5
    <2> HIDE DEF w
    <2>2. 10 * w > 9 * Mawp
      BY <2>1, IntegrityAssumption DEF WithinEnvelope
    <2>3. QED
      BY <2>1, <2>2
  <1>10. QED
    BY <1>5, <1>7, <1>8, <1>9

(* What is calculated of a vessel is calculated of values no two records   *)
(* dispute, or a person chose; it is severe where a wall is below its      *)
(* minimum, and interim operation is refused above its limit               *)
(* (assess_vessel, blocking_conflicts, resolve_conflict).                  *)
THEOREM Figures == Spec => []FiguresAreUndisputed
  <1>1. /\ PTypes /\ Running /\ Surveyors(evidence) /\ Recording /\ ReportInv /\ AllSourced
        /\ Figured /\ TagOpen /\ [Next]_vars
        => (Figured /\ TagOpen)'
    BY FiguresStep
  <1>2. PTypes /\ Surveyors(evidence) /\ Recording /\ Figured => FiguresAreUndisputed
    BY FiguresHold
  <1>3. QED
    BY FiguresInit, PipelineTyped, Surveying, RecordKept, ReportKept, SourcesNoticed, <1>1, <1>2, PTL DEF Spec
=============================================================================
