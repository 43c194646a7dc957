----------------------------- MODULE Integrity ------------------------------
(***************************************************************************)
(* The deterministic engineering of a vessel's inspection records: what    *)
(* the sources say is merged, what they disagree about is a dispute, and   *)
(* without one the registered formulas give the rates, the remaining life, *)
(* the governing location, the severity and the next survey.               *)
(*                                                                         *)
(* Units: thickness in tenths of a millimetre, pressures in tenths of a    *)
(* bar, years in tenths, rates in 10^-6 mm/year (what the code rounds to), *)
(* lives in hundredths of a year (likewise), losses in tenths of a percent.*)
(***************************************************************************)
EXTENDS Integers, Sequences, FiniteSets, SequencesExt, FiniteSetsExt, Functions

CONSTANTS
    Locations,    \* thickness measurement locations, in the order of the table
    Previous,     \* the earlier reading of each
    YearsBetween, \* between the two inspections
    InService,    \* years in service at the second
    Mawp,         \* the registered maximum allowable working pressure
    Months,       \* the survey interval of the service category
    Nothing       \* a field no source states

ASSUME IntegrityAssumption ==
    /\ Locations # <<>>
    /\ ToSet(Locations) \cap {"tag", "design_pressure", "operating_pressure", "nominal", "t_min"} = {}
    /\ Previous \in [ToSet(Locations) -> Nat]
    /\ YearsBetween \in Nat \ {0}
    /\ InService \in Nat \ {0}
    /\ Mawp \in Nat \ {0}
    /\ Months \in Nat \ {0}

Readings == ToSet(Locations)

Fields == {"tag", "design_pressure", "operating_pressure", "nominal", "t_min"} \cup Readings

(* What no formula reads is recorded, and withholds nothing.               *)
RecordedOnly == {"design_pressure"}

Impact(f) == IF f \in RecordedOnly THEN "medium" ELSE "high"

-----------------------------------------------------------------------------
(* Merging.  The sources are numbered in the order they were read; each    *)
(* states a value for some of the fields.                                  *)

(* The values the sources state for a field.                               *)
Stated(f, sources) == {sources[i][f] : i \in DOMAIN sources} \ {Nothing}

FirstStated(f, sources) ==
    LET where == {i \in DOMAIN sources : sources[i][f] # Nothing}
    IN  IF where = {} THEN Nothing ELSE sources[Min(where)][f]

(* A tag a person chose decides which records describe the vessel at all.  *)
Describing(sources, chosen) ==
    IF "tag" \in DOMAIN chosen
    THEN Restrict(sources, {i \in DOMAIN sources : sources[i]["tag"] \in {Nothing, chosen["tag"]}})
    ELSE sources

(* A person's choice replaces what the sources state.  A reading can only  *)
(* be replaced where a remaining source has that location.                 *)
Taken(f, sources, chosen) ==
    f \in DOMAIN chosen /\ (f \in Readings => Stated(f, Describing(sources, chosen)) # {})

Merged(sources, chosen) ==
    [f \in Fields |-> IF Taken(f, sources, chosen) THEN chosen[f]
                      ELSE FirstStated(f, Describing(sources, chosen))]

Several(values) == \E v, w \in values : v # w

Disputes(sources, chosen) ==
    {f \in Fields \ DOMAIN chosen : Several(Stated(f, Describing(sources, chosen)))}

(* Enough to call it an inspection record.                                 *)
Found(inputs) ==
    /\ \E l \in Readings : inputs[l] # Nothing
    /\ inputs["nominal"] # Nothing \/ inputs["t_min"] # Nothing

-----------------------------------------------------------------------------
(* Formulas. *)

(* A quotient to the nearest whole, for a positive divisor.                *)
Rounded(n, d) == (2 * n + d) \div (2 * d)

Higher(a, b) == IF a >= b THEN a ELSE b

Rate(from, to, years) == Rounded((from - to) * 1000000, years)

GoverningRate(inputs, l) ==
    Higher(Rate(Previous[l], inputs[l], YearsBetween), Rate(inputs["nominal"], inputs[l], InService))

(* Nothing when nothing measurable corrodes: life is then not limited.     *)
Life(inputs, l) ==
    LET rate == GoverningRate(inputs, l)
    IN  IF rate <= 0 THEN Nothing
        ELSE Rounded((inputs[l] - inputs["t_min"]) * 10000000, rate)

BelowTMin(inputs, l) == inputs[l] < inputs["t_min"]

LocalLoss(inputs, l) == Rounded((inputs["nominal"] - inputs[l]) * 1000, inputs["nominal"])

VesselSeverity(below, life) ==
    CASE below # {} -> "high"
      [] below = {} /\ life # Nothing /\ life < 400 -> "medium"
      [] OTHER -> "low"

FfsTriggered(below, life, loss) ==
    \/ below # {}
    \/ life # Nothing /\ life < 200
    \/ loss > 250

(* A vessel at or below t-min has no survey to wait for: it is withdrawn.  *)
Withdrawn(below, life) == below # {} \/ (life # Nothing /\ life <= 0)

SurveyMonths(below, life) ==
    CASE Withdrawn(below, life) -> Nothing
      [] ~ Withdrawn(below, life) /\ life # Nothing /\ life < 400 -> Months \div 2
      [] OTHER -> Months

(* Interim operation is only at 90% of the registered MAWP or lower.       *)
WithinEnvelope(operating) == operating * 10 <= Mawp * 9

-----------------------------------------------------------------------------
(* The assessment. *)

(* The table has a row for each location that was read.                    *)
Rows(inputs) == {i \in DOMAIN Locations : inputs[Locations[i]] # Nothing}

(* A wall thicker than it ever was is a misreading, to be confirmed.       *)
ToConfirm(inputs) ==
    {l \in Readings : inputs[l] # Nothing /\ inputs[l] > Previous[l] /\ inputs[l] > inputs["nominal"]}

Incomplete(inputs) ==
    \/ inputs["nominal"] = Nothing
    \/ inputs["t_min"] = Nothing
    \/ ToConfirm(inputs) # {}

Sooner(a, b) == a # Nothing /\ (b = Nothing \/ a < b)

(* The lowest remaining life governs; of equals, the first of the table.   *)
Governing(inputs) ==
    LET LifeAt(i) == Life(inputs, Locations[i])
    IN  Locations[CHOOSE i \in Rows(inputs) :
                     \A j \in Rows(inputs) : /\ ~ Sooner(LifeAt(j), LifeAt(i))
                                             /\ j < i => Sooner(LifeAt(i), LifeAt(j))]

Unassessed(status) ==
    [status |-> status, severity |-> Nothing, months |-> Nothing,
     withdraw |-> FALSE, breach |-> FALSE]

AssessVessel(inputs) ==
    IF Incomplete(inputs) THEN Unassessed("cannot_calculate")
    ELSE LET below == {l \in Readings : inputs[l] # Nothing /\ BelowTMin(inputs, l)}
             governing == Governing(inputs)
             life == Life(inputs, governing)
             withdraw == Withdrawn(below, life)
             interim == FfsTriggered(below, life, LocalLoss(inputs, governing)) /\ ~ withdraw
         IN  [status |-> "calculated",
              severity |-> VesselSeverity(below, life),
              months |-> SurveyMonths(below, life),
              withdraw |-> withdraw,
              breach |-> /\ interim
                         /\ inputs["operating_pressure"] # Nothing
                         /\ ~ WithinEnvelope(inputs["operating_pressure"])]

Assessments ==
    [status : {"calculated", "conflicted", "cannot_calculate"}, severity : {"high", "medium", "low", Nothing},
     months : Nat \cup {Nothing}, withdraw : BOOLEAN, breach : BOOLEAN]

(* The absence of a value is none of the values.                           *)
ASSUME NothingAssumption == Nothing \notin Nat \cup {"high", "medium", "low"} \cup Assessments

(* Mutant: of values in dispute the first is used.                         *)
AssessFirstStated(sources, chosen) ==
    LET inputs == Merged(sources, chosen)
    IN  IF Found(inputs) THEN AssessVessel(inputs) ELSE Nothing

(* Nothing where no record was found; withheld where a formula would read  *)
(* a value the sources disagree about.                                     *)
Assess(sources, chosen) ==
    LET inputs == Merged(sources, chosen)
    IN  CASE ~ Found(inputs) -> Nothing
          [] Found(inputs) /\ \E f \in Disputes(sources, chosen) : Impact(f) = "high" ->
                Unassessed("conflicted")
          [] OTHER -> AssessVessel(inputs)
=============================================================================
