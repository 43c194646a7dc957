-------------------------------- MODULE Drawing --------------------------------
(***************************************************************************)
(* How a P&ID says a piece of equipment is isolated (engineering/pid.py):  *)
(* every branch out of it is walked to the first header, junction or       *)
(* equipment, and judged by the valves, bleeds and blinds passed.          *)
(*                                                                         *)
(* A walk is cut into its steps.  Control valves stand for every inline    *)
(* element that does not isolate, equipment for boundaries and instrument  *)
(* nodes too; at most one line joins two elements; the affected equipment, *)
(* the control loops and the wording are left out.                         *)
(***************************************************************************)
EXTENDS Integers, Sequences, FiniteSets

CONSTANTS
    Others,    \* bound: the elements beside the tag
    Shapes,    \* bound: the sets of lines, each {element, element}, of the drawings
    Tag        \* what is to be isolated

ASSUME DrawingAssumption ==
    /\ Tag \notin Others /\ IsFiniteSet(Others)
    /\ \A shape \in Shapes : shape \subseteq {{e, f} : e, f \in Others \cup {Tag}}

VARIABLES
    drawing,   \* Drawing.nodes (types) and edges, and those in utility service
    purpose,
    ahead,     \* neighbours of the tag whose branch is still to be walked
    walk,      \* the branch being walked
    judged     \* branches

drawingVars == <<drawing, purpose, ahead, walk, judged>>

BLOCK  == {"gate_valve"}
INLINE == BLOCK \cup {"control_valve", "spectacle_blind", "bleed"}
Purposes == {"entry", "maintenance"}     \* hot work is judged as entry is

TypeOf(e) == IF e = Tag THEN "equipment" ELSE drawing.types[e]
Neighbours(e) == {f \in Others \cup {Tag} : f # e /\ {e, f} \in drawing.lines}

NoWalk == [first |-> Tag, previous |-> Tag, current |-> Tag, elements |-> <<>>]

-----------------------------------------------------------------------------
(* Judging a branch by what it passes, nearest first: the elements are     *)
(* spoken of by their places.                                              *)
OfType(elements, types) == {i \in DOMAIN elements : TypeOf(elements[i]) \in types}
NearestOf(places) == {i \in places : \A j \in places : i <= j}
FarthestOf(places) == {i \in places : \A j \in places : j <= i}
Passed(elements, places) == {elements[i] : i \in places}

BlocksBefore(elements, i) == {p \in OfType(elements, BLOCK) : p < i}
BlocksAfter(elements, i) == {q \in OfType(elements, BLOCK) : i < q}

(* Bleeds with a block valve on either side. *)
Bled(elements) ==
    {i \in OfType(elements, {"bleed"}) : BlocksBefore(elements, i) # {} /\ BlocksAfter(elements, i) # {}}

(* The first bleed, the last valve before it and the first after it. *)
DoubleBlock(elements) ==
    [valves |-> UNION {Passed(elements, FarthestOf(BlocksBefore(elements, i)) \cup
                                        NearestOf(BlocksAfter(elements, i))) : i \in NearestOf(Bled(elements))},
     bleed  |-> Passed(elements, NearestOf(Bled(elements)))]

JudgeBranch(first, elements) ==
    LET blocks    == OfType(elements, BLOCK)
        blinds    == OfType(elements, {"spectacle_blind"})
        dbb       == Bled(elements) # {}
        hazardous == {Tag, first} \notin drawing.utility
        positive  == purpose = "entry"
        byValves  == ~positive /\ (dbb \/ (blinds = {} /\ blocks # {} /\ ~hazardous))
    IN  [first     |-> first,
         hazardous |-> hazardous,
         byValves  |-> byValves,
         compliant |-> byValves \/ blinds # {},
         close     |-> IF dbb THEN DoubleBlock(elements).valves
                       ELSE IF blinds # {} \/ ~hazardous THEN Passed(elements, NearestOf(blocks)) ELSE {},
         bleeds    |-> DoubleBlock(elements).bleed,
         blind     |-> Passed(elements, NearestOf(blinds))]

-----------------------------------------------------------------------------
DrawingInit ==
    /\ \E types \in [Others -> INLINE \cup {"equipment"}], lines \in Shapes :
          \E utility \in SUBSET {l \in lines : Tag \in l} :
              drawing = [types |-> types, lines |-> lines, utility |-> utility]
    /\ purpose \in Purposes
    /\ ahead = {f \in Others : {Tag, f} \in drawing.lines}
    /\ walk = NoWalk
    /\ judged = {}

Begin(first) ==
    /\ walk = NoWalk
    /\ first \in ahead
    /\ ahead' = ahead \ {first}
    /\ walk' = [first |-> first, previous |-> Tag, current |-> first, elements |-> <<>>]
    /\ UNCHANGED <<drawing, purpose, judged>>

Onward == Neighbours(walk.current) \ {walk.previous}

(* Mutation: a junction is passed, along either of its lines. *)
EndsAtDeadEnd(onward) == onward = {}

EndsBranch(onward) == Cardinality(onward) # 1

Follow ==
    /\ walk # NoWalk
    /\ TypeOf(walk.current) \in INLINE
    /\ ~EndsBranch(Onward)
    /\ \E next \in Onward :
          walk' = [walk EXCEPT !.previous = walk.current, !.current = next,
                               !.elements = Append(@, walk.current)]
    /\ UNCHANGED <<drawing, purpose, ahead, judged>>

EndBranch ==
    /\ walk # NoWalk
    /\ TypeOf(walk.current) \notin INLINE \/ EndsBranch(Onward)
    /\ LET passed == IF TypeOf(walk.current) \in INLINE THEN Append(walk.elements, walk.current)
                                                        ELSE walk.elements
       IN  judged' = judged \cup {JudgeBranch(walk.first, passed)}
    /\ walk' = NoWalk
    /\ UNCHANGED <<drawing, purpose, ahead>>

DrawingNext == (\E first \in ahead : Begin(first)) \/ Follow \/ EndBranch

DrawingSpec == DrawingInit /\ [][DrawingNext]_drawingVars
-----------------------------------------------------------------------------
(* What `from` is still joined to when the elements of `cut` let nothing   *)
(* through: what is on its side of every parting of the drawing that no    *)
(* line crosses but to a cut element.                                      *)
Parted(side, cut) ==
    \A e \in side, f \in (Others \cup {Tag}) \ cut : {e, f} \in drawing.lines => f \in side

Joined(from, cut) ==
    {f \in Others \cup {Tag} :
        \A side \in SUBSET (Others \cup {Tag}) : from \in side /\ Parted(side, cut) => f \in side}

Equipment == {e \in Others : TypeOf(e) = "equipment"}

Isolated(cut) == Joined(Tag, cut) \cap Equipment = {}

(* An isolation reported compliant (Drawing.isolation) does isolate,       *)
(* whatever the drawing: its valves and blinds leave the tag joined to no  *)
(* equipment; for entry the blinds alone do; any one valve may leak, save  *)
(* those a branch in utility service relies on; and no bleed it opens is   *)
(* joined to the tag or to other equipment.                                *)
IsolationHolds ==
    (ahead = {} /\ walk = NoWalk /\ \A b \in judged : b.compliant) =>
        LET valves   == UNION {b.close : b \in judged}
            blinds   == UNION {b.blind : b \in {c \in judged : ~c.byValves}}   \* those turned
            reliedOn == UNION {b.close : b \in {c \in judged : ~c.hazardous}}
        IN  /\ Isolated(valves \cup blinds)
            /\ purpose = "entry" => Isolated(blinds)
            /\ \A v \in valves \ reliedOn : Isolated((valves \cup blinds) \ {v})
            /\ \A b \in judged : \A bleed \in b.bleeds :
                  Joined(bleed, valves \cup blinds) \cap (Equipment \cup {Tag}) = {}
=============================================================================
