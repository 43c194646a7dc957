--------------------------- MODULE HarnessExpansion ---------------------------
(***************************************************************************)
(* A harness's inputs into the rows it would submit, and the choice a      *)
(* start makes among them (harness/expansion.py, definitions.py and        *)
(* corpus.py).  A definition fans out either the lines a person typed or   *)
(* the indexed sections the person may retrieve.                           *)
(***************************************************************************)
EXTENDS Naturals, Sequences, FiniteSets

(* A definition file as the loader accepts it: the fields that decide what *)
(* is submitted and what its report needs.                                 *)
Definition == [source : {"input_lines", "knowledge_sections"}, limit : Nat,
               required : BOOLEAN, approval : BOOLEAN]

(* Of the files that declare a harness: with two of them neither is         *)
(* offered, since which one ran would depend on the order files sort in.   *)
Loaded(directory) == IF Cardinality(directory) = 1 THEN directory ELSE {}

(* Repeated lines run once, where they first occur. *)
Unique(lines) == {n \in DOMAIN lines : \A m \in 1..n - 1 : lines[m] # lines[n]}

(* The number of a line among those kept. *)
Number(lines, n) == Cardinality(Unique(lines) \cap 1..n)

(* An input the definition takes: nothing is cut to fit. *)
Accepts(definition, lines) ==
    definition.source = "input_lines" =>
        /\ Cardinality(Unique(lines)) <= definition.limit
        /\ definition.required => Unique(lines) # {}

(* The sections within the scope; their numbers are in document order. *)
ListSections(corpus, scope) == corpus \cap scope

(* A plan's rows, each with the key that stays its own whatever else is    *)
(* selected, and which orders them: typed lines are keyed by their number, *)
(* sections by what they are.                                              *)
PlanRows(definition, lines, corpus, scope) ==
    IF definition.source = "input_lines"
    THEN {[key |-> Number(lines, n), asks |-> lines[n]] : n \in Unique(lines)}
    ELSE {[key |-> s, asks |-> s] : s \in ListSections(corpus, scope)}

Keys(rows) == {row.key : row \in rows}

RowOf(rows, key) == CHOOSE row \in rows : row.key = key

(* The keys a start submits: all that were selected or, for a selection    *)
(* that is no longer there, empty or over the limit, none.                 *)
Selected(definition, rows, wanted) ==
    IF wanted \subseteq Keys(rows) /\ Cardinality(wanted) <= definition.limit THEN wanted ELSE {}
=============================================================================
