------------------------------ MODULE MCHarness -------------------------------
(* HarnessRunner for TLC: two versions of each kind of definition, three   *)
(* sections of which two are in scope, and lines with a repeated question. *)
EXTENDS HarnessRunner

CONSTANTS q1, q2   \* questions

MCLines == {<<q1, q2, q1>>}

MCDefinitions ==
    {[source |-> "knowledge_sections", limit |-> 2, required |-> FALSE, approval |-> TRUE],
     [source |-> "input_lines", limit |-> 2, required |-> TRUE, approval |-> FALSE]}
=============================================================================
