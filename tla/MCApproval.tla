----------------------------- MODULE MCApproval ------------------------------
(* Approval for TLC: people who could sign first, one of whom ran the run, *)
(* a second authority and a general reviewer.                              *)
EXTENDS Approval

CONSTANTS head, deputy, runningHead, manager, reviewer,  \* accounts
          headOfInspection, plantManager, review,   \* roles
          shipped, revised,                         \* policies
          high, low,                                \* severities
          k1, k2                                    \* conflicts

MCRoleOf ==
    [u \in Users |-> IF u = manager THEN plantManager
                     ELSE IF u = reviewer THEN review ELSE headOfInspection]

(* The shipped rule for a High finding; a revision of it that reverses the *)
(* order and asks a signature for a low one too.                           *)
MCPlan ==
    [p \in Policies |-> [s \in Severities |->
        IF p = shipped
        THEN IF s = high THEN <<headOfInspection, plantManager>> ELSE <<>>
        ELSE IF s = high THEN <<plantManager, headOfInspection>> ELSE <<plantManager>>]]

(* Bound: a run with a second conflict, or with anything of version 1, is  *)
(* followed only while nothing disrupts it, and not with both.             *)
Bounded ==
    LET version1 == row.digest.version = 1 \/ \E s \in Range(row.signatures) : s.on.version = 1
        second   == row.conflicts[k2] # "unseen"
    IN  /\ ~ (version1 /\ second)
        /\ version1 \/ second => disruptions = 0 /\ disk = shipped
=============================================================================
