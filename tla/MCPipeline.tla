----------------------------- MODULE MCPipeline -----------------------------
(* A small plant for Pipeline: one vessel surveyed at two locations.       *)
EXTENDS Pipeline, TLC

CONSTANT Undefined

MCLocations == <<"l1", "l2">>
MCPrevious == [l \in {"l1", "l2"} |-> 130]

Silent == [f \in {"tag", "design_pressure", "operating_pressure", "nominal", "t_min", "l1", "l2"} |-> Undefined]

(* l1 at 12.0 mm has years to live, at 10.4 mm months, at 9.8 mm none.     *)
Survey(tag, l1, design, operating) ==
    ("tag" :> tag) @@ ("l1" :> l1) @@ ("l2" :> 124) @@ ("nominal" :> 140) @@ ("t_min" :> 100)
        @@ ("design_pressure" :> design) @@ ("operating_pressure" :> operating)

Plain == [level |-> 0, carries |-> {}, instructs |-> FALSE, tabular |-> FALSE,
          active |-> TRUE, isolation |-> FALSE, says |-> Silent, facts |-> {}]

Rated(value) == {[subject |-> "V1", attribute |-> "set_pressure", value |-> value]}

MCSource ==
    ("table"   :> [Plain EXCEPT !.tabular = TRUE, !.says = Survey("V1", 120, 110, 95)]) @@
    ("report"  :> [Plain EXCEPT !.says = Survey("V1", 104, 100, 95), !.level = 1]) @@
    ("scan"    :> [Plain EXCEPT !.says = Survey("V2", 98, 100, Undefined)]) @@
    ("plate"   :> [Plain EXCEPT !.says = Survey("V2", Undefined, 100, Undefined)]) @@
    ("recheck" :> [Plain EXCEPT !.says = Survey("V1", 98, 100, 85)]) @@
    ("log"     :> [Plain EXCEPT !.says = [Silent EXCEPT !["operating_pressure"] = 80]]) @@
    ("ticket"  :> [Plain EXCEPT !.says = [Silent EXCEPT !["operating_pressure"] = 90]]) @@
    ("memo"    :> [Plain EXCEPT !.facts = Rated(10)]) @@
    ("sheet"   :> [Plain EXCEPT !.facts = Rated(12)]) @@
    ("old"     :> [Plain EXCEPT !.facts = Rated(12), !.active = FALSE, !.carries = {"email"}]) @@
    ("notice"  :> [Plain EXCEPT !.carries = {"marking"}]) @@
    ("letter"  :> [Plain EXCEPT !.instructs = TRUE, !.carries = {"key"}]) @@
    ("drawing" :> [Plain EXCEPT !.isolation = TRUE, !.level = 1])

(* The nameplate may be read again as that of a vessel no record is about. *)
MCMeasured == ("tag" :> {"V3"}) @@ [f \in DOMAIN Silent |-> {}]

Files(images, documents) == [images |-> images, documents |-> documents]

MCAttachments ==
    {Files(<<>>, <<>>), Files(<<>>, <<"table">>), Files(<<>>, <<"table", "report">>),
     Files(<<"scan">>, <<"report">>), Files(<<"plate">>, <<"report", "recheck">>),
     Files(<<>>, <<"log", "ticket">>)}
MCRetrievals == {<<>>, <<"memo", "old">>, <<"memo", "sheet">>, <<"notice">>, <<"letter">>}
MCDrawings == {"drawing"}

Claim(says, value, field, carried) == [says |-> says, value |-> value, field |-> field, carried |-> carried]

MCAnswers ==
    {{}, {Claim("severity", "low", Undefined, TRUE)}, {Claim("severity", "high", Undefined, FALSE)},
     {Claim("input", 120, <<Undefined, "l1">>, TRUE), Claim("disagreement", Undefined, Undefined, FALSE)},
     {Claim("fact", 10, <<"V1", "set_pressure">>, TRUE), Claim("disposition", Undefined, Undefined, FALSE)}}

Request == [kind |-> "analysis", level |-> 0, retrieval |-> TRUE, code |-> FALSE, deliverable |-> FALSE,
            confidence |-> "high", safety |-> FALSE, stated |-> FALSE, carries |-> {}]

MCProfiles ==
    {Request,
     [Request EXCEPT !.deliverable = TRUE, !.confidence = "low"],
     [Request EXCEPT !.kind = "calculation", !.stated = TRUE, !.retrieval = FALSE],
     [Request EXCEPT !.kind = "coding", !.code = TRUE, !.retrieval = FALSE, !.safety = TRUE],
     [Request EXCEPT !.kind = "conversation", !.carries = {"key", "email", "marking"}]}

MCBoundary ==
    [prompt      |-> [key |-> "block", email |-> "require_approval", marking |-> "allow"],
     answer      |-> [key |-> "block", email |-> "allow", marking |-> "allow"],
     deliverable |-> [key |-> "block", email |-> "require_approval", marking |-> "allow"]]
MCRaisesTo == [key |-> 3, email |-> 0, marking |-> 2]
=============================================================================
