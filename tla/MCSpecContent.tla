---------------------------- MODULE MCSpecContent ----------------------------
(***************************************************************************)
(* SpecContent on small instances: files of two rows that are fine, share  *)
(* an id or leave it blank, a constraint only one problem type supports,   *)
(* and an ambiguity about the other one.                                   *)
(***************************************************************************)
EXTENDS SpecContent, TLC

CONSTANTS f1, f2, fine, dup, blank, broken, a, b, noCell, van, box, limit, none

MCCells == [c \in {fine, dup, blank} |->
              CASE c = fine -> <<a, b>> [] c = dup -> <<a, a>>
           [] c = blank -> <<a, noCell>>]

MCSupported == [assignment |-> {"coverage"}, allocation |-> {"coverage", "budget"}]
MCConstraints == <<"coverage", "budget">>

Ambiguity(name, about, map, blocking) ==
    [about |-> name, target |-> about, effect |-> map, resolution |-> none,
     blocking |-> blocking]
MCAmbiguities == <<Ambiguity("how many", "coverage", [once |-> "=1", most |-> "<=1"], TRUE),
                   Ambiguity("how much", "budget", [once |-> "100", most |-> "200"], FALSE),
                   Ambiguity("whether", "coverage", [once |-> "=2", cancel |-> "=0"], TRUE)>>
MCRouting == Ambiguity("routing", none, <<>>, TRUE)

Reply(t, found, raised, routing, list) ==
    [type |-> t, found |-> found, raised |-> raised, routing |-> routing, entities |-> list]
FromText == <<[id |-> a, category |-> van, source |-> none, row |-> 0]>>

Entity(category, byId) ==
    [role |-> "entity", category |-> category, byId |-> byId, confirmed |-> FALSE]

\* Tables: two files of any role, no constraint that raises a question.
TableWorld ==
    [uploads |-> (f1 :> {fine, dup, broken} @@ f2 :> {blank}),
     classes |-> (f1 :> {Entity(van, FALSE), Entity(van, TRUE),
                         [role |-> "parameter", field |-> limit, confirmed |-> FALSE]}
               @@ f2 :> {Entity(van, TRUE), [role |-> "cost_matrix", confirmed |-> FALSE],
                         [role |-> "relationship", confirmed |-> TRUE]}),
     replies |-> {Reply("assignment", {"coverage"}, {}, FALSE, list) : list \in {<<>>, FromText}}]

\* Questions: whatever the LLM extracts and asks, one table that needs nothing.
QuestionWorld ==
    [uploads |-> (f1 :> {fine} @@ f2 :> {}),
     classes |-> (f1 :> {Entity(van, TRUE)} @@ f2 :> {}),
     replies |-> {Reply(t, {"coverage", "budget"}, raised, FALSE, <<>>) :
                     t \in {"assignment", "allocation"},
                     raised \in {{"how many"}, {"how many", "how much"}}}
                 \cup {Reply("allocation", {"coverage"}, {"how many"}, TRUE, <<>>)}]

\* Two questions about one constraint.
SharedWorld ==
    [uploads |-> (f1 :> {} @@ f2 :> {}),
     classes |-> (f1 :> {} @@ f2 :> {}),
     replies |-> {Reply("assignment", {"coverage"}, {"how many", "whether"}, FALSE, FromText)}]

MCWorlds == {TableWorld, QuestionWorld, SharedWorld}

=============================================================================
