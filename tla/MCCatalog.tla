----------------------------- MODULE MCCatalog -----------------------------
(* Instances of Catalog for TLC. *)
EXTENDS Catalog, TLC

CONSTANTS r1, r2, st1, st2, s1, s2, html, csv, plain, metric, broken, q1, q2

OneRequest == {r1}
TwoRequests == {r1, r2}
OneStage == {st1}
TwoStages == {st1, st2}
OneSource == {html}
TwoSources == {html, csv}
AllRecipes == {plain, metric, broken}
GoodRecipes == {plain, metric}
MetricOrBroken == {metric, broken}
MetricOnly == {metric}
OneRule == {q1}
TwoRules == {q1, q2}
NoRules == {}

TwoSubjects == {<<s1, 1>>, <<s2, 1>>}
TwoVersions == {<<s1, 1>>, <<s1, 2>>, <<s2, 1>>}
SeededSubject == {<<s2, 1>>}

MetricRefs == [c \in Recipes |-> IF c = metric THEN {q1} ELSE {}]
(* metric's proposal brings a row rule that need not exist, plain's one. *)
MetricRowRules == [c \in Recipes |-> IF c = metric THEN {q2} ELSE {}]
PlainRowRules == [c \in Recipes |-> IF c = plain THEN {q1} ELSE {}]

Symmetry == Permutations(Requests)
=============================================================================
