----------------------------- MODULE MCAdmission -----------------------------
EXTENDS Admission

Rule(operations, apiVersions, resources) ==
    [operations |-> operations, apiVersions |-> apiVersions, resources |-> resources]

\* Rules that every kind accepts, that cluster-wide kinds accept, and that none
\* does.
MCRuleLists ==
    {{},
     {Rule({"CREATE"}, {"v1"}, {<<"pods">>})},
     {Rule({"CREATE"}, {"*"}, {<<"*">>})},
     {Rule({"CREATE"}, {"*"}, {<<"policyreports", "status">>})},
     {Rule({"CREATE"}, {"v1"}, {<<"pods">>}), Rule({"CREATE", ""}, {"v1"}, {<<"pods">>})}}

Condition(name, expression) == [name |-> name, expression |-> expression]

\* None, one, as many as are allowed, one more, a duplicate and a broken one.
MCConditionLists ==
    {<<>>,
     <<Condition("a", "ok"), Condition("b", "ok")>>,
     <<Condition("a", "ok"), Condition("b", "ok"), Condition("c", "ok")>>,
     <<Condition("a", "ok"), Condition("a", "ok")>>,
     <<Condition("", "ok")>>,
     <<Condition("a", "broken")>>}

MCMemberSets == {{}, {"m"}, {"m", "n"}, {"m", "in"}}
MCExpressions ==
    {[type |-> "bool", calls |-> {"n"}], [type |-> "number", calls |-> {}]}
MCQuantities == {-1, 1, 2}
=============================================================================
