------------------------------ MODULE MCOffice ------------------------------
(***************************************************************************)
(* Review applications, AI review configs, the items of a run, the import  *)
(* of legacy records, the admission of reviews and the pending ones: parts *)
(* that share no state.  One specification runs them, each from starts of  *)
(* its own in which the others have no budget and stand still.             *)
(***************************************************************************)
EXTENDS Applications, AiConfigs, RunItems, LegacyImport, ReviewAdmission, PendingReviews

CONSTANTS primary, secondary, regular, dev, reg, reviewer, iterativeReviewer, w1, w2, i1, i2

\* Two roles of one opportunity and the regular one, all of one resource role
MCTypeOf == [r \in AppRoles |-> IF r = regular THEN reg ELSE dev]

MCResourceRoleOf == [r \in AppRoles |-> reviewer]

\* One workflow, both with weights that round, and both with half a percent
\* too little or too much
MCWeightings ==
    {[w \in {w1} |-> 100000], [w \in AiWorkflows |-> IF w = w1 THEN 50005 ELSE 49995],
     [w \in {w2} |-> 50000], [w \in AiWorkflows |-> IF w = w1 THEN 49994 ELSE 50001]}

MCWeightOf == [i \in Items |-> IF i = i1 THEN 1 ELSE 2]

\* Only the first comment has the id of an item.
MCCommentOfItem == [n \in Copies |-> IF n = 1 THEN 1 ELSE 0]

MCDeltas ==
    {Records, {r \in Records : r[1] \in {"scorecard", "group", "review", "item", "comment", "appeal",
                                          "provider", "workflow"}}}

Value(form) == [form |-> form, unlimited |-> Absent, count |-> FALSE, limit |-> Absent]

Object(unlimited, count, limit_) ==
    [form |-> "object", unlimited |-> unlimited, count |-> count, limit |-> limit_]

SomeLimits ==
    {Value(form) : form \in {"none", "true", "false", "number", "zero", "unlimited", "word"}}
    \cup {Object("true", TRUE, Absent), Object("false", TRUE, Absent), Object("yes", FALSE, "yes"),
          Object("false", FALSE, "no"), Object(Absent, FALSE, "true")}

SomeLineups == {<<"screening", "review", "post-mortem">>,
                <<"iterative review", "iterative review">>, <<"approval">>}

P(names, cards, roles, madeFor, flags) ==
    [name |-> names, cards |-> cards, role |-> roles, madeFor |-> madeFor,
     rapid |-> "rapid" \in flags, design |-> "design" \in flags,
     checkpoint |-> "checkpoint" \in flags]

\* A design challenge for either kind of submission, a development challenge
\* with two scorecards and a reviewer of the last phase only, one with two
\* iterative reviews under one scorecard, by the autopilot or not.
SomeChallenges ==
    {P(<<"checkpoint screening", "screening">>, <<{1}, {1}>>,
       <<"checkpoint screener", "screener">>, <<0, 0>>, flags) :
         flags \in {{"design"}, {"design", "checkpoint"}}}
    \cup {P(<<"review", "approval">>, <<{1, 2}, {2}>>, <<"reviewer", "approver">>, <<0, 2>>, {}),
          P(<<"review", "screening">>, <<{1}, {2}>>, <<"screener", "reviewer">>, <<0, 1>>, {})}
    \cup {P(<<"iterative review", "iterative review">>, <<{1}, {1}>>,
            <<"iterative reviewer", "iterative reviewer">>, <<0, 2>>, flags) :
              flags \in {{}, {"rapid"}}}

Limits(names, given) == [b \in names |-> IF b \in DOMAIN given THEN given[b] ELSE 0]

AppLimits(given) == AppInit(Limits(AppBudget, given))

ConfigLimits(given) == ConfigInit(Limits(ConfigBudget, given))

ItemLimits(given) == ItemsInit(Limits(ItemBudget, given))

ImportLimits(given) == ImportInit(Limits(ImportBudget, given))

None == [b \in {} |-> 0]

AdmissionOff == AdmissionInit(0) /\ limit.form = "none" /\ lineup = <<"approval">>

PendingOff == PendingInit({}) /\ ~of.design /\ of.name = <<"review", "approval">>

VARIABLE part   \* the part that moves

\* Applications and decisions; the config by itself and with its template, the
\* templates and workflows; edits of scores, and votes; imports with failing
\* writes, lost answers and failing runs; every limit, and every line of phases;
\* two unlocks and a pass.
Init ==
    \/ /\ part = "applications"
       /\ AppLimits([applications |-> 2, decisions |-> 3, failures |-> 1, configs |-> 1])
       /\ ConfigLimits(None) /\ ItemLimits(None) /\ ImportLimits(None) /\ AdmissionOff /\ PendingOff
    \/ /\ part = "configs"
       /\ AppLimits(None) /\ ItemLimits(None) /\ ImportLimits(None) /\ AdmissionOff /\ PendingOff
       /\ \/ ConfigLimits([configCalls |-> 2, breaks |-> 1])
          \/ ConfigLimits([configCalls |-> 1, templateCalls |-> 2, disablings |-> 1])
          \/ ConfigLimits([templateCalls |-> 2, disablings |-> 2, breaks |-> 1])
    \/ /\ part = "items"
       /\ AppLimits(None) /\ ConfigLimits(None) /\ ImportLimits(None) /\ AdmissionOff /\ PendingOff
       /\ \/ ItemLimits([calls |-> 2, edits |-> 2, posts |-> 2, turns |-> 1])
          \/ ItemLimits([calls |-> 2, edits |-> 1, votes |-> 1, posts |-> 1, turns |-> 1])
          \/ ItemLimits([calls |-> 2, votes |-> 2, posts |-> 1, stops |-> 1])
    \/ /\ part = "import"
       /\ AppLimits(None) /\ ConfigLimits(None) /\ ItemLimits(None) /\ AdmissionOff /\ PendingOff
       /\ \/ ImportLimits([fulls |-> 2, faults |-> 2])
          \/ ImportLimits([fulls |-> 1, incrementals |-> 1, faults |-> 1, losses |-> 1])
          \/ ImportLimits([fulls |-> 2, incrementals |-> 1, faults |-> 1])
          \/ ImportLimits([fulls |-> 2, crashes |-> 1])
    \/ /\ part = "admission"
       /\ AppLimits(None) /\ ConfigLimits(None) /\ ItemLimits(None) /\ ImportLimits(None) /\ PendingOff
       /\ AdmissionInit(MaxClock) /\ (limit.form = "number" \/ lineup[1] = "screening")
    \/ /\ part = "pending"
       /\ AppLimits(None) /\ ConfigLimits(None) /\ ItemLimits(None) /\ ImportLimits(None) /\ AdmissionOff
       /\ PendingInit(PendingCalls)

Next ==
    /\ UNCHANGED part
    /\ \/ /\ part = "applications" /\ AppNext
          /\ UNCHANGED <<configVars, itemVars, importVars, admissionVars, pendingVars>>
       \/ /\ part = "configs" /\ ConfigNext
          /\ UNCHANGED <<appVars, itemVars, importVars, admissionVars, pendingVars>>
       \/ /\ part = "items" /\ ItemsNext
          /\ UNCHANGED <<appVars, configVars, importVars, admissionVars, pendingVars>>
       \/ /\ part = "import" /\ ImportNext
          /\ UNCHANGED <<appVars, configVars, itemVars, admissionVars, pendingVars>>
       \/ /\ part = "admission" /\ AdmissionNext
          /\ UNCHANGED <<appVars, configVars, itemVars, importVars, pendingVars>>
       \/ /\ part = "pending" /\ PendingNext
          /\ UNCHANGED <<appVars, configVars, itemVars, importVars, admissionVars>>

Spec == Init /\ [][Next]_<<appVars, configVars, itemVars, importVars, admissionVars, pendingVars, part>>

=============================================================================
