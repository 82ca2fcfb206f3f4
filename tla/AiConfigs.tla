------------------------------ MODULE AiConfigs ------------------------------
(***************************************************************************)
(* The AI review config of one challenge, the templates it may be made     *)
(* from and the workflows both are made of: AiReviewConfigService,         *)
(* AiReviewTemplateService and AiWorkflowService.updateWorkflow.           *)
(*                                                                         *)
(* A config may change until runs are queued by it; its calls check that   *)
(* first and write some awaits later, while the first submission is made,  *)
(* scanned and queued.  Of that, and of the decision, which WorkflowQueue  *)
(* and AiDecision model, only what the config is read for is here.         *)
(*                                                                         *)
(* A challenge has one config at a time: versions are all 1 and a unique   *)
(* key.  Weights are in thousandths of a percent; a column keeps hundredths.*)
(***************************************************************************)
EXTENDS Integers, FiniteSetsExt

CONSTANTS
    AiWorkflows,
    Weightings,     \* weights asked for: functions on sets of workflows
    Legacy,         \* workflows the challenge itself names
    Templates,      \* templates ever made
    ConfigCalls,    \* calls in flight
    Nil

ASSUME ConfigsAssumption ==
    /\ IsFiniteSet(AiWorkflows)
    /\ \A w \in Weightings : \E flows \in SUBSET AiWorkflows : w \in [flows -> Nat]
    /\ Legacy \subseteq AiWorkflows

NoWeights == [i \in {} |-> 0]

Unlinked == "unlinked"   \* asked for in place of a template: none

ConfigBudget == {"configCalls", "templateCalls", "disablings", "breaks"}

VARIABLES
    off,        \* workflows that are disabled
    template,   \* templates, Nil before they are made and once they are deleted
    unmade,     \* templates not made yet
    defaults,   \* templates of DefaultChallengeReviewer rows
    config,     \* the challenge's config
    lastConfig, \* the last id given
    submitted, completed,  \* the challenge has a submission, is over
    queueing,   \* workflows read for queueing
    runs,       \* workflows with a run
    judged,     \* the config has a decision
    cpc, ask,   \* a call: where it is, what it asks
    configLeft, \* what is left of each bound
    crossed     \* auxiliary: what calls met that exempts a property

configVars == <<off, template, unmade, defaults, config, lastConfig, submitted, completed,
                queueing, runs, judged, cpc, ask, configLeft, crossed>>

Ask == [kind : {"create", "update", "delete", "template", "edit", "disable"},
        template : Templates \cup {Nil, Unlinked}, weights : Weightings \cup {NoWeights}, id : Nat,
        flow : AiWorkflows \cup {Nil}, disabled : BOOLEAN \cup {Nil}, drop : SUBSET Templates]

ConfigTypeOK ==
    /\ {off, runs} \subseteq SUBSET AiWorkflows
    /\ \A t \in Templates : template[t] = Nil \/ template[t].disabled \in BOOLEAN
    /\ {unmade, defaults} \subseteq SUBSET Templates
    /\ config = Nil \/ config.id \in 1..lastConfig
    /\ {submitted, completed, judged} \subseteq BOOLEAN
    /\ cpc \in [ConfigCalls -> {"idle", "template", "check", "insert", "fill", "write", "tinsert",
                                "tfill", "twrite", "off", "drop"}]
    /\ crossed \subseteq {"queue", "fill", "defaults"}

ConfigInit(budget) ==
    /\ off = {} /\ template = [t \in Templates |-> Nil] /\ unmade = Templates /\ defaults = {}
    /\ config = Nil /\ lastConfig = 0
    /\ submitted = FALSE /\ completed = FALSE /\ judged = FALSE
    /\ queueing = Nil /\ runs = {}
    /\ cpc = [c \in ConfigCalls |-> "idle"]
    /\ ask = [c \in ConfigCalls |-> Nil]
    /\ configLeft = budget /\ crossed = {}

challengeSide == <<submitted, completed, queueing, runs, judged>>
configRow == <<config, lastConfig>>
templateRows == <<off, template, unmade, defaults>>

-----------------------------------------------------------------------------
CSpend(b) == configLeft[b] > 0 /\ configLeft' = [configLeft EXCEPT ![b] = @ - 1]

CGoto(c, label) == cpc' = [cpc EXCEPT ![c] = label]

CLeave(c) == CGoto(c, "idle") /\ ask' = [ask EXCEPT ![c] = Nil]

CAsk(c, label, kind, t, w, id) ==
    /\ cpc[c] = "idle"
    /\ CGoto(c, label)
    /\ ask' = [ask EXCEPT ![c] = [kind |-> kind, template |-> t, weights |-> w, id |-> id,
                                  flow |-> Nil, disabled |-> Nil, drop |-> {}]]

Total(w) == MapThenSumSet(LAMBDA i : w[i], DOMAIN w)

\* A column rounds to hundredths.
Kept(w) == [i \in DOMAIN w |-> ((w[i] + 5) \div 10) * 10]

Whole(w) == Total(w) = 100000

\* The total rounded to hundredths is 100.
WholeTemplate(w) == Total(w) >= 99995 /\ Total(w) < 100005

Active(w) == DOMAIN w \cap off = {}

Usable(t) == template[t] # Nil /\ ~template[t].disabled

-----------------------------------------------------------------------------
(* AiReviewConfigService                                                   *)

CreateCheck(c, t, w) ==
    /\ CSpend("configCalls") /\ ~submitted /\ runs = {} /\ t # Unlinked
    /\ CAsk(c, IF t \in Templates THEN "template" ELSE "check", "create", t, w, 0)
    /\ UNCHANGED <<templateRows, configRow, challengeSide, crossed>>

\* Nothing is decided by it and no run of the challenge exists.
ChangeableUndecided == ~completed /\ ~judged

Changeable == ~completed /\ ~judged /\ runs = {}

\* A blank id in place of a template's unlinks it.
UpdateCheck(c, t, w) ==
    /\ CSpend("configCalls") /\ config # Nil /\ Changeable
    /\ t # Nil \/ w # NoWeights
    /\ CAsk(c, IF t \in Templates THEN "template" ELSE "check", "update", t, w, config.id)
    /\ UNCHANGED <<templateRows, configRow, challengeSide, crossed>>

DeleteCheck(c) ==
    /\ CSpend("configCalls") /\ config # Nil /\ Changeable
    /\ CAsk(c, "write", "delete", Nil, NoWeights, config.id)
    /\ UNCHANGED <<templateRows, configRow, challengeSide, crossed>>

\* A config is made with the template's weights, if it asks for none.
ReadTemplate(c) ==
    LET t == ask[c].template
        create == ask[c].kind = "create"
        w == IF create /\ ask[c].weights = NoWeights THEN template[t].weights ELSE ask[c].weights
    IN  /\ cpc[c] = "template"
        /\ IF Usable(t) /\ (create => Active(template[t].weights))
           THEN CGoto(c, "check") /\ ask' = [ask EXCEPT ![c].weights = w]
           ELSE CLeave(c)
        /\ UNCHANGED <<templateRows, configRow, challengeSide, configLeft, crossed>>

CheckWorkflows(c) ==
    LET w == ask[c].weights
        fit == IF ask[c].kind = "update" /\ w = NoWeights THEN TRUE
               ELSE w # NoWeights /\ Active(w) /\ Whole(w)
    IN  /\ cpc[c] = "check" /\ ask[c].kind \in {"create", "update"}
        /\ IF fit THEN CGoto(c, IF ask[c].kind = "create" THEN "insert" ELSE "write") /\ UNCHANGED ask
           ELSE CLeave(c)
        /\ UNCHANGED <<templateRows, configRow, challengeSide, configLeft, crossed>>

\* A template that is named must still be there.
Linked(t) == t \in Templates => template[t] # Nil

\* First the config without workflows: the unique key refuses a second one.
InsertConfig(c) ==
    /\ cpc[c] = "insert"
    /\ IF config = Nil /\ Linked(ask[c].template)
       THEN /\ config' = [id |-> lastConfig + 1, template |-> ask[c].template, weights |-> NoWeights]
            /\ lastConfig' = lastConfig + 1
            /\ CGoto(c, "fill") /\ ask' = [ask EXCEPT ![c].id = lastConfig + 1]
       ELSE CLeave(c) /\ UNCHANGED configRow
    /\ UNCHANGED <<templateRows, challengeSide, configLeft, crossed>>

\* The rows of w are added to those there are by now: all, or by the unique
\* key none.
Filled(old, w) ==
    IF DOMAIN w \cap DOMAIN old # {} THEN old
    ELSE [i \in DOMAIN w \cup DOMAIN old |-> IF i \in DOMAIN w THEN Kept(w)[i] ELSE old[i]]

\* Then its workflows.
Fill(c) ==
    /\ cpc[c] = "fill"
    /\ config' = IF config = Nil \/ config.id # ask[c].id THEN config
                 ELSE [config EXCEPT !.weights = Filled(@, ask[c].weights)]
    /\ crossed' = IF config # Nil /\ config.weights # NoWeights THEN crossed \cup {"fill"}
                  ELSE crossed
    /\ CLeave(c)
    /\ UNCHANGED <<templateRows, lastConfig, challengeSide, configLeft>>

\* A call stops between two rows it makes, or two databases.
Break(c) ==
    /\ cpc[c] \in {"fill", "tfill", "drop"} /\ CSpend("breaks")
    /\ CLeave(c)
    /\ crossed' = IF cpc[c] = "drop" THEN crossed \cup {"defaults"} ELSE crossed
    /\ UNCHANGED <<templateRows, configRow, challengeSide>>

\* The config must be there, and have no decision if it is to be deleted.
WriteConfig(c) ==
    LET a == ask[c] IN
    /\ cpc[c] = "write"
    /\ IF config = Nil \/ config.id # a.id THEN UNCHANGED config
       ELSE IF a.kind = "delete" THEN config' = IF judged THEN config ELSE Nil
       ELSE /\ Linked(a.template)
            /\ config' = [config EXCEPT
                            !.template = IF a.template \in Templates THEN a.template
                                         ELSE IF a.template = Unlinked THEN Nil ELSE @,
                            !.weights = IF a.weights = NoWeights THEN @ ELSE Kept(a.weights)]
    /\ CLeave(c)
    /\ UNCHANGED <<templateRows, lastConfig, challengeSide, configLeft, crossed>>

\* A template that is gone by then makes the update fail.
WriteRefused(c) ==
    /\ cpc[c] = "write" /\ ~Linked(ask[c].template)
    /\ CLeave(c)
    /\ UNCHANGED <<templateRows, configRow, challengeSide, configLeft, crossed>>

-----------------------------------------------------------------------------
(* The challenge: its first submission, queued, decided, and its end.      *)

Submit ==
    /\ ~submitted /\ ~completed
    /\ submitted' = TRUE
    /\ UNCHANGED <<templateRows, configRow, completed, queueing, runs, judged, cpc, ask, configLeft,
                   crossed>>

\* getWorkflowIdsForScanComplete: the enabled workflows of the config, unless
\* its template is disabled, and else those the challenge names.
Configured ==
    IF config = Nil \/ (config.template # Nil /\ template[config.template].disabled) THEN {}
    ELSE DOMAIN config.weights \ off

QueueRead ==
    /\ submitted /\ queueing = Nil /\ runs = {}
    /\ queueing' = IF Configured # {} THEN Configured ELSE Legacy
    /\ UNCHANGED <<templateRows, configRow, submitted, completed, runs, judged, cpc, ask, configLeft,
                   crossed>>

\* A call past its checks, or a workflow or template disabled by now.
QueueWrite ==
    /\ queueing # Nil /\ runs = {}
    /\ runs' = queueing
    /\ crossed' =
         IF \/ \E c \in ConfigCalls : cpc[c] # "idle" /\ ask[c].kind \in {"create", "update", "delete"}
            \/ config # Nil /\ queueing # DOMAIN config.weights
         THEN crossed \cup {"queue"} ELSE crossed
    /\ UNCHANGED <<templateRows, configRow, submitted, completed, queueing, judged, cpc, ask,
                   configLeft>>

\* ensurePendingDecision
Judge ==
    /\ runs # {} /\ config # Nil /\ ~judged
    /\ judged' = TRUE
    /\ UNCHANGED <<templateRows, configRow, submitted, completed, queueing, runs, cpc, ask, configLeft,
                   crossed>>

Complete ==
    /\ ~completed
    /\ completed' = TRUE
    /\ UNCHANGED <<templateRows, configRow, submitted, queueing, runs, judged, cpc, ask, configLeft,
                   crossed>>

-----------------------------------------------------------------------------
(* AiReviewTemplateService and updateWorkflow                              *)

\* Calls on templates, or workflows, meet.
TemplatesMeet == \E c \in ConfigCalls : cpc[c] # "idle" /\ ask[c].kind \in {"template", "edit", "disable"}

Meeting == crossed' = IF TemplatesMeet THEN crossed \cup {"defaults"} ELSE crossed

\* It may be made disabled.
TemplateCheck(c, w, d) ==
    /\ unmade # {} /\ CSpend("templateCalls")
    /\ w # NoWeights /\ Active(w) /\ WholeTemplate(w)
    /\ cpc[c] = "idle" /\ CGoto(c, "tinsert")
    /\ ask' = [ask EXCEPT ![c] = [kind |-> "template", template |-> Nil, weights |-> w, id |-> 0,
                                  flow |-> Nil, disabled |-> d, drop |-> {}]]
    /\ Meeting
    /\ UNCHANGED <<templateRows, configRow, challengeSide>>

InsertTemplate(c) ==
    /\ cpc[c] = "tinsert" /\ unmade # {}
    /\ \E t \in unmade :
         /\ unmade' = unmade \ {t}
         /\ template' = [template EXCEPT ![t] = [disabled |-> ask[c].disabled, weights |-> NoWeights]]
         /\ ask' = [ask EXCEPT ![c].template = t]
    /\ CGoto(c, "tfill")
    /\ UNCHANGED <<off, defaults, configRow, challengeSide, configLeft, crossed>>

FillTemplate(c) ==
    LET t == ask[c].template IN
    /\ cpc[c] = "tfill"
    /\ template' = IF template[t] = Nil THEN template
                   ELSE [template EXCEPT ![t].weights = Filled(@, ask[c].weights)]
    /\ CLeave(c)
    /\ UNCHANGED <<off, unmade, defaults, configRow, challengeSide, configLeft, crossed>>

\* Weights are checked if there are any; a disabled workflow does not keep a
\* template from being enabled.
Newly(t, d) == d = TRUE /\ ~template[t].disabled

EditCheck(c, t, w, d) ==
    /\ template[t] # Nil /\ CSpend("templateCalls")
    /\ w = NoWeights \/ (Active(w) /\ WholeTemplate(w))
    /\ cpc[c] = "idle" /\ CGoto(c, "twrite")
    /\ ask' = [ask EXCEPT ![c] = [kind |-> "edit", template |-> t, weights |-> w, id |-> 0,
                                  flow |-> Nil, disabled |-> d,
                                  drop |-> IF Newly(t, d) THEN {t} ELSE {}]]
    /\ Meeting
    /\ UNCHANGED <<templateRows, configRow, challengeSide>>

EditWrite(c) ==
    LET a == ask[c] IN
    /\ cpc[c] = "twrite"
    /\ IF template[a.template] = Nil THEN CLeave(c) /\ UNCHANGED template
       ELSE /\ template' = [template EXCEPT ![a.template] =
                 [disabled |-> IF a.disabled = Nil THEN @.disabled ELSE a.disabled,
                  weights |-> IF a.weights = NoWeights THEN @.weights ELSE Kept(a.weights)]]
            /\ IF a.drop = {} THEN CLeave(c) ELSE CGoto(c, "drop") /\ UNCHANGED ask
    /\ UNCHANGED <<off, unmade, defaults, configRow, challengeSide, configLeft, crossed>>

\* removeDefaultChallengeReviewersForTemplateIds, in the challenge database
DropDefaults(c) ==
    /\ cpc[c] = "drop"
    /\ defaults' = defaults \ ask[c].drop
    /\ CLeave(c)
    /\ UNCHANGED <<off, template, unmade, configRow, challengeSide, configLeft, crossed>>

\* A config made from it keeps its weights and loses the link; its rows of
\* default reviewers stay.
DeleteTemplate(t) ==
    /\ template[t] # Nil /\ CSpend("templateCalls")
    /\ template' = [template EXCEPT ![t] = Nil]
    /\ config' = IF config # Nil /\ config.template = t THEN [config EXCEPT !.template = Nil] ELSE config
    /\ UNCHANGED <<off, unmade, defaults, lastConfig, challengeSide, cpc, ask, crossed>>

\* The challenge platform names a template a default (external).
AddDefault(t) ==
    /\ t \notin defaults /\ Usable(t)
    /\ defaults' = defaults \cup {t}
    /\ UNCHANGED <<off, template, unmade, configRow, challengeSide, cpc, ask, configLeft, crossed>>

\* The enabled templates that have the workflow are disabled with it.
With(i) == {t \in Templates : template[t] # Nil /\ ~template[t].disabled /\ i \in DOMAIN template[t].weights}

DisableCheck(c, i) ==
    /\ cpc[c] = "idle" /\ CSpend("disablings")
    /\ CGoto(c, "off")
    /\ ask' = [ask EXCEPT ![c] = [kind |-> "disable", template |-> Nil, weights |-> NoWeights, id |-> 0,
                                  flow |-> i, disabled |-> i \in off, drop |-> {}]]
    /\ Meeting
    /\ UNCHANGED <<templateRows, configRow, challengeSide>>

\* One transaction, unless the workflow was disabled when it was read.
DisableWorkflow(c) ==
    LET i == ask[c].flow
        affected == IF ask[c].disabled THEN {} ELSE With(i)
    IN  /\ cpc[c] = "off"
        /\ off' = off \cup {i}
        /\ template' = [t \in Templates |-> IF t \in affected THEN [template[t] EXCEPT !.disabled = TRUE]
                                            ELSE template[t]]
        /\ IF affected = {} THEN CLeave(c)
           ELSE CGoto(c, "drop") /\ ask' = [ask EXCEPT ![c].drop = affected]
        /\ UNCHANGED <<unmade, defaults, configRow, challengeSide, configLeft, crossed>>

\* Its templates stay disabled.
EnableWorkflow(i) ==
    /\ i \in off /\ CSpend("disablings")
    /\ off' = off \ {i}
    /\ UNCHANGED <<template, unmade, defaults, configRow, challengeSide, cpc, ask, crossed>>

-----------------------------------------------------------------------------
ConfigStep(c) ==
    \/ \E t \in Templates \cup {Nil, Unlinked}, w \in Weightings \cup {NoWeights} :
         /\ t = Nil => w # NoWeights
         /\ CreateCheck(c, t, w) \/ UpdateCheck(c, t, w)
    \/ DeleteCheck(c) \/ ReadTemplate(c) \/ CheckWorkflows(c) \/ InsertConfig(c) \/ Fill(c)
    \/ Break(c) \/ WriteConfig(c) \/ WriteRefused(c)

TemplateStep(c) ==
    \/ \E w \in Weightings, d \in BOOLEAN : TemplateCheck(c, w, d)
    \/ InsertTemplate(c) \/ FillTemplate(c) \/ EditWrite(c) \/ DropDefaults(c)
    \/ \E t \in Templates, w \in Weightings \cup {NoWeights}, d \in BOOLEAN \cup {Nil} : EditCheck(c, t, w, d)
    \/ (\E i \in AiWorkflows : DisableCheck(c, i)) \/ DisableWorkflow(c)

ConfigNext ==
    \/ \E c \in ConfigCalls : ConfigStep(c) \/ TemplateStep(c)
    \/ Submit \/ QueueRead \/ QueueWrite \/ Judge \/ Complete
    \/ \E t \in Templates : DeleteTemplate(t) \/ AddDefault(t)
    \/ \E i \in AiWorkflows : EnableWorkflow(i)

ConfigSpec == (\E budget \in [ConfigBudget -> Nat] : ConfigInit(budget)) /\ [][ConfigNext]_configVars

-----------------------------------------------------------------------------
(* Properties                                                              *)

\* Once runs are queued, each workflow the decision waits for has one: the
\* config is not changed any more, unless a call on it was under way, or a
\* workflow or the template was disabled, when they were queued.
AwaitedIsQueued ==
    runs # {} /\ config # Nil /\ "queue" \notin crossed => DOMAIN config.weights \subseteq runs

\* The weights of a config with workflows total 100 percent but for what the
\* columns round, half a hundredth for each, unless a config that was being
\* made was changed.
WeightsWhole ==
    config # Nil /\ config.weights # NoWeights /\ "fill" \notin crossed =>
        LET apart == Total(config.weights) - 100000
            most == 5 * Cardinality(DOMAIN config.weights)
        IN  -most <= apart /\ apart <= most

\* Between calls no disabled template is a default of the challenge platform,
\* whichever way it was disabled, unless calls met or one stopped half way.
DefaultsUsable ==
    "defaults" \notin crossed /\ ~TemplatesMeet =>
        \A t \in defaults : template[t] # Nil => ~template[t].disabled

\* A config that is in use can decide its submissions, with weights that are a
\* whole, and so can the templates offered for the next ones.
ConfigsServe == AwaitedIsQueued /\ WeightsWhole /\ DefaultsUsable

=============================================================================
