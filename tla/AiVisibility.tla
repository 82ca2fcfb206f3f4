---------------------------- MODULE AiVisibility ----------------------------
(***************************************************************************)
(* Who sees what the AI reviewers have made of a submission: the runs of   *)
(* the workflows, their items and attachments, the decision, the           *)
(* escalations and the configuration.                                      *)
(*                                                                         *)
(* Four services guard them, each with a list of roles of its own, matched *)
(* in one place by name and in another by a part of the name.  None of     *)
(* them looks at the whitelist of the challenge.                           *)
(***************************************************************************)
EXTENDS SubmissionVisibility

\* Parts: the role names that have the word as a part.
Parts == [copilot |-> {"copilot"},
          submitter |-> {"submitter"},
          screener |-> {"screener", "checkpoint screener"},
          reviewer |-> {"reviewer", "checkpoint reviewer", "iterative reviewer"},
          projectManager |-> {"project manager"}]

HasPart(u, words) == \E word \in words : Roles[u] \cap Parts[word] # {}

IsResource(u) == Roles[u] \ {"admin"} # {}

CompetesElsewhere(u, s) == challenge # "COMPLETED" /\ Has(u, "submitter") /\ s.owner # u

-----------------------------------------------------------------------------
(* AiWorkflowService                                                       *)

\* getWorkflowRuns, of a submission: the roles are matched by name
RunsListed(u, s) ==
    \/ IsPrivileged(u)
    \/ /\ Roles[u] \cap {"iterative reviewer", "reviewer", "screener", "project manager",
                         "copilot", "submitter"} # {}
       /\ ~CompetesElsewhere(u, s)

\* Matched by name as for the list, Iterative Reviewer is missing.
RunRolesByName(u) ==
    Roles[u] \cap {"screener", "reviewer", "project manager", "copilot", "submitter"} # {}

\* getWorkflowRunWithGuards: the roles are matched by a part of the name
RunRoles(u) == HasPart(u, {"screener", "reviewer", "projectManager", "copilot", "submitter"})

\* getRunItems, getWorkflowRunAttachments, downloadWorkflowRunAttachment
RunRead(u, s) == IsPrivileged(u) \/ (RunRoles(u) /\ ~CompetesElsewhere(u, s))

-----------------------------------------------------------------------------
(* AiReviewDecisionService                                                 *)

\* hasExtendedViewAccessForChallenge
ExtendedView(u) == Roles[u] \cap (ReviewerRoles \cup {"observer", "manager", "copilot"}) # {}

\* list, of a submission: refused to others while the challenge runs
DecisionListed(u, s) ==
    \/ IsPrivileged(u)
    \/ /\ challenge = "COMPLETED" \/ s.owner = u \/ ExtendedView(u)
       /\ IsResource(u)

\* list, of a configuration: filtered by the member
DecisionOfConfigListed(u, s) ==
    \/ IsPrivileged(u)
    \/ IsResource(u) /\ (challenge # "COMPLETED" /\ ~ExtendedView(u) => s.owner = u)

\* getById with validateChallengeAccess
DecisionRead(u, s) ==
    \/ IsPrivileged(u)
    \/ /\ IsResource(u)
       /\ challenge = "COMPLETED" \/ ExtendedView(u) \/ s.owner = u

-----------------------------------------------------------------------------
(* AiReviewEscalationService and AiReviewConfigService                     *)

EscalationsListed(u) == IsPrivileged(u) \/ HasPart(u, {"copilot", "reviewer", "screener"})

\* getByChallengeId, for all but the creator of the challenge
ConfigSeen(u) == IsPrivileged(u) \/ IsResource(u)

-----------------------------------------------------------------------------
(* Properties                                                              *)

\* Whoever the list of runs shows a run of a submission may open it, with its
\* items and attachments; whoever sees the runs or the escalations also sees the
\* decision they led to, in every list and by itself, and the configuration.
\* The services match roles by different lists in different ways.  Project
\* managers are left out: the list for decisions does not know them.
AiListedIsReadable ==
    \A s \in Submissions, u \in {v \in Users : ~Has(v, "project manager")} :
        /\ RunsListed(u, s) => RunRead(u, s)
        /\ RunRead(u, s) \/ EscalationsListed(u) => DecisionRead(u, s)
        /\ DecisionListed(u, s) <=> DecisionRead(u, s)
        /\ DecisionOfConfigListed(u, s) <=> DecisionRead(u, s)
        /\ DecisionRead(u, s) => ConfigSeen(u)

=============================================================================
