------------------------ MODULE SubmissionVisibility ------------------------
(***************************************************************************)
(* What SubmissionService shows of the submissions of a challenge, in the  *)
(* list and by id, and who may fetch the file and the artifacts: the       *)
(* scores of their reviews, their URL and whose they are.                  *)
(*                                                                         *)
(* Its rules are written apart from those of ReviewService for the same    *)
(* reviews (ReviewVisibility).  The challenge is known, and the members'   *)
(* roles can be read.                                                      *)
(***************************************************************************)
EXTENDS ReviewVisibility

Submissions == [owner : Submitters, checkpoint : BOOLEAN]

IsMarathon == layout.type = "marathon"

\* A submitter and nothing else.
CompetesOnly(u) == Has(u, "submitter") /\ ~Has(u, "copilot") /\ ~IsReviewer(u)

-----------------------------------------------------------------------------
(* applyReviewVisibilityFilters: the scores of the reviews of a submission *)

\* Of a member's own submission, the reviews of phases that are over.
KeepsOwnOfAnyPhase(r) == ReviewsOver

\* SubmissionService has a hasChallengePhaseCompleted of its own
OverThere(names) == \E p \in Named(names) : PhaseCompleted(p)

KeepsOwn(r) == RoleOfPhase[Name(r.phase)] # "none" /\ OverThere({Name(r.phase)})

\* and a hasPassingSubmissionForReviewScorecard, without approvals.
HasPassedReview(u) == challenge = "COMPLETED" /\ "review" \in Passed[u]

ShownToReviewer(u, r) ==
    Final \/ r.reviewer = u \/ Name(r.phase) \in {"screening", "checkpoint screening"}

\* A completed challenge shows all, a cancelled one to those who have passed,
\* and an active one only if it is a marathon match.
ShownToOthers(u, r) ==
    IF Final THEN challenge = "COMPLETED" \/ HasPassedReview(u)
    ELSE Has(u, "submitter") /\ IsMarathon

ScoreInSubmission(u, r) ==
    /\ WhitelistAllows(u)
    /\ \/ IsPrivileged(u) \/ Has(u, "copilot")
       \/ r.owner = u /\ KeepsOwn(r)
       \/ r.owner # u /\ IsReviewer(u) /\ ShownToReviewer(u, r)
       \/ r.owner # u /\ ~IsReviewer(u) /\ ShownToOthers(u, r)

-----------------------------------------------------------------------------
(* The list and the read by id.                                            *)

\* filterSubmissionsByChallengeWhitelist: of a list, what is of a barred challenge
\* is left out instead of the list being refused.
KeptInList(u) == WhitelistAllows(u)

\* Asked without a challenge, a member who competes in an active one sees
\* there only what is the member's own.
ListedAmongAll(u, s) ==
    /\ KeptInList(u)
    /\ s.owner = u \/ IsPrivileged(u) \/ Final \/ ~CompetesOnly(u)

\* stripSubmitterMemberIds
HidesMember(u, s) == ~IsPrivileged(u) /\ s.owner # u /\ ~Final /\ CompetesOnly(u)

\* stripSubmitterSubmissionDetails
HidesDetails(u, s) ==
    /\ ~IsPrivileged(u) /\ s.owner # u /\ ~Has(u, "copilot") /\ ~IsReviewer(u)
    /\ challenge = "ACTIVE" /\ ~IsMarathon

UrlListed(u, s) == WhitelistAllows(u) /\ ~HidesDetails(u, s)

\* By id the member is hidden first, and a submission of nobody keeps its details.
UrlById(u, s) == WhitelistAllows(u) /\ (HidesMember(u, s) \/ ~HidesDetails(u, s))

-----------------------------------------------------------------------------
(* getSubmissionFileStream                                                 *)

RoleFits(role, s) ==
    IF s.checkpoint THEN role \in {"checkpoint screener", "checkpoint reviewer"}
    ELSE role \in {"screener", "reviewer", "iterative reviewer", "approver"}

Manages(u) == Roles[u] \cap {"manager", "project manager"} # {}

\* Passing any scorecard will do.
Downloads(u, s) ==
    /\ WhitelistAllows(u)
    /\ \/ IsPrivileged(u) \/ s.owner = u \/ Has(u, "copilot") \/ Manages(u)
       \/ \E role \in Roles[u] : RoleFits(role, s)
       \/ /\ Has(u, "submitter") /\ challenge = "COMPLETED"
          /\ layout.type = "f2f" \/ Passed[u] # {}

\* listArtifacts and getArtifactStream: reviewers have no part in them, and the
\* owner none in what is internal.
Artifacts(u, s, internal) ==
    /\ WhitelistAllows(u)
    /\ IsPrivileged(u) \/ Has(u, "copilot") \/ (s.owner = u /\ ~internal)

\* createArtifact and deleteArtifact
ArtifactsManaged(u, s) == WhitelistAllows(u) /\ (IsPrivileged(u) \/ s.owner = u)

-----------------------------------------------------------------------------
(* getChallengeSubmissionsZipStream                                        *)

\* All files at once, those of either kind: unlike one by one, not for approvers
\* and managers.
DownloadsAll(u) ==
    /\ WhitelistAllows(u)
    /\ IsPrivileged(u) \/ Has(u, "copilot") \/ Roles[u] \cap (ReviewerRoles \ {"approver"}) # {}

\* The files are named after the submitters.
NamesInZip(u) == DownloadsAll(u) /\ (Has(u, "admin") \/ Has(u, "copilot")) /\ u \notin Machines

-----------------------------------------------------------------------------
(* Whose they are, and how they have scored in all                         *)

\* stripSubmitterEmails
EmailListed(u) == WhitelistAllows(u) /\ (IsPrivileged(u) \/ Has(u, "copilot") \/ Manages(u))

\* ReviewSummationService.searchSummation, which has no whitelist
SummationsListed(u) ==
    \/ IsPrivileged(u) \/ Has(u, "copilot")
    \/ IsMarathon /\ Roles[u] # {}

-----------------------------------------------------------------------------
(* Properties                                                              *)

ManagesAndCompetes(u) == Manages(u) /\ CompetesOnly(u)

\* While a challenge runs, the submissions tell a submitter no score of a review
\* that getReview refuses (marathon matches show the scores of all there, and
\* their summations tell a submitter no more).  Who may fetch or store the
\* artifacts of a submission may download its file, and who may do that finds it
\* in the list of all submissions, with its URL, and the URL by id, except
\* managers; so does who may download all files together.  Whom the list of
\* reviews, the e-mail addresses or the names of files name the submissions do
\* not hide.  The services and their functions each decide by rules of their own;
\* those that hide something of others' submissions from who competes do so from
\* a manager who competes, too.
SubmissionShowsNoMore ==
    /\ \A r \in ReviewRows, u \in Submitters :
         /\ ~Final /\ ~IsMarathon /\ ~IsReviewer(u) /\ ScoreInSubmission(u, r) => Readable(u, r)
         /\ /\ SummationsListed(u) /\ CompetesOnly(u) /\ r.owner # u
            /\ challenge # "CANCELLED" /\ WhitelistAllows(u)
            => ScoreInSubmission(u, r)
    /\ \A s \in Submissions, u \in Users :
         /\ ArtifactsManaged(u, s) => Artifacts(u, s, FALSE)
         /\ Artifacts(u, s, FALSE) \/ EmailListed(u) => Downloads(u, s)
         /\ Downloads(u, s) => /\ ListedAmongAll(u, s) \/ ManagesAndCompetes(u)
                               /\ Manages(u) \/ (UrlListed(u, s) /\ UrlById(u, s))
         /\ DownloadsAll(u) => ListedAmongAll(u, s) /\ UrlListed(u, s) /\ UrlById(u, s)
         /\ \/ SubmitterNamed(u) \/ NamesInZip(u)
            \/ EmailListed(u) /\ ~ManagesAndCompetes(u)
            => ~HidesMember(u, s)

=============================================================================
