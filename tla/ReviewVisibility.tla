-------------------------- MODULE ReviewVisibility --------------------------
(***************************************************************************)
(* Who sees which review, as ReviewService.getReviews lists it (with or    *)
(* without its scores and items) and as getReview returns it, while the    *)
(* challenge goes through its phases.                                      *)
(*                                                                         *)
(* The two handlers decide independently of each other, each from the      *)
(* roles of the caller, the status and the phases of the challenge and the *)
(* phase of the review.  The reviews are given: one of every reviewer of a *)
(* phase that has started for every submission.                            *)
(***************************************************************************)
EXTENDS ChallengePhases, FiniteSetsExt

CONSTANTS
    Roles,      \* roles of a user in the challenge
    Layouts,    \* names of the phases, and the type of the challenge
    Passed      \* scorecards a submitter's summations have passed when the challenge completes

VARIABLE layout

viewVars == <<challengeVars, layout>>

PhaseNames == {"submission", "checkpoint screening", "checkpoint review", "screening", "review",
               "iterative review", "approval", "appeals", "appeals response", "none"}

ReviewerRoles == {"screener", "reviewer", "checkpoint screener", "checkpoint reviewer",
                  "iterative reviewer", "approver"}

RoleNames == ReviewerRoles \cup {"copilot", "submitter", "observer", "manager", "project manager",
                                 "admin"}

\* The scorecard of a review and of an iterative review are told apart nowhere.
Scorecards == {"screening", "review", "approval"}

ASSUME ViewAssumption ==
    /\ Roles \in [Users -> SUBSET RoleNames] /\ Passed \in [Users -> SUBSET Scorecards]
    /\ Layouts \subseteq [names : [Phases -> PhaseNames], type : {"task", "challenge", "f2f", "marathon"}]

Name(p) == layout.names[p]

Named(names) == {p \in Phases : Name(p) \in names}

ViewTypeOK == ChallengeTypeOK /\ layout \in Layouts

-----------------------------------------------------------------------------
(* The reviews.                                                            *)

RoleOfPhase == [name \in PhaseNames |->
    CASE name = "screening" -> "screener"
      [] name = "checkpoint screening" -> "checkpoint screener"
      [] name = "review" -> "reviewer"
      [] name = "checkpoint review" -> "checkpoint reviewer"
      [] name = "iterative review" -> "iterative reviewer"
      [] name = "approval" -> "approver"
      [] OTHER -> "none"]

Has(u, role) == role \in Roles[u]

Submitters == {u \in Users : Has(u, "submitter")}

ReviewRows == {r \in [phase : Phases, reviewer : Users, owner : Submitters] :
                 phase[r.phase].started /\ Has(r.reviewer, RoleOfPhase[Name(r.phase)])}

OfCheckpoint(r) == Name(r.phase) \in {"checkpoint screening", "checkpoint review"}

-----------------------------------------------------------------------------
(* What both handlers derive from the challenge.                           *)

Final == challenge \in {"COMPLETED", "CANCELLED"}

OpenNow(name) == \E p \in Named({name}) : phase[p].isOpen

Shut(name) == \E p \in Named({name}) : ~phase[p].isOpen

\* hasChallengePhaseCompleted, of any phase with one of the names
Over(names) == \E p \in Named(names) : PhaseCompleted(p)

InAppeals == OpenNow("appeals") \/ OpenNow("appeals response")

\* getSubmitterVisibilityForChallenge
AllowOwn ==
    \/ Final \/ InAppeals
    \/ Named({"appeals", "appeals response"}) = {} /\ Shut("iterative review")
    \/ layout.type = "f2f"

IsPrivileged(u) == u \in Machines \/ Has(u, "admin")

IsReviewer(u) == Roles[u] \cap ReviewerRoles # {}

\* hasPassingSubmissionForReviewScorecard
HasPassed(u) == challenge = "COMPLETED" /\ Passed[u] \cap {"review", "approval"} # {}

-----------------------------------------------------------------------------
(* getReviews                                                              *)

\* buildReviewerRoleFilters: what a role adds to the list of its member
RoleShows(u, role, r) ==
    \/ /\ role \in {"screener", "reviewer", "checkpoint reviewer"}
       /\ Name(r.phase) = "screening"
    \/ /\ role = "checkpoint screener" /\ Name(r.phase) = "checkpoint screening"
    \/ /\ role = "checkpoint reviewer" /\ r.reviewer = u
       /\ IF Named({"checkpoint review"}) # {} THEN Name(r.phase) = "checkpoint review"
          ELSE OfCheckpoint(r)
    \/ /\ role = "reviewer" /\ r.reviewer = u
       /\ IF Named({"review"}) # {} THEN Name(r.phase) = "review" ELSE ~OfCheckpoint(r)
    \/ /\ role = "iterative reviewer" /\ r.reviewer = u /\ Name(r.phase) = "iterative review"
    \/ /\ role = "approver" /\ r.reviewer = u /\ Name(r.phase) = "approval"

\* The role has a filter of its own, whether it matches any review or not.
HasFilter(role) ==
    \/ role \in {"reviewer", "checkpoint reviewer"}
    \/ role = "screener" /\ Named({"screening"}) # {}
    \/ role = "checkpoint screener" /\ Named({"checkpoint screening"}) # {}
    \/ role = "iterative reviewer" /\ Named({"iterative review"}) # {}
    \/ role = "approver" /\ Named({"approval"}) # {}

ListedToReviewer(u, r) ==
    \/ Final
    \/ \E role \in Roles[u] : RoleShows(u, role, r)
    \/ (\A role \in Roles[u] : ~HasFilter(role)) /\ r.reviewer = u

ReviewsOver == Over({"checkpoint screening", "checkpoint review", "screening", "review",
                     "iterative review"})

\* A submitter sees others' reviews at the end only, and only who has passed.
ListedToSubmitter(u, r) ==
    IF Final THEN r.owner = u \/ HasPassed(u)
    ELSE /\ r.owner = u
         /\ InAppeals \/ Shut("submission") \/ ReviewsOver

\* applyChallengeWhitelistToReviewWhere: reviews of a challenge that is barred are
\* left out, and a machine's list is not looked at.
KeptAcross(u) == u \in Machines \/ WhitelistAllows(u)

\* Asked without a challenge: of the challenges the member has submitted to.
ListedAcross(u, r) ==
    /\ KeptAcross(u) /\ u \in Submitters
    /\ \/ r.owner = u /\ (Final \/ InAppeals)
       \/ Final /\ HasPassed(u)

Listed(u, r) ==
    /\ WhitelistAllows(u)
    /\ \/ IsPrivileged(u) \/ Has(u, "copilot")
       \/ IsReviewer(u) /\ ListedToReviewer(u, r)
       \/ ~IsReviewer(u) /\ Has(u, "submitter") /\ ListedToSubmitter(u, r)

\* shouldMaskReviewDetails and shouldMaskOtherReviewerDetails
MasksOwn(u, r) ==
    /\ ~IsPrivileged(u) /\ ~Has(u, "copilot") /\ ~IsReviewer(u)
    /\ r.owner = u
    /\ ~AllowOwn /\ ~Over({Name(r.phase)})

MasksOthers(u, r) ==
    /\ ~IsPrivileged(u) /\ ~Has(u, "copilot") /\ IsReviewer(u)
    /\ r.reviewer # u
    /\ ~Final
    /\ Name(r.phase) \notin {"screening", "checkpoint screening"}

ScoreListed(u, r) == Listed(u, r) /\ ~MasksOwn(u, r) /\ ~MasksOthers(u, r)

\* The list of a challenge names the submitters when it is over, to its members
\* (a cancelled one, if its review has failed).
SubmitterNamed(u) == WhitelistAllows(u) /\ Final /\ Roles[u] # {}

-----------------------------------------------------------------------------
(* AppealService.getAppeals                                                *)

\* The appeals against a review are told to whom the challenge lets in.
AppealsListed(u) == WhitelistAllows(u)

\* Asked without a challenge and a review: those of barred challenges left out
AppealsAmongAll(u) == u \in Machines \/ WhitelistAllows(u)

-----------------------------------------------------------------------------
(* getReview                                                               *)

ReadByReviewerAfterwards(u, r) == r.reviewer = u \/ Final \/ Over({Name(r.phase)})

ReadByReviewer(u, r) ==
    \/ challenge = "COMPLETED"
    \/ r.reviewer = u
    \/ /\ Roles[u] \cap {"reviewer", "checkpoint reviewer", "iterative reviewer"} # {}
       /\ Name(r.phase) \in {"screening", "checkpoint screening"}

ReadBySubmitterInAppeals(u, r) == AllowOwn /\ (Final \/ r.owner = u \/ layout.type = "f2f")

ReadBySubmitter(u, r) ==
    /\ AllowOwn \/ (r.owner = u /\ Over({Name(r.phase)}))
    /\ Final \/ r.owner = u \/ layout.type = "f2f"

Readable(u, r) ==
    /\ WhitelistAllows(u)
    /\ \/ IsPrivileged(u) \/ Has(u, "copilot")
       \/ IsReviewer(u) /\ ReadByReviewer(u, r)
       \/ ~IsReviewer(u) /\ Has(u, "submitter") /\ ReadBySubmitter(u, r)

\* getReview and the list of the challenge drop the items of others' iterative reviews of a first2finish challenge.
Trimmed(u, r) ==
    /\ ~IsPrivileged(u) /\ ~Has(u, "copilot") /\ ~IsReviewer(u)
    /\ r.owner # u /\ Name(r.phase) = "iterative review" /\ layout.type = "f2f"

ItemsReadable(u, r) == Readable(u, r) /\ ~Trimmed(u, r)

-----------------------------------------------------------------------------
ViewInit == ChallengeInit(1) /\ layout \in Layouts

ViewNext == ChallengeNext /\ UNCHANGED layout

ViewSpec == ViewInit /\ [][ViewNext]_viewVars

-----------------------------------------------------------------------------
(* Properties                                                              *)

\* Reviewers work apart: until the challenge is over nobody who reviews sees the
\* score of somebody else's review, in the list or by itself, except screenings.
ReviewersApart ==
    ~Final => \A r \in ReviewRows, u \in Users :
        /\ IsReviewer(u) /\ ~IsPrivileged(u) /\ ~Has(u, "copilot") /\ r.reviewer # u
        /\ Name(r.phase) \notin {"screening", "checkpoint screening"}
        => ~ScoreListed(u, r) /\ ~Readable(u, r)

\* What the lists of one and of all challenges tell a submitter of a review,
\* getReview does not refuse, and with its items but for others' reviews of a
\* first2finish challenge; and whoever reads the items of a review finds the
\* appeals in both their lists.  Each decides by rules of its own.
ListedIsReadable ==
    /\ \A r \in ReviewRows, u \in Submitters :
         ~IsReviewer(u) /\ (ScoreListed(u, r) \/ ListedAcross(u, r))
         => Readable(u, r) /\ (ItemsReadable(u, r) \/ (r.owner # u /\ layout.type = "f2f"))
    /\ \A r \in ReviewRows, u \in Users :
         ItemsReadable(u, r) => AppealsListed(u) /\ AppealsAmongAll(u)

=============================================================================
