--------------------------- MODULE PendingReviews ----------------------------
(***************************************************************************)
(* The pending reviews a submission gets, made by two services apart:      *)
(* SubmissionService.ensurePendingReviewsForSubmission once the AI review  *)
(* has passed it, and AiReviewEscalationService when an escalation unlocks *)
(* it.  Either reads the open phases, the scorecards configured for them   *)
(* and the resources of the challenge, and inserts the rows some awaits    *)
(* later; the phases go on meanwhile.                                      *)
(*                                                                         *)
(* The database keeps one review of a resource, submission and scorecard,  *)
(* and skips the others.  There is one submission, scanned, of a challenge *)
(* with an AI review config, and its decision is FAILED at first.          *)
(***************************************************************************)
EXTENDS Naturals

CONSTANTS
    Stages,          \* phases of the challenge, in the order they run: 1..N
    Assignees,       \* resources that may review
    Cards,           \* scorecards
    Challenges,      \* what a challenge may be
    Unlockers,       \* escalation calls that unlock
    Ensurers         \* calls of ensurePendingReviewsForSubmission

StageNames == {"screening", "checkpoint screening", "review", "checkpoint review",
               "iterative review", "approval", "submission"}

\* The role of the reviewers of a phase
ReviewerOf == [name \in StageNames \ {"submission"} |->
    CASE name = "screening" -> "screener"
      [] name = "checkpoint screening" -> "checkpoint screener"
      [] name = "review" -> "reviewer"
      [] name = "checkpoint review" -> "checkpoint reviewer"
      [] name = "iterative review" -> "iterative reviewer"
      [] name = "approval" -> "approver"]

\* cards are those with a member review; a resource may be made for one phase.
Challenge == [name : [Stages -> StageNames], cards : [Stages -> SUBSET Cards],
              role : [Assignees -> {ReviewerOf[n] : n \in DOMAIN ReviewerOf}],
              madeFor : [Assignees -> Stages \cup {0}],
              rapid : BOOLEAN, design : BOOLEAN, checkpoint : BOOLEAN]

ASSUME StagesAssumption == Stages \subseteq Nat \ {0}
ASSUME PendingCallsAssumption == Unlockers \cap Ensurers = {}

\* A resource made for a phase has its role.
ASSUME ChallengesAssumption ==
    /\ Challenges \subseteq Challenge
    /\ \A c \in Challenges, a \in Assignees :
         c.madeFor[a] # 0 => c.role[a] = ReviewerOf[c.name[c.madeFor[a]]]

VARIABLES
    of,          \* the challenge
    standing,    \* its phases; due: by the schedule only
    unlocked,    \* the decision is HUMAN_OVERRIDE
    made,        \* reviews of the submission
    built,       \* rows a call has computed and not inserted yet
    place,       \* where a call is
    owed         \* auxiliary: what passing would have given when an unlock began, by resource and scorecard

pendingVars == <<of, standing, unlocked, made, built, place, owed>>

PendingRow == [assignee : Assignees, card : Cards, stage : Stages]
PendingCalls == Unlockers \cup Ensurers

PendingTypeOK ==
    /\ of \in Challenges
    /\ standing \in [Stages -> {"ahead", "due", "open", "over"}]
    /\ unlocked \in BOOLEAN /\ made \subseteq PendingRow
    /\ built \in [PendingCalls -> SUBSET PendingRow]
    /\ place \in [PendingCalls -> {"start", "insert", "done"}]
    /\ owed \in [Unlockers -> SUBSET (Assignees \X Cards)]

PendingInit(calls) ==
    /\ of \in Challenges
    /\ standing = [p \in Stages |-> "ahead"]
    /\ unlocked = FALSE /\ made = {}
    /\ owed = [c \in Unlockers |-> {}]
    /\ built = [c \in PendingCalls |-> {}]
    /\ place = [c \in PendingCalls |-> IF c \in calls THEN "start" ELSE "done"]

-----------------------------------------------------------------------------
\* The schedule and the platform move a phase on.
StageMoves(p) ==
    /\ standing[p] # "over"
    /\ \E s \in {"due", "open", "over"} :
         /\ s = "due" => standing[p] = "ahead"
         /\ s = "over" => standing[p] = "open"
         /\ s # standing[p]
         /\ standing' = [standing EXCEPT ![p] = s]
    /\ UNCHANGED <<of, unlocked, made, built, place, owed>>

Keys(rs) == {<<r.assignee, r.card>> : r \in rs}

\* createMany with skipDuplicates: of the rows with one key, one.
Insert(rs) == \E new \in SUBSET {r \in rs : <<r.assignee, r.card>> \notin Keys(made)} :
    /\ Keys(new) = Keys(rs) \ Keys(made)
    /\ \A r, s \in new : <<r.assignee, r.card>> = <<s.assignee, s.card>> => r = s
    /\ made' = made \cup new

-----------------------------------------------------------------------------
(* ensurePendingReviewsForSubmission                                       *)

\* isSubmissionTypeCompatibleWithReviewPhase
FitsKind(name) == of.checkpoint <=> name \in {"checkpoint screening", "checkpoint review"}

\* The iterative reviews of a First2Finish challenge are left to the autopilot.
TakenByEnsure(p) ==
    /\ standing[p] = "open"
    /\ of.name[p] \in DOMAIN ReviewerOf /\ FitsKind(of.name[p])
    /\ ~(of.rapid /\ of.name[p] = "iterative review")

\* resolveReviewerResourcesForConfig: those made for the phase, else by role
EnsureAssignees(p) ==
    LET own == {a \in Assignees : of.madeFor[a] = p} IN
    IF own # {} THEN own ELSE {a \in Assignees : of.role[a] = ReviewerOf[of.name[p]]}

EnsuredRows == UNION {[assignee : EnsureAssignees(p), card : of.cards[p], stage : {p}] :
                        p \in {q \in Stages : TakenByEnsure(q)}}

EnsureRead(c) ==
    /\ c \in Ensurers /\ place[c] = "start" /\ unlocked
    /\ built' = [built EXCEPT ![c] = EnsuredRows]
    /\ place' = [place EXCEPT ![c] = "insert"]
    /\ UNCHANGED <<of, standing, unlocked, made, owed>>

EnsureInsert(c) ==
    /\ c \in Ensurers /\ place[c] = "insert"
    /\ Insert(built[c])
    /\ built' = [built EXCEPT ![c] = {}]
    /\ place' = [place EXCEPT ![c] = "done"]
    /\ UNCHANGED <<of, standing, unlocked, owed>>

-----------------------------------------------------------------------------
(* buildPendingReviewsForUnlockedSubmission                                *)

\* The screenings forgotten
OverrideNamesOfReviews == {"review", "iterative review"}

\* MANUAL_OVERRIDE_PHASE_ROLE_MAP
OverrideNames == {"review", "iterative review", "screening", "checkpoint screening"}

\* isChallengePhaseCurrentlyOpen, of any kind of submission and challenge
TakenByOverride(p) == standing[p] \in {"due", "open"} /\ of.name[p] \in OverrideNames

OverrideAssignees(p) == {a \in Assignees : of.role[a] = ReviewerOf[of.name[p]]}

OverrideRows == UNION {[assignee : OverrideAssignees(p), card : of.cards[p], stage : {p}] :
                         p \in {q \in Stages : TakenByOverride(q)}}

\* What passing would give now, but for the phases an override leaves alone.
EnsuredInstead == {r \in EnsuredRows : of.name[r.stage] \notin {"approval", "checkpoint review"}}

\* validatePhaseOpen: design challenges also unlock in their screenings.
MayUnlock == \E p \in Stages :
    TakenByOverride(p) /\ (of.design \/ of.name[p] \in {"review", "iterative review"})

UnlockRead(c) ==
    /\ c \in Unlockers /\ place[c] = "start" /\ MayUnlock
    /\ built' = [built EXCEPT ![c] =
                   {r \in OverrideRows : <<r.assignee, r.card>> \notin Keys(made)}]
    /\ place' = [place EXCEPT ![c] = "insert"]
    /\ owed' = [owed EXCEPT ![c] = Keys(EnsuredInstead)]
    /\ UNCHANGED <<of, standing, unlocked, made>>

\* The transaction approves, unlocks and inserts.
UnlockCommit(c) ==
    /\ c \in Unlockers /\ place[c] = "insert"
    /\ unlocked' = TRUE
    /\ Insert(built[c])
    /\ built' = [built EXCEPT ![c] = {}]
    /\ place' = [place EXCEPT ![c] = "done"]
    /\ UNCHANGED <<of, standing, owed>>

\* A transaction that fails takes the call with it.
UnlockFails(c) ==
    /\ c \in Unlockers /\ place[c] = "insert"
    /\ built' = [built EXCEPT ![c] = {}]
    /\ owed' = [owed EXCEPT ![c] = {}]
    /\ place' = [place EXCEPT ![c] = "done"]
    /\ UNCHANGED <<of, standing, unlocked, made>>

PendingNext ==
    \/ \E p \in Stages : StageMoves(p)
    \/ \E c \in Ensurers : EnsureRead(c) \/ EnsureInsert(c)
    \/ \E c \in Unlockers : UnlockRead(c) \/ UnlockCommit(c) \/ UnlockFails(c)

PendingSpec == (\E calls \in SUBSET PendingCalls : PendingInit(calls)) /\ [][PendingNext]_pendingVars

-----------------------------------------------------------------------------
(* Properties                                                              *)

\* A submission an escalation has unlocked gets at least the reviews that
\* passing would have given it when the call read the phases, for all phases
\* but approval and checkpoint review: the services choose phases, scorecards
\* and reviewers each by itself, and other calls insert meanwhile.
UnlockedIsReviewed == \A c \in Unlockers : place[c] = "done" => owed[c] \subseteq Keys(made)

=============================================================================
