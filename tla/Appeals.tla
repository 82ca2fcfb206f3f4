------------------------------- MODULE Appeals -------------------------------
(***************************************************************************)
(* Appeals on the comments of a review and the responses to them, with the *)
(* calls of AppealService that make, change and delete them, the cascade   *)
(* that deletes them with the comment, and the table of pending appeals    *)
(* that database triggers keep per reviewer.                               *)
(*                                                                         *)
(* A comment has at most one appeal and an appeal at most one response     *)
(* (unique keys).  An appeal is known by its comment.                      *)
(***************************************************************************)
EXTENDS Reviews

CONSTANTS
    AppealsPhase, ResponsePhase,
    Submitter,      \* owner of the submission reviewed
    AppealCalls,    \* calls in flight
    MaxAppealAsks,  \* bound: calls made
    Starts          \* where a run begins: phase, review, appeal, and the calls to come

ASSUME AppealsAssumption ==
    /\ {AppealsPhase, ResponsePhase} \subseteq Phases
    /\ Submitter \in Users /\ Calls \cap AppealCalls = {} /\ IsFiniteSet(AppealCalls)
    /\ MaxAppealAsks \in Nat
ASSUME StartsAssumption ==
    Starts \subseteq [phase : Phases, status : Stored \cup {"none"}, answers : [Questions -> Item],
                      comments : BOOLEAN, appealed : BOOLEAN,
                      edits : 0..MaxAsks, appeals : 0..MaxAppealAsks]

Comment == Questions \X Number

VARIABLES
    appeal,       \* per comment: the appeal and its response
    pending,      \* review_pending_summary of the reviewer's resource
    apc, aby, ask, about,   \* a call: where it is, whose, what it asks, on which comment
    appealAsks,
    raised,       \* auxiliary: appeals made
    events,       \* auxiliary: events published for responses
    rewritten,    \* auxiliary: the submitter has changed an answered appeal
    responding,   \* auxiliary: the response phase has been open
    mixed,        \* auxiliary: appeals have been open with it, or after it
    late          \* auxiliary: appeals have closed on a change past its check

appealCallVars == <<apc, aby, ask, about, appealAsks>>
appealHistory == <<raised, events, rewritten, responding, mixed, late>>
appealVars == <<appeal, pending, appealCallVars, appealHistory>>

Asks == {"appeal", "change", "withdraw", "respond", "amend"}

AppealTypeOK ==
    /\ appeal \in [Comment -> {"none", "open", "answered"}]
    /\ pending \in Nat
    /\ apc \in [AppealCalls -> {"idle", "phase", "challenge", "write", "publish"}]
    /\ aby \in [AppealCalls -> Users]
    /\ ask \in [AppealCalls -> Asks \cup {None}]
    /\ about \in [AppealCalls -> Comment \cup {None}]
    /\ appealAsks \in 0..MaxAppealAsks
    /\ raised \in 0..(MaxAppealAsks + Cardinality(Questions)) /\ events \in 0..MaxAppealAsks
    /\ {rewritten, responding, mixed, late} \subseteq BOOLEAN

\* Comments of the review as it is.
Alive == {k \in Comment : \E i \in Items : i[1] = k[1] /\ comment[i] = k[2]}

\* A new appeal does not refresh the reviewer's row.
AppealInit(s) ==
    /\ appeal = [k \in Comment |->
                    IF s.appealed /\ k \in Alive THEN "open" ELSE "none"]
    /\ pending = 0
    /\ apc = [c \in AppealCalls |-> "idle"]
    /\ aby = [c \in AppealCalls |-> Submitter]
    /\ ask = [c \in AppealCalls |-> None]
    /\ about = [c \in AppealCalls |-> None]
    /\ appealAsks = MaxAppealAsks - s.appeals
    /\ raised = Cardinality({k \in Comment : appeal[k] # "none"}) /\ events = 0
    /\ rewritten = FALSE /\ late = FALSE
    /\ responding = IsPhaseOpen({ResponsePhase})
    /\ mixed = (responding /\ IsPhaseOpen({AppealsPhase}))

-----------------------------------------------------------------------------
Unanswered(ap) == Cardinality({k \in Comment : ap[k] = "open"})

\* A change of an appeal refreshes the row of the appeal's own resource, which
\* is the submitter's; on a delete it refreshes none.  A change of a response
\* refreshes the reviewer's row.
TriggersOfReviewer(ap) == pending' = Unanswered(ap)

Triggers(ap) ==
    pending' = IF \E k \in Comment : (appeal[k] = "answered") # (ap[k] = "answered")
               THEN Unanswered(ap) ELSE pending

Write(ap) == appeal' = ap /\ Triggers(ap)

\* Deleting a comment deletes its appeal and the response to it.
Cascade == Write([k \in Comment |-> IF k \in Alive' THEN appeal[k] ELSE "none"])

AGoto(c, label) == apc' = [apc EXCEPT ![c] = label]

ALeave(c) ==
    /\ AGoto(c, "idle")
    /\ aby' = [aby EXCEPT ![c] = Submitter]
    /\ ask' = [ask EXCEPT ![c] = None]
    /\ about' = [about EXCEPT ![c] = None]

Stays(c, label) == AGoto(c, label) /\ UNCHANGED <<aby, ask, about>>

-----------------------------------------------------------------------------
(* What every call checks first, on one read of the appeal or comment.     *)

MayAsk(u, a) == u \in Privileged \cup {IF a \in {"respond", "amend"} THEN Owner ELSE Submitter}

Found(k, a) ==
    CASE a = "appeal" -> k \in Alive
      [] a \in {"change", "withdraw"} -> appeal[k] # "none"
      [] a = "respond" -> appeal[k] = "open"
      [] a = "amend" -> appeal[k] = "answered"

AppealRead(c, u, a, k) ==
    /\ apc[c] = "idle" /\ appealAsks < MaxAppealAsks
    /\ Found(k, a) /\ MayAsk(u, a) /\ WhitelistAllows(u)
    /\ appealAsks' = appealAsks + 1
    /\ AGoto(c, "phase")
    /\ aby' = [aby EXCEPT ![c] = u]
    /\ ask' = [ask EXCEPT ![c] = a]
    /\ about' = [about EXCEPT ![c] = k]
    /\ UNCHANGED <<appeal, pending, appealHistory>>

\* A new appeal or response needs its phase open, whoever makes it; a change
\* of an appeal does unless the caller is privileged; the others ask for none.
PhaseAllowsNew(c) ==
    /\ ask[c] = "appeal" => IsPhaseOpen({AppealsPhase})
    /\ ask[c] = "respond" => IsPhaseOpen({ResponsePhase})

PhaseAllows(c) ==
    /\ ask[c] = "appeal" => IsPhaseOpen({AppealsPhase})
    /\ ask[c] = "change" => aby[c] \in Privileged \/ IsPhaseOpen({AppealsPhase})
    /\ ask[c] = "respond" => IsPhaseOpen({ResponsePhase})

PhaseCheck(c) ==
    /\ apc[c] = "phase"
    /\ IF PhaseAllows(c) THEN Stays(c, "challenge") ELSE ALeave(c)
    /\ UNCHANGED <<appeal, pending, appealAsks, appealHistory>>

\* ensureChallengeAllowsAppealChange: for changes by callers not privileged
ChallengeAllows(c) ==
    \/ ask[c] \in {"appeal", "respond"} \/ aby[c] \in Privileged
    \/ challenge # "COMPLETED"

ChallengeCheck(c) ==
    /\ apc[c] = "challenge"
    /\ IF ChallengeAllows(c) THEN Stays(c, "write") ELSE ALeave(c)
    /\ UNCHANGED <<appeal, pending, appealAsks, appealHistory>>

-----------------------------------------------------------------------------
(* The write of each call: it fails where the row is gone, or the unique   *)
(* key is taken.                                                           *)

CreateAppeal(c) ==
    LET k == about[c] IN
    /\ ask[c] = "appeal" /\ k \in Alive /\ appeal[k] = "none"
    /\ Write([appeal EXCEPT ![k] = "open"])
    /\ ALeave(c)
    /\ raised' = raised + 1
    /\ UNCHANGED <<events, rewritten>>

UpdateAppeal(c) ==
    LET k == about[c] IN
    /\ ask[c] = "change" /\ appeal[k] # "none"
    /\ rewritten' = (rewritten \/ (appeal[k] = "answered" /\ aby[c] \notin Privileged))
    /\ ALeave(c)
    /\ UNCHANGED <<appeal, pending, raised, events>>

DeleteAppeal(c) ==
    LET k == about[c] IN
    /\ ask[c] = "withdraw" /\ appeal[k] # "none"
    /\ Write([appeal EXCEPT ![k] = "none"])
    /\ ALeave(c)
    /\ UNCHANGED <<raised, events, rewritten>>

\* The unique key of the responses
KeyFree(k) == appeal[k] = "open"

CreateAppealResponse(c) ==
    LET k == about[c] IN
    /\ ask[c] = "respond" /\ KeyFree(k)
    /\ Write([appeal EXCEPT ![k] = "answered"])
    /\ Stays(c, "publish")
    /\ UNCHANGED <<raised, events, rewritten>>

UpdateAppealResponse(c) ==
    LET k == about[c] IN
    /\ ask[c] = "amend" /\ appeal[k] = "answered"
    /\ appeal' = appeal /\ TriggersOfReviewer(appeal)
    /\ ALeave(c)
    /\ UNCHANGED <<raised, events, rewritten>>

AppealGone(c) ==
    LET k == about[c] IN
    /\ CASE ask[c] = "appeal" -> k \notin Alive \/ appeal[k] # "none"
         [] ask[c] \in {"change", "withdraw"} -> appeal[k] = "none"
         [] ask[c] = "respond" -> ~KeyFree(k)
         [] ask[c] = "amend" -> appeal[k] # "answered"
    /\ ALeave(c)
    /\ UNCHANGED <<appeal, pending, raised, events, rewritten>>

AppealWrite(c) ==
    /\ apc[c] = "write"
    /\ \/ CreateAppeal(c) \/ UpdateAppeal(c) \/ DeleteAppeal(c)
       \/ CreateAppealResponse(c) \/ UpdateAppealResponse(c) \/ AppealGone(c)
    /\ UNCHANGED <<appealAsks, responding, mixed, late>>

\* The response stays when the event is not published, and a retry of the
\* call finds the appeal answered.
PublishResponded(c) ==
    /\ apc[c] = "publish"
    /\ events' = events + 1
    /\ ALeave(c)
    /\ UNCHANGED <<appeal, pending, appealAsks, raised, rewritten, responding, mixed, late, mishaps>>

PublishRespondedFails(c) ==
    /\ apc[c] = "publish"
    /\ Mishap
    /\ ALeave(c)
    /\ UNCHANGED <<appeal, pending, appealAsks, appealHistory>>

-----------------------------------------------------------------------------
AppealStep ==
    \E c \in AppealCalls :
        \/ \E u \in Users, a \in Asks, k \in Comment : AppealRead(c, u, a, k)
        \/ PhaseCheck(c) \/ ChallengeCheck(c) \/ AppealWrite(c)

Init == \E s \in Starts : ChallengeInit(s.phase) /\ ReviewInit(s) /\ AppealInit(s)

\* A call is past its checks.
Underway(a) == \E c \in AppealCalls : ask[c] = a /\ apc[c] \in {"challenge", "write"}

\* Noted when the challenge moves: that responses are open, that appeals are
\* then or later, and that appeals have closed on a change past its check.
Note ==
    /\ responding' = (responding \/ IsPhaseOpen({ResponsePhase})')
    /\ mixed' = (mixed \/ (responding' /\ IsPhaseOpen({AppealsPhase})'))
    /\ late' = (late \/ (~IsPhaseOpen({AppealsPhase})' /\ Underway("change")))

\* Bound: the windows of phases move while there are appeals to come.
WindowMoves == appealAsks < MaxAppealAsks \/ \E c \in AppealCalls : apc[c] # "idle"

Next ==
    \/ /\ ChallengeNext /\ Note
       /\ WindowMoves \/ \A p \in Phases : ~Schedule(p)
       /\ UNCHANGED <<reviewVars, appeal, pending, appealCallVars, raised, events, rewritten>>
    \/ /\ ReviewNext /\ Cascade
       /\ UNCHANGED <<challengeVars, appealCallVars, appealHistory>>
    \/ /\ AppealStep
       /\ UNCHANGED <<challengeVars, reviewVars>>
    \/ /\ \E c \in AppealCalls : PublishResponded(c) \/ PublishRespondedFails(c)
       /\ UNCHANGED <<challengeVars, reviewRow, callVars, reviewHistory>>

vars == <<challengeVars, reviewVars, appealVars>>

Spec == Init /\ [][Next]_vars

-----------------------------------------------------------------------------
(* Properties                                                              *)

\* Types of the three modules.
TypeOK == ChallengeTypeOK /\ ReviewTypeOK /\ AppealTypeOK

Quiet == \A c \in Calls : pc[c] = "idle"

\* Between calls, the score of a review is the score of its items, of one item
\* of each question where there are several, unless some call failed or items
\* changed between another call's read of the items and its write of the score
\* (recomputeAndUpdateReviewScores is not atomic).
ScoreFollowsItems ==
    Quiet /\ Exists /\ ~raced /\ mishaps = 0 =>
        review.score \in Totals(answers) \cup {None}

\* Between calls, a completed review has been announced since it was completed,
\* unless publishing failed or the review was reopened while another update was
\* between its read and its write (updateReview compares with what it read).
CompletionAnnounced ==
    Quiet /\ ~slipped /\ mishaps = 0 => ~unannounced

\* Between calls, what a manager has changed in a review or an item by updating
\* it, as the call had read it, is in the audit log, unless some call failed.
\* Of several items of a question the log compares one.
ManagersAudited == Quiet /\ mishaps = 0 => unaudited = {}

\* The text of an answered appeal is the text that was answered, unless appeals
\* were open with the responses or after them (isPhaseOpen goes by the schedule
\* too, while an earlier phase overruns) or a call was checked in time and wrote
\* after the phase.
AnsweredTextStands == rewritten => mixed \/ late

\* An appeal is announced as responded at most once, and an answered one at
\* least once unless publishing failed (createAppealResponse publishes after
\* its insert and is refused when called again).
RespondedOnce ==
    LET publishing == Cardinality({c \in AppealCalls : apc[c] = "publish"}) IN
    /\ events + publishing <= raised
    /\ mishaps = 0 => events + publishing >= Cardinality({k \in Comment : appeal[k] = "answered"})

\* What has happened to a review and its appeals has been told to the rest of
\* the platform and to the log, once.
EffectsFollow == CompletionAnnounced /\ ManagersAudited /\ RespondedOnce

\* Stated by the trigger appeal_pending_maintainer: the table of pending
\* appeals of a reviewer follows the appeals.
PendingFollowsAppeals == pending = Unanswered(appeal)

=============================================================================
