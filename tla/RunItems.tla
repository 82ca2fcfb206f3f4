------------------------------- MODULE RunItems -------------------------------
(***************************************************************************)
(* The items of one AI workflow run, an item to a question of the          *)
(* scorecard, and what AiWorkflowService does to them: the machine posts   *)
(* them and the run's score, managers correct scores during the approval   *)
(* phase, users vote on items and on comments.  Correcting an item's score *)
(* makes the run's score anew from all items, read some awaits before the  *)
(* transaction that writes both.                                           *)
(*                                                                         *)
(* What the decision maker does when an edit asks it to is in AiDecision.  *)
(***************************************************************************)
EXTENDS Naturals, FiniteSetsExt

CONSTANTS
    Items,          \* items, each of another question
    WeightOf,       \* weight of an item's question
    ItemScores,     \* scores of an item, and of a run as the machine posts it
    Remarks,        \* comments, to be voted on like items
    Managers,       \* users with the role of an admin, copilot or project manager
    Machine,        \* the client of the AI workflows
    ItemCalls,      \* calls in flight
    NoScore         \* no score, no value

ASSUME RunItemsAssumption ==
    /\ WeightOf \in [Items -> Nat] /\ ItemScores \subseteq Nat
    /\ NoScore \notin Nat /\ Machine \notin Managers
    /\ "run" \notin Items

Authors == Managers \cup {Machine}

Targets == Items \cup Remarks

\* Bounds: calls, those that vote, those that edit a score, what the machine
\* posts, turns of the phase, calls that stop.
ItemBudget == {"calls", "votes", "edits", "posts", "turns", "stops"}

VARIABLES
    item,           \* score and original score of each item that exists
    score, initial, \* score and initial score of the run
    remarked,       \* comments that exist
    vote,           \* votes of each user
    approval,       \* the approval phase is open
    ipc, edit,      \* a call: where it is, what it asks and has read
    itemLeft,       \* what is left of each bound
    edited,         \* auxiliary: an edit is the last to have made the run's score
    corrected,      \* auxiliary: what a corrected item, or run, had before
    asked,          \* auxiliary: the last vote asked for
    met,            \* auxiliary: edits of scores met, or one met what the machine posts
    unclear         \* auxiliary: votes calls met on, or a call failed with

itemRows == <<item, score, initial>>
voteRows == <<remarked, vote, asked, unclear>>
itemVars == <<itemRows, voteRows, approval, ipc, edit, itemLeft, edited, corrected, met>>

Votes == {"none", "up", "down"}

Scored == ItemScores \cup {NoScore}

RunScores == Nat \cup {NoScore}

\* An item is scored, and may have an original score.
Item == [score : Scored, original : Scored]

ASSUME NoScoreAssumption == NoScore \notin Item \cup Votes

Edit == [target : Targets, by : Authors, vote : Votes \cup {NoScore}, score : Scored,
         seen : Item \cup {NoScore},
         run : [score : RunScores, initial : RunScores], total : RunScores]

ItemTypeOK ==
    /\ item \in [Items -> Item \cup {NoScore}]
    /\ score \in RunScores /\ initial \in RunScores
    /\ remarked \subseteq Remarks
    /\ vote \in [Targets -> [Managers -> Votes]] /\ asked \in [Targets -> [Managers -> Votes]]
    /\ approval \in BOOLEAN /\ edited \in BOOLEAN
    /\ ipc \in [ItemCalls -> {"idle", "unvote", "vote", "phase", "total", "write"}]
    /\ edit \in [ItemCalls -> Edit \cup {NoScore}]
    /\ itemLeft \in [ItemBudget -> Nat]
    /\ corrected \in [Items \cup {"run"} -> RunScores]
    /\ met \in BOOLEAN /\ unclear \subseteq Targets \X Managers

ItemsInit(budget) ==
    /\ item = [i \in Items |-> NoScore]
    /\ score = NoScore /\ initial = NoScore
    /\ remarked = {} /\ approval = FALSE
    /\ vote = [t \in Targets |-> [u \in Managers |-> "none"]] /\ asked = vote
    /\ ipc = [c \in ItemCalls |-> "idle"] /\ edit = [c \in ItemCalls |-> NoScore]
    /\ itemLeft = budget
    /\ edited = FALSE /\ corrected = [x \in Items \cup {"run"} |-> NoScore] /\ met = FALSE
    /\ unclear = {}

-----------------------------------------------------------------------------
Present == {i \in Items : item[i] # NoScore}

ISpend(b) == itemLeft[b] > 0 /\ itemLeft' = [itemLeft EXCEPT ![b] = @ - 1]

IGoto(c, label) == ipc' = [ipc EXCEPT ![c] = label] /\ UNCHANGED edit

ILeave(c) ==
    /\ ipc' = [ipc EXCEPT ![c] = "idle"]
    /\ edit' = [edit EXCEPT ![c] = NoScore]

\* Edits of scores under way
Editing == {c \in ItemCalls : ipc[c] # "idle" /\ edit[c].score # NoScore}

MeetsEdits == met' = (met \/ Editing # {})

\* computeScorecardTotal, not divided by the total weight: no answer counts nothing.
TotalOf(answer) ==
    MapThenSumSet(LAMBDA i : IF answer[i] = NoScore THEN 0 ELSE WeightOf[i] * answer[i], Items)

Answers == [i \in Items |-> IF i \in Present THEN item[i].score ELSE NoScore]

-----------------------------------------------------------------------------
(* The machine: createRunItemsBatch, updateWorkflowRun.                    *)

\* All of a batch or none.
PostItems(S, s) ==
    /\ S # {} /\ S \cap Present = {} /\ ISpend("posts")
    /\ item' = [i \in Items |-> IF i \in S THEN [score |-> s, original |-> NoScore] ELSE item[i]]
    /\ edited' = FALSE /\ MeetsEdits
    /\ UNCHANGED <<score, initial, voteRows, approval, ipc, edit, corrected>>

PostScore(s) ==
    /\ ISpend("posts")
    /\ score' = s
    /\ edited' = FALSE /\ MeetsEdits
    /\ UNCHANGED <<item, initial, voteRows, approval, ipc, edit, corrected>>

\* The challenge's approval phase opens and closes (external).
TurnApproval ==
    /\ ISpend("turns")
    /\ approval' = ~approval
    /\ UNCHANGED <<itemRows, voteRows, ipc, edit, edited, corrected, met>>

\* createRunItemComment
Remark(r) ==
    /\ r \notin remarked
    /\ remarked' = remarked \cup {r}
    /\ UNCHANGED <<itemRows, vote, asked, unclear, approval, ipc, edit, itemLeft, edited, corrected, met>>

-----------------------------------------------------------------------------
(* updateRunItem and updateCommentById                                     *)

Same(c, t, u) == ipc[c] # "idle" /\ edit[c].target = t /\ edit[c].by = u

Begin(c, t, u, v, s) ==
    /\ ipc[c] = "idle" /\ itemLeft["calls"] > 0
    /\ v # NoScore => itemLeft["votes"] > 0
    /\ s # NoScore => itemLeft["edits"] > 0
    /\ itemLeft' = [itemLeft EXCEPT !["calls"] = @ - 1,
                                    !["votes"] = IF v # NoScore THEN @ - 1 ELSE @,
                                    !["edits"] = IF s # NoScore THEN @ - 1 ELSE @]
    /\ t \in Present \cup remarked /\ (v # NoScore \/ s # NoScore)
    /\ t \in Remarks => s = NoScore
    /\ u = Machine => v = NoScore
    /\ ipc' = [ipc EXCEPT ![c] = IF v # NoScore THEN "unvote" ELSE IF u = Machine THEN "total"
                                 ELSE "phase"]
    /\ edit' = [edit EXCEPT ![c] =
         [target |-> t, by |-> u, vote |-> v, score |-> s,
          seen |-> IF t \in Items THEN item[t] ELSE NoScore,
          run |-> [score |-> score, initial |-> initial], total |-> NoScore]]
    /\ met' = (met \/ (s # NoScore /\ Editing # {}))
    /\ unclear' = IF v # NoScore /\ \E d \in ItemCalls : Same(d, t, u) THEN unclear \cup {<<t, u>>}
                  ELSE unclear
    /\ asked' = IF v = NoScore THEN asked ELSE [asked EXCEPT ![t][u] = v]
    /\ UNCHANGED <<itemRows, remarked, vote, approval, edited, corrected>>

\* The votes of the user on it are deleted,
Unvoted(c) == {edit[c].by}

Unvote(c) ==
    /\ ipc[c] = "unvote"
    /\ vote' = [vote EXCEPT ![edit[c].target] =
                  [u \in Managers |-> IF u \in Unvoted(c) THEN "none" ELSE @[u]]]
    /\ IGoto(c, "vote")
    /\ UNCHANGED <<itemRows, remarked, asked, unclear, approval, itemLeft, edited, corrected, met>>

\* and one is made, unless the call takes it back; of two at the same time the
\* unique key refuses one.  The rest of the call is then not done.
CastVote(c) ==
    LET e == edit[c] IN
    /\ ipc[c] = "vote"
    /\ IF e.vote = "none" \/ vote[e.target][e.by] = "none"
       THEN /\ vote' = [vote EXCEPT ![e.target][e.by] = IF e.vote = "none" THEN @ ELSE e.vote]
            /\ IF e.score = NoScore THEN ILeave(c)
               ELSE IGoto(c, IF e.by = Machine THEN "total" ELSE "phase")
       ELSE ILeave(c) /\ UNCHANGED vote
    /\ UNCHANGED <<itemRows, remarked, asked, unclear, approval, itemLeft, edited, corrected, met>>

\* A manager's edit, which has to come with a comment, is refused outside the
\* approval phase; the vote stays.
CheckPhase(c) ==
    /\ ipc[c] = "phase"
    /\ IF approval THEN IGoto(c, "total") ELSE ILeave(c)
    /\ UNCHANGED <<itemRows, voteRows, approval, itemLeft, edited, corrected, met>>

\* computeRunScoreForRunItem: of the items as they are, with the new score.
WithScoreRead(c) == Answers

WithScore(c) == [Answers EXCEPT ![edit[c].target] = edit[c].score]

ComputeTotal(c) ==
    /\ ipc[c] = "total"
    /\ ipc' = [ipc EXCEPT ![c] = "write"]
    /\ edit' = [edit EXCEPT ![c].total = TotalOf(WithScore(c))]
    /\ UNCHANGED <<itemRows, voteRows, approval, itemLeft, edited, corrected, met>>

\* The first score is kept, as it was read at the start, of an item a manager
\* corrects and of a run whose score changes.
FirstOfItem(c) ==
    LET e == edit[c] IN
    IF e.by \in Managers /\ e.seen.score # NoScore /\ e.seen.original = NoScore
    THEN e.seen.score ELSE item[e.target].original

FirstOfRun(c) ==
    LET e == edit[c] IN
    IF e.run.initial = NoScore /\ e.run.score # NoScore /\ e.run.score # e.total
    THEN e.run.score ELSE initial

\* One transaction of the item, the manager's comment and the run.
Write(c) ==
    LET e == edit[c] IN
    /\ ipc[c] = "write"
    /\ item' = [item EXCEPT ![e.target] = [score |-> e.score, original |-> FirstOfItem(c)]]
    /\ score' = e.total /\ initial' = FirstOfRun(c)
    /\ edited' = TRUE
    /\ corrected' =
         [x \in DOMAIN corrected |->
            IF corrected[x] # NoScore THEN corrected[x]
            ELSE IF x = "run" THEN IF score # e.total THEN score ELSE NoScore
            ELSE IF x = e.target /\ e.by \in Managers THEN item[x].score ELSE NoScore]
    /\ ILeave(c)
    /\ UNCHANGED <<voteRows, approval, itemLeft, met>>

\* A request of the call fails: what it has done stays.
Abandon(c) ==
    /\ ipc[c] # "idle" /\ ISpend("stops")
    /\ ILeave(c)
    /\ unclear' = IF edit[c].vote = NoScore THEN unclear
                  ELSE unclear \cup {<<edit[c].target, edit[c].by>>}
    /\ UNCHANGED <<itemRows, remarked, vote, asked, approval, edited, corrected, met>>

-----------------------------------------------------------------------------
ItemsNext ==
    \/ \E S \in SUBSET Items, s \in Scored : PostItems(S, s)
    \/ \E s \in ItemScores : PostScore(s)
    \/ TurnApproval
    \/ \E r \in Remarks : Remark(r)
    \/ \E c \in ItemCalls :
         \/ \E t \in Targets, u \in Authors, v \in Votes \cup {NoScore}, s \in Scored : Begin(c, t, u, v, s)
         \/ Unvote(c) \/ CastVote(c) \/ CheckPhase(c) \/ ComputeTotal(c) \/ Write(c) \/ Abandon(c)

ItemsSpec == (\E budget \in [ItemBudget -> Nat] : ItemsInit(budget)) /\ [][ItemsNext]_itemVars

-----------------------------------------------------------------------------
(* Properties                                                              *)

\* After an edit the run's score is the total of its items, unless two edits,
\* or an edit and what the machine posts, met.
RunScoreFollowsItems ==
    edited /\ ~met => score = TotalOf(Answers)

\* The initial score of a run and the original score of an item are what they
\* had before they were first corrected, and stay that, unless edits met.
FirstScoresKept ==
    ~met =>
        /\ initial = corrected["run"]
        /\ \A i \in Present : item[i].original = corrected[i]

\* Between calls a user's vote is the last one asked for, unless two calls of
\* the user met or one failed.
VoteStands ==
    \A t \in Targets, u \in Managers :
        <<t, u>> \notin unclear /\ ~(\E c \in ItemCalls : Same(c, t, u)) => vote[t][u] = asked[t][u]

\* What users have entered about the items of a run is kept and counted.
EditsHold == RunScoreFollowsItems /\ FirstScoresKept /\ VoteStands

=============================================================================
