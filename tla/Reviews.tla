------------------------------- MODULE Reviews -------------------------------
(***************************************************************************)
(* One human review, from its creation by the reviewer to its completion,  *)
(* reopening and deletion, with the calls of ReviewService that change it: *)
(* createReview, updateReview, createReviewItemComments, updateReviewItem, *)
(* deleteReviewItem and deleteReview.                                      *)
(*                                                                         *)
(* A call goes from await to await, several at a time.  A review keeps one *)
(* score and an item one answer (the initial ones and the final ones are   *)
(* computed and written side by side), and an item's comments are one.     *)
(* Items and comments are known by their question and the number of the    *)
(* call that made them: no key keeps a second item from a question.        *)
(***************************************************************************)
EXTENDS ChallengePhases, FiniteSetsExt

CONSTANTS
    ReviewPhase,   \* the phase a review is made in
    Owner,         \* the reviewer whose resource the review is made for
    Copilots, Admins,
    Questions, Answers,
    Share,         \* share of a question in the score, in percent
    Calls,         \* calls in flight
    Requests,      \* what they may ask
    MaxAsks,       \* bound: calls made
    MaxMishaps,    \* bound: calls of other services, or of the database, that fail
    None

Privileged == Admins \cup Machines

ASSUME ReviewPhaseAssumption == ReviewPhase \in Phases
ASSUME ReviewUsersAssumption == {Owner} \cup Copilots \cup Admins \subseteq Users
ASSUME QuestionsAssumption ==
    /\ Answers \subseteq 0..100 /\ None \notin Answers
    /\ Share \in [Questions -> 0..100] /\ IsFiniteSet(Questions)
ASSUME ReviewBoundsAssumption == MaxAsks \in Nat /\ MaxMishaps \in Nat

VARIABLES
    review,       \* the row: status and score
    answers,      \* answers of its items, None where there is no item
    comment,      \* the call that made the comment of an item, 0 for none
    pc, req,      \* a call: where it is, what it asks
    number,       \* its number, from 2: 1 made what is there at the start
    seen,         \* status and answers it has read, and the item it is about
    owes,         \* what is left for it to tell of what it has written
    found,        \* the score it has read, and the one it has computed
    asked, mishaps,
    unannounced,  \* auxiliary: completed, and no event since
    unaudited,    \* auxiliary: calls of managers that changed the review
    raced,        \* auxiliary: items changed while a computed score was underway
    slipped       \* auxiliary: reopened between an update's read and its write

reviewRow == <<review, answers, comment>>
callVars == <<pc, req, number, seen, owes, found, asked>>
reviewHistory == <<unannounced, unaudited, raced, slipped>>
reviewVars == <<reviewRow, callVars, mishaps, reviewHistory>>

Stored == {"PENDING", "IN_PROGRESS", "COMPLETED"}
Item == Answers \cup {None}
Score == 0..10000

Request == [user : Users, kind : {"create", "update", "add", "edit", "drop", "delete"},
            status : Stored \cup {None}, answers : [Questions -> Item], comments : BOOLEAN]

ASSUME RequestsAssumption == Requests \subseteq Request /\ None \notin Stored

Number == 1..(MaxAsks + 1)
Items == Questions \X Number

ReviewTypeOK ==
    /\ review \in [status : Stored \cup {"none", "gone"}, score : Score \cup {None}]
    /\ answers \in [Items -> Item] /\ comment \in [Items -> 0..(MaxAsks + 1)]
    /\ pc \in [Calls -> {"idle", "check", "write", "read", "items", "score", "announce", "audit"}]
    /\ req \in [Calls -> Request \cup {None}]
    /\ number \in [Calls -> Number]
    /\ seen \in [Calls -> [status : Stored \cup {None}, answers : [Items -> Item],
                            item : Items \cup {None}]]
    /\ owes \in [Calls -> SUBSET {"event", "entry"}]
    /\ found \in [Calls -> [read : Score \cup {None}, now : Score \cup {None}]]
    /\ asked \in 0..MaxAsks /\ mishaps \in 0..MaxMishaps
    /\ unaudited \subseteq Calls
    /\ {unannounced, raced, slipped} \subseteq BOOLEAN

NoAnswers == [q \in Questions |-> None]
Nothing == [status |-> None, answers |-> [k \in Items |-> None], item |-> None]
NoScores == [read |-> None, now |-> None]

-----------------------------------------------------------------------------
(* scorecard-score.util: the score of the items.                           *)

\* An answer is what its question makes of it: 0 without one, else its
\* place in the question's scale in percent.
QuestionScore(answer) == IF answer = None THEN 0 ELSE answer

Total(pick) == MapThenSumSet(LAMBDA q : Share[q] * QuestionScore(pick[q]), Questions)

AnswersOf(as, q) ==
    LET items == {k \in Items : k[1] = q /\ as[k] # None}
    IN  IF items = {} THEN {None} ELSE {as[k] : k \in items}

\* Of several items of a question the last one read counts, in no set order.
Picks(as) == {pick \in [Questions -> Item] : \A q \in Questions : pick[q] \in AnswersOf(as, q)}

Totals(as) == {Total(pick) : pick \in Picks(as)}

\* The items that call n makes of a list
Fresh(n, list) == [k \in Items |-> IF k[2] = n THEN list[k[1]] ELSE None]

ReviewInit(s) ==
    /\ review = [status |-> s.status, score |-> IF s.status = "none" THEN None ELSE Total(s.answers)]
    /\ answers = Fresh(1, s.answers)
    /\ comment = [k \in Items |-> IF s.comments /\ answers[k] # None THEN 1 ELSE 0]
    /\ pc = [c \in Calls |-> "idle"]
    /\ req = [c \in Calls |-> None]
    /\ number = [c \in Calls |-> 1]
    /\ seen = [c \in Calls |-> Nothing]
    /\ owes = [c \in Calls |-> {}]
    /\ found = [c \in Calls |-> NoScores]
    /\ asked = MaxAsks - s.edits /\ mishaps = 0
    /\ unaudited = {}
    /\ unannounced = FALSE /\ raced = FALSE /\ slipped = FALSE

-----------------------------------------------------------------------------
Answered(r) == {q \in Questions : r.answers[q] # None}

Goto(c, label) == pc' = [pc EXCEPT ![c] = label]

\* What a call has read is of no use to it past its write.
Forget(c) ==
    /\ number' = [number EXCEPT ![c] = 1]
    /\ seen' = [seen EXCEPT ![c] = Nothing]

\* A call is finished and forgotten.
Leave(c) ==
    /\ Goto(c, "idle")
    /\ req' = [req EXCEPT ![c] = None]
    /\ Forget(c)
    /\ owes' = [owes EXCEPT ![c] = {}]
    /\ found' = [found EXCEPT ![c] = NoScores]

\* A call goes on, with what it holds.
Holds == UNCHANGED <<req, number, seen, owes, found>>

Mishap == mishaps < MaxMishaps /\ mishaps' = mishaps + 1

\* A call that asks r is let in at the label.
Enter(c, r, label) ==
    /\ pc[c] = "idle" /\ asked < MaxAsks
    /\ WhitelistAllows(r.user)
    /\ asked' = asked + 1
    /\ Goto(c, label)
    /\ req' = [req EXCEPT ![c] = r]
    /\ number' = [number EXCEPT ![c] = asked + 2]
    /\ UNCHANGED owes

Exists == review.status \in Stored

\* Call n, which asks r, deletes the comments of other items than those kept,
\* and makes new ones.
WriteComments(n, r, kept) ==
    comment' = [k \in Items |->
        IF k \in kept THEN comment[k]
        ELSE IF r.comments /\ answers'[k] # None THEN n ELSE 0]

\* What is recorded of a write of call c that makes the row new.
Record(c, new) ==
    /\ unannounced' = (new.status = "COMPLETED"
                          /\ (unannounced \/ review.status # "COMPLETED"))
    /\ raced' = (raced \/ \E d \in Calls \ {c} : pc[d] = "score")

-----------------------------------------------------------------------------
(* createReview                                                            *)

MayCreate(u) == u \in Privileged \cup {Owner}

\* The status the row is made with
StatusOf(r) == IF r.status = None THEN "PENDING" ELSE r.status

\* The checks of createReview, then the insert: a second review of the same
\* resource, submission and scorecard is refused by the database.
CreateWrite(c, r) ==
    /\ r.kind = "create"
    /\ MayCreate(r.user)
    /\ IsPhaseOpen({ReviewPhase})
    /\ review.status = "none"
    /\ Enter(c, r, "score")
    /\ review' = [status |-> StatusOf(r), score |-> None]
    /\ answers' = Fresh(asked + 2, r.answers)
    /\ WriteComments(asked + 2, r, {})
    /\ found' = [found EXCEPT ![c] = [read |-> None, now |-> Total(r.answers)]]
    /\ Record(c, review')
    /\ UNCHANGED <<seen, mishaps, unaudited, slipped>>

\* The score is stored, or there is none where the scorecard cannot be loaded,
\* and the review announced if it is completed; the call fails where it cannot
\* be stored.
PersistScore(c) ==
    /\ pc[c] = "score" /\ req[c].kind = "create"
    /\ \/ /\ Exists
          /\ \/ review' = [review EXCEPT !.score = found[c].now] /\ UNCHANGED mishaps
             \/ Mishap /\ UNCHANGED review
          /\ owes' = [owes EXCEPT ![c] = IF review.status = "COMPLETED" THEN {"event"} ELSE {}]
          /\ Goto(c, "announce")
          /\ found' = [found EXCEPT ![c] = NoScores]
          /\ Forget(c)
          /\ UNCHANGED req
       \/ /\ IF Exists THEN Mishap ELSE UNCHANGED mishaps
          /\ Leave(c)
          /\ UNCHANGED review
    /\ UNCHANGED <<answers, comment, asked, reviewHistory>>

-----------------------------------------------------------------------------
(* updateReview                                                            *)

\* Privileged callers, the owner, and a copilot who sends no more than a status.
MayUpdate(r) ==
    \/ r.user \in Privileged \cup {Owner}
    \/ r.user \in Copilots /\ r.answers = NoAnswers

UpdateRead(c, r) ==
    /\ r.kind = "update"
    /\ Exists
    /\ MayUpdate(r)
    /\ Enter(c, r, "check")
    /\ seen' = [seen EXCEPT ![c] = [status |-> review.status, answers |-> answers, item |-> None]]
    /\ UNCHANGED <<reviewRow, found, mishaps, reviewHistory>>

Reopens(c) == seen[c].status = "COMPLETED" /\ req[c].status \in {"PENDING", "IN_PROGRESS"}

\* Only privileged callers change a review of a completed challenge, and
\* nobody reopens one whose phase is over.
Editable(c) ==
    /\ req[c].user \in Privileged \/ challenge # "COMPLETED"
    /\ Reopens(c) => ~PhaseCompleted(ReviewPhase)

UpdateCheck(c) ==
    /\ pc[c] = "check"
    /\ \/ Editable(c) /\ Goto(c, "write") /\ Holds
       \/ ~Editable(c) /\ Leave(c)
    /\ UNCHANGED <<reviewRow, asked, mishaps, reviewHistory>>

IsManager(u) == u \in Privileged \cup Copilots

\* Nobody has written between the first read of the call and now.
AsSeen(c) == seen[c].answers = answers /\ seen[c].status \in {None, review.status}

\* collectReviewItemAuditChanges compares one item of each question.
Disagree(before, after) ==
    \E q \in Questions : AnswersOf(before, q) \cap AnswersOf(after, q) = {}

\* The row written, against the one the call has read
CompletesFromProgress(c, status) == status = "COMPLETED" /\ seen[c].status = "IN_PROGRESS"

Completes(c, status) == status = "COMPLETED" /\ seen[c].status # "COMPLETED"

Differs(c, status, after) == status # seen[c].status \/ Disagree(seen[c].answers, after)

\* Both are settled by what the write returns.  A status left out stays.
UpdateWrite(c) ==
    LET r == req[c]
        replaced == r.answers # NoAnswers
        new == [status |-> IF r.status = None THEN review.status ELSE r.status,
                score |-> IF Reopens(c) THEN None ELSE review.score]
        after == IF replaced THEN Fresh(number[c], r.answers) ELSE answers
        manages == IsManager(r.user)
    IN  /\ pc[c] = "write" /\ r.kind = "update" /\ Exists
        /\ review' = new
        /\ answers' = after
        /\ WriteComments(number[c], r, IF replaced THEN {} ELSE Items)
        /\ Goto(c, IF Reopens(c) THEN "announce" ELSE "read")
        /\ owes' = [owes EXCEPT ![c] =
                       (IF Completes(c, new.status) THEN {"event"} ELSE {})
                       \cup (IF manages /\ Differs(c, new.status, after) THEN {"entry"} ELSE {})]
        /\ unaudited' = IF /\ manages /\ AsSeen(c)
                           /\ new.status # review.status \/ Disagree(answers, after)
                        THEN unaudited \cup {c} ELSE unaudited
        /\ slipped' = (slipped \/ /\ review.status = "COMPLETED" /\ new.status # "COMPLETED"
                                  /\ \E d \in Calls \ {c} : pc[d] \in {"check", "write"})
        /\ Record(c, new)
        /\ Forget(c)
        /\ UNCHANGED <<req, found, asked, mishaps>>

-----------------------------------------------------------------------------
(* Items                                                                   *)

\* ensureReviewItemChangeAccess: the owner, a copilot or a privileged caller,
\* whatever the phase and the challenge.
MayChangeItems(u) == u \in Privileged \cup Copilots \cup {Owner}

\* An item is made for one question, however many it has; a copilot may only
\* change the answer, and leaves the comments alone.
ItemRequestOK(r, k) ==
    /\ Answered(r) = {k[1]}
    /\ r.kind \in {"edit", "drop"} => answers[k] # None
    /\ r.kind = "edit" /\ r.user \in Copilots => ~r.comments

\* The item of a call that makes one is its own.
ItemRead(c, r) ==
    \E k \in Items :
        /\ r.kind \in {"add", "edit", "drop"}
        /\ Exists
        /\ r.kind = "add" => k[2] = asked + 2
        /\ MayChangeItems(r.user) /\ ItemRequestOK(r, k)
        /\ Enter(c, r, "write")
        /\ seen' = [seen EXCEPT ![c] = [status |-> None, answers |-> answers, item |-> k]]
        /\ UNCHANGED <<reviewRow, found, mishaps, reviewHistory>>

\* Nobody has taken the item away.
Present(c) == req[c].kind = "add" \/ answers[seen[c].item] # None

ItemWrite(c) ==
    LET r == req[c]
        k == seen[c].item
        after == [answers EXCEPT ![k] = IF r.kind = "drop" THEN None ELSE r.answers[k[1]]]
        changed == r.kind = "edit" /\ IsManager(r.user)
    IN  /\ pc[c] = "write" /\ r.kind \in {"add", "edit", "drop"} /\ Exists /\ Present(c)
        /\ answers' = after
        /\ WriteComments(number[c], r, IF r.kind = "edit" /\ ~r.comments THEN Items ELSE Items \ {k})
        /\ Goto(c, "read")
        /\ owes' = [owes EXCEPT ![c] =
                       IF changed /\ after[k] # seen[c].answers[k] THEN {"entry"} ELSE {}]
        /\ unaudited' = IF changed /\ AsSeen(c) /\ after # answers
                        THEN unaudited \cup {c} ELSE unaudited
        /\ Record(c, review)
        /\ Forget(c)
        /\ UNCHANGED <<review, req, found, asked, mishaps, slipped>>

\* The row a call is about to write is gone, or the write fails.
WriteFails(c) ==
    /\ pc[c] = "write"
    /\ \/ ~Exists /\ UNCHANGED mishaps
       \/ Exists /\ req[c].kind # "update" /\ ~Present(c) /\ UNCHANGED mishaps
       \/ Mishap
    /\ Leave(c)
    /\ UNCHANGED <<reviewRow, asked, reviewHistory>>

-----------------------------------------------------------------------------
(* recomputeAndUpdateReviewScores: every error is logged and swallowed.    *)

AfterScore(c) == IF req[c].kind = "update" THEN "announce" ELSE "audit"

RecomputeRead(c) ==
    /\ pc[c] = "read"
    /\ \/ Exists /\ Goto(c, "items") /\ UNCHANGED mishaps
          /\ found' = [found EXCEPT ![c].read = review.score]
       \/ (IF Exists THEN Mishap ELSE UNCHANGED mishaps) /\ Goto(c, AfterScore(c))
          /\ UNCHANGED found
    /\ UNCHANGED <<reviewRow, req, number, seen, owes, asked, reviewHistory>>

\* The score is None where the scorecard cannot be loaded.
RecomputeItems(c) ==
    /\ pc[c] = "items"
    /\ \E score \in Totals(answers) \cup {None} :
          /\ found' = [found EXCEPT ![c].now = score]
          /\ IF score = None THEN Mishap ELSE UNCHANGED mishaps
    /\ Goto(c, "score")
    /\ UNCHANGED <<reviewRow, req, number, seen, owes, asked, reviewHistory>>

NeedsUpdateWhenUnset(c) == found[c].read = None

NeedsUpdate(c) == found[c].now # found[c].read

RecomputeWrite(c) ==
    /\ pc[c] = "score" /\ req[c].kind # "create"
    /\ review' = IF Exists /\ NeedsUpdate(c) THEN [review EXCEPT !.score = found[c].now] ELSE review
    /\ Goto(c, AfterScore(c))
    /\ found' = [found EXCEPT ![c] = NoScores]
    /\ UNCHANGED <<answers, comment, req, number, seen, owes, asked, mishaps, reviewHistory>>

-----------------------------------------------------------------------------
(* publishReviewCompletedEvent and recordReviewAuditEntry.                 *)

\* The review is read again, and announced if it is still completed; a call
\* that fails to publish ends with an error.
Announce(c) ==
    LET due == "event" \in owes[c] /\ review.status = "COMPLETED" IN
    /\ pc[c] = "announce"
    /\ \/ /\ Goto(c, "audit")
          /\ unannounced' = (unannounced /\ ~due)
          /\ Holds /\ UNCHANGED mishaps
       \/ due /\ Mishap /\ Leave(c) /\ UNCHANGED unannounced
    /\ UNCHANGED <<reviewRow, asked, unaudited, raced, slipped>>

\* Updates of a review and of an item by a manager are recorded, where the call
\* has found a difference; a failure is swallowed.
Audit(c) ==
    /\ pc[c] = "audit"
    /\ \/ /\ unaudited' = IF "entry" \in owes[c] THEN unaudited \ {c} ELSE unaudited
          /\ UNCHANGED mishaps
       \/ "entry" \in owes[c] /\ Mishap /\ UNCHANGED unaudited
    /\ Leave(c)
    /\ UNCHANGED <<reviewRow, asked, unannounced, raced, slipped>>

-----------------------------------------------------------------------------
(* deleteReview                                                            *)

MayDelete(u) == u \in Privileged \cup Copilots

Delete(c, r) ==
    /\ r.kind = "delete"
    /\ Exists /\ MayDelete(r.user)
    /\ pc[c] = "idle" /\ asked < MaxAsks /\ WhitelistAllows(r.user)
    /\ asked' = asked + 1
    /\ review' = [status |-> "gone", score |-> None]
    /\ answers' = [k \in Items |-> None]
    /\ comment' = [k \in Items |-> 0]
    /\ Record(c, review')
    /\ Holds
    /\ UNCHANGED <<pc, mishaps, unaudited, slipped>>

ReviewNext ==
    \E c \in Calls :
        \/ \E r \in Requests :
             CreateWrite(c, r) \/ UpdateRead(c, r) \/ ItemRead(c, r) \/ Delete(c, r)
        \/ UpdateCheck(c) \/ UpdateWrite(c) \/ ItemWrite(c) \/ WriteFails(c)
        \/ PersistScore(c) \/ RecomputeRead(c) \/ RecomputeItems(c) \/ RecomputeWrite(c)
        \/ Announce(c) \/ Audit(c)

=============================================================================
