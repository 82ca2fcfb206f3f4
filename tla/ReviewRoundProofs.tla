-------------------------- MODULE ReviewRoundProofs --------------------------
(***************************************************************************)
(* Proofs about a review round (Reviews, Appeals), for any calls, phases   *)
(* and questions: the score of a review follows its items, what happens to *)
(* a review and its appeals is told once, and the text of an answered      *)
(* appeal stands.                                                          *)
(*                                                                         *)
(* Each of them breaks only while a call is between two of its awaits, so  *)
(* each inductive invariant says which call still owes what is missing.    *)
(* Last, who sees what of it and of the AI reviews (AiVisibility): there   *)
(* the rules of the services agree in any state of the challenge.          *)
(***************************************************************************)
EXTENDS Appeals, AiVisibility, FiniteSetTheorems, TLAPS

-----------------------------------------------------------------------------
(* The calls on a review                                                   *)

\* The review, its items and what has failed
RowShape ==
    /\ review = [status |-> review.status, score |-> review.score]
    /\ review.status \in Stored \cup {"none", "gone"}
    /\ answers \in [Items -> Item]
    /\ mishaps \in Nat /\ asked \in Nat
    /\ raced \in BOOLEAN /\ slipped \in BOOLEAN /\ unannounced \in BOOLEAN

CallShape ==
    /\ pc = [c \in Calls |-> pc[c]] /\ req = [c \in Calls |-> req[c]]
    /\ seen = [c \in Calls |-> seen[c]] /\ found = [c \in Calls |-> found[c]]
    /\ number = [c \in Calls |-> number[c]] /\ owes = [c \in Calls |-> owes[c]]

\* What a call keeps; one that is not there has read nothing.
CallFits(c) ==
    /\ seen[c] = [status |-> seen[c].status, answers |-> seen[c].answers, item |-> seen[c].item]
    /\ seen[c].status \in Stored \cup {None}
    /\ found[c] = [read |-> found[c].read, now |-> found[c].now]
    /\ number[c] \in Number
    /\ pc[c] = "idle" => seen[c].status = None
    /\ pc[c] # "idle" => req[c] \in Request
    /\ pc[c] = "check" => req[c].kind = "update"
    /\ pc[c] = "write" /\ req[c].kind # "update" => seen[c].item \in Items

ReviewShape == RowShape /\ CallShape /\ \A c \in Calls : CallFits(c)

\* A step of call c
ReviewStep(c) ==
    \/ \E r \in Requests :
         CreateWrite(c, r) \/ UpdateRead(c, r) \/ ItemRead(c, r) \/ Delete(c, r)
    \/ UpdateCheck(c) \/ UpdateWrite(c) \/ ItemWrite(c) \/ WriteFails(c)
    \/ PersistScore(c) \/ RecomputeRead(c) \/ RecomputeItems(c) \/ RecomputeWrite(c)
    \/ Announce(c) \/ Audit(c)

\* A step of others, which may fail
ReviewStays ==
    /\ UNCHANGED <<reviewRow, callVars, reviewHistory>>
    /\ mishaps' = mishaps \/ mishaps' = mishaps + 1

LEMMA ReviewCases ==
  ASSUME [Next]_vars
  PROVE  (\E c \in Calls : ReviewStep(c)) \/ ReviewStays
<1>1. CASE ReviewNext
  BY <1>1 DEF ReviewNext, ReviewStep
<1>2. CASE UNCHANGED reviewVars
  BY <1>2 DEF reviewVars, ReviewStays
<1>3. CASE /\ \E c \in AppealCalls : PublishResponded(c) \/ PublishRespondedFails(c)
           /\ UNCHANGED <<reviewRow, callVars, reviewHistory>>
  BY <1>3 DEF PublishResponded, PublishRespondedFails, Mishap, ReviewStays
<1>4. QED
  BY <1>1, <1>2, <1>3 DEF Next, vars

\* What a call keeps is its own.
CallStays(d) ==
    /\ pc'[d] = pc[d] /\ req'[d] = req[d] /\ seen'[d] = seen[d] /\ found'[d] = found[d]
    /\ number'[d] = number[d] /\ owes'[d] = owes[d]

LEMMA OthersStay ==
  ASSUME ReviewShape, NEW c \in Calls, ReviewStep(c), NEW d \in Calls \ {c}
  PROVE  CallStays(d)
<1> USE DEF ReviewShape, CallShape, CallStays, Goto, Leave, Enter, Forget, Holds
<1>1. CASE \E r \in Requests : CreateWrite(c, r)
  BY <1>1 DEF CreateWrite
<1>2. CASE \E r \in Requests : UpdateRead(c, r)
  BY <1>2 DEF UpdateRead
<1>3. CASE \E r \in Requests : ItemRead(c, r)
  BY <1>3 DEF ItemRead
<1>4. CASE \E r \in Requests : Delete(c, r)
  BY <1>4 DEF Delete
<1>5. CASE UpdateCheck(c) \/ WriteFails(c) \/ Audit(c)
  BY <1>5 DEF UpdateCheck, WriteFails, Audit
<1>6. CASE UpdateWrite(c)
  BY <1>6 DEF UpdateWrite
<1>7. CASE ItemWrite(c)
  BY <1>7 DEF ItemWrite
<1>8. CASE PersistScore(c)
  BY <1>8 DEF PersistScore
<1>9. CASE RecomputeRead(c) \/ RecomputeItems(c)
  BY <1>9 DEF RecomputeRead, RecomputeItems
<1>10. CASE RecomputeWrite(c)
  BY <1>10 DEF RecomputeWrite
<1>11. CASE Announce(c)
  BY <1>11 DEF Announce
<1>12. QED
  BY <1>1, <1>2, <1>3, <1>4, <1>5, <1>6, <1>7, <1>8, <1>9, <1>10, <1>11 DEF ReviewStep

LEMMA Data ==
  /\ Requests \subseteq Request /\ None \notin Stored /\ NoAnswers \in [Questions -> Item]
  /\ \A r \in Request : r.answers \in [Questions -> Item] /\ r.status \in Stored \cup {None}
BY RequestsAssumption DEF NoAnswers, Item, Request

\* What a call makes of a list of items
LEMMA FreshItems ==
  ASSUME NEW n \in Number, NEW list \in [Questions -> Item]
  PROVE  Fresh(n, list) \in [Items -> Item] /\ Total(list) \in Totals(Fresh(n, list))
<1> DEFINE as == Fresh(n, list)
<1>1. as \in [Items -> Item] /\ \A k \in Items : as[k] = IF k[2] = n THEN list[k[1]] ELSE None
  BY DEF Fresh, Items, Item
<1>2. ASSUME NEW q \in Questions PROVE list[q] \in AnswersOf(as, q)
  <2> DEFINE items == {k \in Items : k[1] = q /\ as[k] # None}
  <2>1. AnswersOf(as, q) = IF items = {} THEN {None} ELSE {as[k] : k \in items}
    BY DEF AnswersOf
  <2>2. CASE list[q] = None
    <3>1. items = {}
      BY <1>1, <2>2
    <3>2. QED
      BY <2>1, <2>2, <3>1
  <2>3. CASE list[q] # None
    <3>1. <<q, n>> \in Items /\ as[<<q, n>>] = list[q]
      BY <1>1 DEF Items
    <3>2. <<q, n>> \in items
      BY <2>3, <3>1
    <3>3. QED
      BY <2>1, <3>1, <3>2
  <2>4. QED
    BY <2>2, <2>3
<1>3. list \in Picks(as)
  BY <1>2 DEF Picks
<1>4. QED
  BY <1>1, <1>3 DEF Totals

\* Numbers of calls stay within their bound.
LEMMA Numbered ==
  ASSUME asked \in Nat, asked < MaxAsks
  PROVE  asked + 2 \in Number
BY ReviewBoundsAssumption DEF Number

LEMMA ShapeInit ==
  ASSUME NEW s \in Starts, ReviewInit(s)
  PROVE  ReviewShape
<1>0. 1 \in Number
  BY ReviewBoundsAssumption DEF Number
<1>1. s.status \in Stored \cup {"none"} /\ s.answers \in [Questions -> Item]
      /\ MaxAsks - s.edits \in Nat
  BY StartsAssumption, ReviewBoundsAssumption
<1>2. RowShape
  BY <1>0, <1>1, FreshItems DEF ReviewInit, RowShape
<1>3. CallShape
  BY DEF ReviewInit, CallShape
<1>4. \A c \in Calls : CallFits(c)
  BY <1>0 DEF ReviewInit, CallFits, Nothing, NoScores
<1>5. QED
  BY <1>2, <1>3, <1>4 DEF ReviewShape

LEMMA CallShapeStep ==
  ASSUME CallShape, NEW c \in Calls, ReviewStep(c)
  PROVE  CallShape'
<1> USE DEF CallShape, Goto, Leave, Enter, Forget, Holds
<1>1. ASSUME NEW r \in Requests, CreateWrite(c, r) PROVE CallShape'
  BY <1>1 DEF CreateWrite
<1>2. ASSUME NEW r \in Requests, UpdateRead(c, r) \/ Delete(c, r) PROVE CallShape'
  BY <1>2 DEF UpdateRead, Delete
<1>3. ASSUME NEW r \in Requests, ItemRead(c, r) PROVE CallShape'
  BY <1>3 DEF ItemRead
<1>4. CASE UpdateCheck(c) \/ WriteFails(c) \/ Audit(c)
  BY <1>4 DEF UpdateCheck, WriteFails, Audit
<1>5. CASE UpdateWrite(c)
  BY <1>5 DEF UpdateWrite
<1>6. CASE ItemWrite(c)
  BY <1>6 DEF ItemWrite
<1>7. CASE PersistScore(c)
  BY <1>7 DEF PersistScore
<1>8. CASE RecomputeRead(c) \/ RecomputeItems(c)
  BY <1>8 DEF RecomputeRead, RecomputeItems
<1>9. CASE RecomputeWrite(c) \/ Announce(c)
  BY <1>9 DEF RecomputeWrite, Announce
<1>10. QED
  BY <1>1, <1>2, <1>3, <1>4, <1>5, <1>6, <1>7, <1>8, <1>9 DEF ReviewStep

LEMMA RowShapeStep ==
  ASSUME ReviewShape, NEW c \in Calls, ReviewStep(c)
  PROVE  RowShape'
<1> USE DEF RowShape
<1>0. /\ RowShape /\ (pc[c] # "idle" => req[c] \in Request) /\ number[c] \in Number
      /\ pc[c] = "write" /\ req[c].kind # "update" => seen[c].item \in Items
      /\ [k \in Items |-> None] \in [Items -> Item]
  BY DEF ReviewShape, CallFits, Item
<1>1. ASSUME NEW r \in Requests, CreateWrite(c, r) PROVE RowShape'
  <2>1. StatusOf(r) \in Stored /\ r.answers \in [Questions -> Item] /\ asked + 2 \in Number
    BY <1>0, <1>1, Data, Numbered DEF StatusOf, Stored, CreateWrite, Enter
  <2>2. answers' \in [Items -> Item]
    BY <1>1, <2>1, FreshItems DEF CreateWrite
  <2>3. QED
    BY <1>0, <1>1, <2>1, <2>2 DEF CreateWrite, Record, Enter
<1>2. ASSUME NEW r \in Requests, UpdateRead(c, r) \/ ItemRead(c, r) PROVE RowShape'
  BY <1>0, <1>2 DEF UpdateRead, ItemRead, Enter, reviewRow, reviewHistory
<1>3. ASSUME NEW r \in Requests, Delete(c, r) PROVE RowShape'
  BY <1>0, <1>3 DEF Delete, Record
<1>4. CASE UpdateWrite(c)
  <2>0. req[c] \in Request
    BY <1>0, <1>4 DEF UpdateWrite
  <2>1. \E status \in Stored : \E score : review' = [status |-> status, score |-> score]
    BY <1>0, <1>4, <2>0, Data DEF UpdateWrite, Exists
  <2>2. Fresh(number[c], req[c].answers) \in [Items -> Item]
    BY <1>0, <2>0, Data, FreshItems
  <2>3. answers' \in [Items -> Item]
    BY <1>0, <1>4, <2>2 DEF UpdateWrite
  <2>4. unannounced' \in BOOLEAN /\ raced' \in BOOLEAN /\ slipped' \in BOOLEAN
        /\ mishaps' = mishaps /\ asked' = asked
    BY <1>0, <1>4 DEF UpdateWrite, Record
  <2>5. QED
    BY <1>0, <2>1, <2>3, <2>4
<1>5. CASE ItemWrite(c)
  <2>1. PICK answer \in Item : answers' = [answers EXCEPT ![seen[c].item] = answer]
    BY <1>0, <1>5, Data DEF ItemWrite, Item, Items
  <2>2. answers' \in [Items -> Item]
    BY <1>0, <2>1
  <2>3. QED
    BY <1>0, <1>5, <2>2 DEF ItemWrite, Record
<1>6. CASE RecomputeWrite(c)
  <2>1. review' = [status |-> review.status, score |-> review'.score]
    BY <1>0, <1>6 DEF RecomputeWrite
  <2>2. QED
    BY <1>0, <1>6, <2>1 DEF RecomputeWrite, reviewHistory
<1>7. CASE PersistScore(c)
  <2>1. review' = [status |-> review.status, score |-> review'.score]
    BY <1>0, <1>7 DEF PersistScore
  <2>2. mishaps' \in Nat /\ UNCHANGED <<answers, asked, raced, slipped, unannounced>>
    BY <1>0, <1>7 DEF PersistScore, Mishap, reviewHistory
  <2>3. QED
    BY <1>0, <2>1, <2>2
<1>8. CASE UpdateCheck(c) \/ WriteFails(c) \/ RecomputeRead(c)
  BY <1>0, <1>8 DEF UpdateCheck, WriteFails, RecomputeRead, Mishap, reviewRow, reviewHistory
<1>9. CASE RecomputeItems(c)
  <2>1. mishaps' \in Nat /\ UNCHANGED <<review, answers, asked, raced, slipped, unannounced>>
    BY <1>0, <1>9 DEF RecomputeItems, Mishap, reviewRow, reviewHistory
  <2>2. QED
    BY <1>0, <2>1
<1>10. CASE Announce(c)
  <2>1. unannounced' \in BOOLEAN /\ UNCHANGED <<review, answers, asked, raced, slipped>>
    BY <1>0, <1>10 DEF Announce, reviewRow
  <2>2. mishaps' \in Nat
    BY <1>0, <1>10 DEF Announce, Mishap
  <2>3. QED
    BY <1>0, <2>1, <2>2
<1>11. CASE Audit(c)
  <2>1. UNCHANGED <<review, answers, asked, raced, slipped, unannounced>>
    BY <1>11 DEF Audit, reviewRow
  <2>2. mishaps' \in Nat
    BY <1>0, <1>11 DEF Audit, Mishap
  <2>3. QED
    BY <1>0, <2>1, <2>2
<1>12. QED
  BY <1>1, <1>2, <1>3, <1>4, <1>5, <1>6, <1>7, <1>8, <1>9, <1>10, <1>11 DEF ReviewStep

LEMMA FitsStep ==
  ASSUME ReviewShape, NEW c \in Calls, ReviewStep(c)
  PROVE  CallFits(c)'
<1> USE DEF CallFits
<1>0. /\ CallShape /\ CallFits(c) /\ review.status \in Stored \cup {"none", "gone"}
      /\ asked \in Nat /\ 1 \in Number
  BY ReviewBoundsAssumption DEF ReviewShape, RowShape, Number
<1>1. ASSUME NEW r \in Requests, CreateWrite(c, r) PROVE CallFits(c)'
  <2>1. /\ pc'[c] = "score" /\ req'[c] = r /\ seen' = seen /\ number'[c] = asked + 2
        /\ found'[c] = [read |-> None, now |-> Total(r.answers)] /\ asked < MaxAsks
    BY <1>0, <1>1 DEF CreateWrite, Enter, Goto, CallShape
  <2>2. asked + 2 \in Number
    BY <1>0, <2>1, Numbered
  <2>3. r \in Request
    BY Data
  <2>4. found'[c] = [read |-> found'[c].read, now |-> found'[c].now]
    BY <2>1
  <2>5. QED
    BY <1>0, <2>1, <2>2, <2>3, <2>4
<1>2. ASSUME NEW r \in Requests, UpdateRead(c, r) \/ ItemRead(c, r) PROVE CallFits(c)'
  <2>1. /\ pc'[c] \in {"check", "write"} /\ req'[c] = r /\ found'[c] = found[c]
        /\ number'[c] = asked + 2 /\ asked < MaxAsks
        /\ \/ \E status \in Stored : /\ pc'[c] = "check" /\ r.kind = "update"
                                    /\ seen'[c] = [status |-> status, answers |-> answers, item |-> None]
           \/ \E k \in Items : /\ pc'[c] = "write"
                                /\ seen'[c] = [status |-> None, answers |-> answers, item |-> k]
    <3>1. CASE UpdateRead(c, r)
      BY <1>0, <3>1 DEF UpdateRead, Enter, Goto, Exists, CallShape
    <3>2. CASE ItemRead(c, r)
      BY <1>0, <3>2 DEF ItemRead, Enter, Goto, Exists, CallShape
    <3>3. QED
      BY <1>2, <3>1, <3>2
  <2>2. asked + 2 \in Number
    BY <1>0, <2>1, Numbered
  <2>3. r \in Request
    BY Data
  <2>4. /\ seen'[c] = [status |-> seen'[c].status, answers |-> seen'[c].answers, item |-> seen'[c].item]
        /\ seen'[c].status \in Stored \cup {None}
        /\ pc'[c] = "check" => r.kind = "update"
        /\ pc'[c] = "write" => seen'[c].item \in Items
    <3>1. CASE \E status \in Stored : /\ pc'[c] = "check" /\ r.kind = "update"
                                     /\ seen'[c] = [status |-> status, answers |-> answers, item |-> None]
      BY <3>1
    <3>2. CASE \E k \in Items : /\ pc'[c] = "write"
                                /\ seen'[c] = [status |-> None, answers |-> answers, item |-> k]
      BY <3>2
    <3>3. QED
      BY <2>1, <3>1, <3>2
  <2>5. QED
    BY <1>0, <2>1, <2>2, <2>3, <2>4
<1>3. ASSUME NEW r \in Requests, Delete(c, r) PROVE CallFits(c)'
  BY <1>0, <1>3 DEF Delete, Holds
<1>4. ASSUME Leave(c) PROVE CallFits(c)'
  BY <1>0, <1>4 DEF Leave, Forget, Goto, CallShape, Nothing, NoScores
\* The call goes on.
<1>5. ASSUME pc'[c] # "idle", pc[c] # "idle", pc'[c] # "write" \/ pc[c] = "check", req' = req,
             seen' = seen \/ seen'[c] = Nothing, number'[c] \in {number[c], 1},
             pc'[c] # "check", found'[c] = [read |-> found'[c].read, now |-> found'[c].now]
      PROVE  CallFits(c)'
  BY <1>0, <1>5 DEF Nothing
<1>6. CASE UpdateWrite(c) \/ ItemWrite(c)
  <2>1. /\ pc'[c] \in {"announce", "read"} /\ pc[c] = "write" /\ req' = req /\ found' = found
        /\ seen'[c] = Nothing /\ number'[c] = 1
    BY <1>0, <1>6 DEF UpdateWrite, ItemWrite, Forget, Goto, CallShape
  <2>2. QED
    BY <1>0, <1>5, <2>1
<1>7. CASE UpdateCheck(c) \/ WriteFails(c) \/ Announce(c) \/ Audit(c)
  <2>1. \/ Leave(c)
        \/ /\ pc'[c] \in {"write", "audit"} /\ pc[c] \in {"check", "announce"} /\ Holds
           /\ pc'[c] = "write" => pc[c] = "check"
    BY <1>0, <1>7 DEF UpdateCheck, WriteFails, Announce, Audit, Goto, CallShape
  <2>2. QED
    BY <1>0, <1>4, <1>5, <2>1 DEF Holds
<1>8. CASE RecomputeRead(c)
  <2>1. /\ pc'[c] \in {"items", AfterScore(c)} /\ pc[c] = "read" /\ UNCHANGED <<req, seen, number>>
        /\ found' = found \/ found'[c] = [found[c] EXCEPT !.read = review.score]
    BY <1>0, <1>8 DEF RecomputeRead, Goto, CallShape
  <2>2. found'[c] = [read |-> found'[c].read, now |-> found'[c].now]
    BY <1>0, <2>1
  <2>3. QED
    BY <1>0, <1>5, <2>1, <2>2 DEF AfterScore
<1>9. CASE RecomputeItems(c)
  <2>1. /\ pc'[c] = "score" /\ pc[c] = "items" /\ UNCHANGED <<req, seen, number>>
        /\ \E score : found'[c] = [found[c] EXCEPT !.now = score]
    BY <1>0, <1>9 DEF RecomputeItems, Goto, CallShape
  <2>2. found'[c] = [read |-> found'[c].read, now |-> found'[c].now]
    BY <1>0, <2>1
  <2>3. QED
    BY <1>0, <1>5, <2>1, <2>2
<1>10. CASE RecomputeWrite(c)
  <2>1. /\ pc'[c] = AfterScore(c) /\ pc[c] = "score" /\ UNCHANGED <<req, seen, number>>
        /\ found'[c] = NoScores
    BY <1>0, <1>10 DEF RecomputeWrite, Goto, CallShape
  <2>2. QED
    BY <1>0, <1>5, <2>1 DEF AfterScore, NoScores
<1>11. CASE PersistScore(c)
  <2>1. \/ Leave(c)
        \/ /\ pc'[c] = "announce" /\ pc[c] = "score" /\ req' = req /\ seen'[c] = Nothing
           /\ number'[c] = 1 /\ found'[c] = NoScores
    BY <1>0, <1>11 DEF PersistScore, Forget, Goto, CallShape
  <2>2. QED
    BY <1>0, <1>4, <1>5, <2>1 DEF NoScores
<1>12. QED
  BY <1>1, <1>2, <1>3, <1>6, <1>7, <1>8, <1>9, <1>10, <1>11 DEF ReviewStep

LEMMA ShapeStep ==
  ASSUME ReviewShape, NEW c \in Calls, ReviewStep(c)
  PROVE  ReviewShape'
<1>1. \A d \in Calls \ {c} : CallFits(d)'
  BY OthersStay DEF ReviewShape, CallStays, CallFits
<1>2. QED
  BY <1>1, CallShapeStep, RowShapeStep, FitsStep DEF ReviewShape

LEMMA ShapeStays ==
  ASSUME ReviewShape, ReviewStays
  PROVE  ReviewShape'
BY DEF ReviewShape, RowShape, CallShape, CallFits, ReviewStays, reviewRow, callVars, reviewHistory

-----------------------------------------------------------------------------
(* The score of a review                                                   *)

Clean == ~raced /\ mishaps = 0

Right == review.score \in Totals(answers) \cup {None}

\* The call is about to read the score, or has read the one that is there.
Repairs(c) ==
    \/ pc[c] = "read"
    \/ pc[c] \in {"items", "score"} /\ found[c].read = review.score

\* The score that a call has computed is that of the items, and a wrong score
\* has a call that will put it right.
ScoreFits ==
    /\ ~Exists => review.score = None
    /\ Clean => \A c \in Calls : pc[c] = "score" => found[c].now \in Totals(answers) \cup {None}
    /\ Clean /\ ~Right => \E c \in Calls : Repairs(c)

\* What has gone wrong stays so.
LEMMA CleanBefore ==
  ASSUME ReviewShape, NEW c \in Calls, ReviewStep(c), Clean'
  PROVE  Clean /\ mishaps' = 0
<1> USE DEF Clean
<1>1. raced \in BOOLEAN /\ mishaps \in Nat /\ ~raced' /\ mishaps' = 0
  BY DEF ReviewShape, RowShape
<1>2. raced' = raced \/ (raced => raced')
  BY DEF ReviewStep, CreateWrite, UpdateRead, ItemRead, Delete, UpdateCheck, UpdateWrite, ItemWrite,
         WriteFails, PersistScore, RecomputeRead, RecomputeItems, RecomputeWrite, Announce, Audit, Record, reviewHistory
<1>3. mishaps' = mishaps \/ mishaps' = mishaps + 1
  BY DEF ReviewStep, CreateWrite, UpdateRead, ItemRead, Delete, UpdateCheck, UpdateWrite, ItemWrite,
         WriteFails, PersistScore, RecomputeRead, RecomputeItems, RecomputeWrite, Announce, Audit, Mishap
<1>4. QED
  BY <1>1, <1>2, <1>3

\* A call writes the review, and a score of none with it or a computation to come.
LEMMA ScoreWritten ==
  ASSUME ReviewShape, NEW c \in Calls, ReviewStep(c), ~Exists' => review'.score = None,
         Clean' => \A d \in Calls \ {c} : pc[d] # "score",
         Clean' => (pc'[c] = "score" => found'[c].now \in Totals(answers)' \cup {None}),
         review'.score = None \/ pc'[c] = "read"
  PROVE  ScoreFits'
BY OthersStay DEF ScoreFits, Right, Repairs, CallStays

\* A call leaves the row, the items and the calculations as they are.
LEMMA ScoreKept ==
  ASSUME ReviewShape, ScoreFits, NEW c \in Calls, ReviewStep(c), UNCHANGED <<review, answers>>,
         pc'[c] # "score", pc[c] \notin {"read", "items", "score"}
  PROVE  ScoreFits'
<1>1. \A d \in Calls \ {c} : CallStays(d)
  BY OthersStay
<1>2. Clean' => Clean
  BY CleanBefore
<1>3. Clean' => \A d \in Calls : pc'[d] = "score" => found'[d].now \in Totals(answers)' \cup {None}
  BY <1>1, <1>2 DEF ScoreFits, CallStays
<1>4. Clean' /\ ~Right' => \E d \in Calls : Repairs(d)'
  BY <1>1, <1>2 DEF ScoreFits, CallStays, Repairs, Right
<1>5. QED
  BY <1>3, <1>4 DEF ScoreFits, Exists

LEMMA ScoreStep ==
  ASSUME ReviewShape, ScoreFits, NEW c \in Calls, ReviewStep(c)
  PROVE  ScoreFits'
<1>0. CallShape /\ CallFits(c)
  BY DEF ReviewShape
<1>1. ASSUME NEW r \in Requests, CreateWrite(c, r) PROVE ScoreFits'
  <2>1. /\ review'.score = None /\ found'[c].now = Total(r.answers) /\ Record(c, review')
        /\ answers' = Fresh(asked + 2, r.answers) /\ asked < MaxAsks
    BY <1>0, <1>1 DEF CreateWrite, CallShape, Enter
  <2>2. asked \in Nat /\ asked + 2 \in Number
    BY <2>1, Numbered DEF ReviewShape, RowShape
  <2>3. Total(r.answers) \in Totals(answers')
    BY <2>1, <2>2, Data, FreshItems
  <2>4. Totals(answers)' = Totals(answers')
    BY DEF Totals, Picks, AnswersOf
  <2>5. Clean' => \A d \in Calls \ {c} : pc[d] # "score"
    BY <2>1 DEF Record, Clean
  <2>6. QED
    BY <2>1, <2>3, <2>4, <2>5, ScoreWritten
<1>2. ASSUME NEW r \in Requests, UpdateRead(c, r) \/ ItemRead(c, r) PROVE ScoreFits'
  <2>1. UNCHANGED <<review, answers>> /\ pc'[c] # "score" /\ pc[c] = "idle"
    BY <1>0, <1>2 DEF UpdateRead, ItemRead, Enter, Goto, CallShape, reviewRow
  <2>2. QED
    BY <2>1, ScoreKept
<1>3. ASSUME NEW r \in Requests, Delete(c, r) PROVE ScoreFits'
  <2>1. review'.score = None /\ Record(c, review') /\ pc'[c] = "idle"
    BY <1>3 DEF Delete
  <2>2. Clean' => \A d \in Calls \ {c} : pc[d] # "score"
    BY <2>1 DEF Record, Clean
  <2>3. QED
    BY <2>1, <2>2, ScoreWritten
<1>4. CASE UpdateWrite(c)
  <2>1. /\ review'.score = None \/ pc'[c] = "read"
        /\ pc'[c] \in {"announce", "read"} /\ review'.status \in Stored
        /\ \A d \in Calls \ {c} : raced' \/ pc[d] # "score"
    BY <1>0, <1>4, Data DEF UpdateWrite, Goto, CallShape, CallFits, Exists, Record
  <2>2. QED
    BY <2>1, ScoreWritten DEF Clean, Exists
<1>5. CASE ItemWrite(c)
  <2>1. pc'[c] = "read" /\ Exists' /\ Record(c, review)
    BY <1>0, <1>5 DEF ItemWrite, Goto, CallShape, Exists
  <2>2. Clean' => \A d \in Calls \ {c} : pc[d] # "score"
    BY <2>1 DEF Record, Clean
  <2>3. QED
    BY <2>1, <2>2, ScoreWritten
<1>6. CASE UpdateCheck(c) \/ WriteFails(c) \/ Announce(c) \/ Audit(c)
  <2>1. UNCHANGED <<review, answers>> /\ pc'[c] # "score" /\ pc[c] \in {"check", "write", "announce", "audit"}
    BY <1>0, <1>6 DEF UpdateCheck, WriteFails, Announce, Audit, Leave, Goto, CallShape, reviewRow
  <2>2. QED
    BY <2>1, ScoreKept
<1>7. CASE RecomputeRead(c)
  <2>1. \A d \in Calls \ {c} : CallStays(d)
    BY OthersStay
  <2>2. /\ UNCHANGED <<review, answers>> /\ pc'[c] # "score" /\ pc[c] = "read"
        /\ \/ pc'[c] = "items" /\ found' = [found EXCEPT ![c].read = review.score]
           \/ ~Exists \/ Mishap
    BY <1>0, <1>7 DEF RecomputeRead, Goto, CallShape, AfterScore, reviewRow
  <2>3. Clean' => Clean /\ ~Mishap
    BY CleanBefore DEF Mishap, ReviewShape, RowShape
  <2>4. Clean' => \A d \in Calls : pc'[d] = "score" => found'[d].now \in Totals(answers)' \cup {None}
    BY <2>1, <2>2, <2>3 DEF ScoreFits, CallStays
  <2>5. Clean' /\ ~Right' => pc'[c] = "items" /\ found' = [found EXCEPT ![c].read = review.score]
    BY <2>2, <2>3 DEF ScoreFits, Right
  <2>6. found' = [found EXCEPT ![c].read = review.score] => found'[c].read = review.score
    <3>1. SUFFICES ASSUME found' = [found EXCEPT ![c] = [found[c] EXCEPT !.read = review.score]]
                   PROVE  found'[c].read = review.score
      OBVIOUS
    <3>2. found'[c] = [found[c] EXCEPT !.read = review.score]
      BY <1>0, <3>1 DEF CallShape
    <3>3. QED
      BY <1>0, <3>2 DEF CallFits
  <2>7. QED
    BY <2>2, <2>4, <2>5, <2>6 DEF ScoreFits, Exists, Repairs
<1>8. CASE RecomputeItems(c)
  <2>1. \A d \in Calls \ {c} : CallStays(d)
    BY OthersStay
  <2>2. /\ UNCHANGED <<review, answers>> /\ pc'[c] = "score" /\ pc[c] = "items"
        /\ \E score \in Totals(answers) \cup {None} : found'[c] = [found[c] EXCEPT !.now = score]
    BY <1>0, <1>8 DEF RecomputeItems, Goto, CallShape, reviewRow
  <2>3. found'[c].now \in Totals(answers) \cup {None} /\ found'[c].read = found[c].read
    BY <1>0, <2>2 DEF CallFits
  <2>4. Clean' => Clean
    BY CleanBefore
  <2>5. Clean' => \A d \in Calls : pc'[d] = "score" => found'[d].now \in Totals(answers)' \cup {None}
    BY <2>1, <2>2, <2>3, <2>4 DEF ScoreFits, CallStays
  <2>6. Clean' /\ ~Right' => \E d \in Calls : Repairs(d)'
    BY <2>1, <2>2, <2>3, <2>4 DEF ScoreFits, CallStays, Repairs, Right
  <2>7. QED
    BY <2>2, <2>5, <2>6 DEF ScoreFits, Exists
<1>9. CASE RecomputeWrite(c)
  <2>1. \A d \in Calls \ {c} : CallStays(d)
    BY OthersStay
  <2>2. Clean' => Clean
    BY CleanBefore
  <2>3. /\ answers' = answers /\ pc'[c] # "score" /\ pc[c] = "score"
        /\ review' = IF Exists /\ NeedsUpdate(c) THEN [review EXCEPT !.score = found[c].now] ELSE review
    BY <1>0, <1>9 DEF RecomputeWrite, Goto, CallShape, AfterScore
  <2>4. Clean' => found[c].now \in Totals(answers) \cup {None}
    BY <2>2, <2>3 DEF ScoreFits
  <2>5. review = [status |-> review.status, score |-> review.score]
    BY DEF ReviewShape, RowShape
  <2>6. Clean' => \A d \in Calls : pc'[d] = "score" => found'[d].now \in Totals(answers)' \cup {None}
    BY <2>1, <2>2, <2>3 DEF ScoreFits, CallStays
  <2>7. CASE Exists /\ NeedsUpdate(c)
    <3>1. review'.score = found[c].now /\ review'.status = review.status
      BY <2>3, <2>5, <2>7
    <3>2. QED
      BY <2>3, <2>4, <2>6, <2>7, <3>1 DEF ScoreFits, Right, Exists
  <2>8. CASE ~(Exists /\ NeedsUpdate(c))
    <3>1. review' = review
      BY <2>3, <2>8
    <3>2. Clean' /\ ~Right' => ~Repairs(c)
      BY <2>2, <2>3, <2>4, <2>8, <3>1 DEF Repairs, NeedsUpdate, Right, ScoreFits
    <3>3. Clean' /\ ~Right' => \E d \in Calls \ {c} : Repairs(d)
      BY <2>2, <2>3, <3>1, <3>2 DEF ScoreFits, Right
    <3>4. Clean' /\ ~Right' => \E d \in Calls : Repairs(d)'
      BY <2>1, <3>1, <3>3 DEF Repairs, CallStays
    <3>5. QED
      BY <2>6, <3>1, <3>4 DEF ScoreFits, Exists
  <2>9. QED
    BY <2>7, <2>8
<1>10. CASE PersistScore(c)
  <2>1. \A d \in Calls \ {c} : CallStays(d)
    BY OthersStay
  <2>2. Clean' => Clean /\ ~Mishap
    BY CleanBefore DEF Mishap, ReviewShape, RowShape
  <2>3. /\ answers' = answers /\ pc'[c] # "score" /\ pc[c] = "score"
        /\ \/ Exists /\ review' = [review EXCEPT !.score = found[c].now]
           \/ review' = review /\ (~Exists \/ Mishap)
    BY <1>0, <1>10 DEF PersistScore, Leave, Goto, CallShape
  <2>4. review = [status |-> review.status, score |-> review.score]
    BY DEF ReviewShape, RowShape
  <2>5. Clean' => \A d \in Calls : pc'[d] = "score" => found'[d].now \in Totals(answers)' \cup {None}
    BY <2>1, <2>2, <2>3 DEF ScoreFits, CallStays
  <2>6. Clean' => Right'
    BY <2>2, <2>3, <2>4 DEF ScoreFits, Right
  <2>7. ~Exists' => review'.score = None
    BY <2>3, <2>4 DEF ScoreFits, Exists
  <2>8. QED
    BY <2>5, <2>6, <2>7 DEF ScoreFits
<1>11. QED
  BY <1>1, <1>2, <1>3, <1>4, <1>5, <1>6, <1>7, <1>8, <1>9, <1>10 DEF ReviewStep

LEMMA ScoreStays ==
  ASSUME ReviewShape, ScoreFits, ReviewStays
  PROVE  ScoreFits'
<1>1. UNCHANGED <<review, answers, pc, found, raced>> /\ (Clean' => Clean)
  BY DEF ReviewStays, reviewRow, callVars, reviewHistory, Clean, ReviewShape, RowShape
<1>2. QED
  BY <1>1 DEF ScoreFits, Right, Repairs, Exists

-----------------------------------------------------------------------------
(* The events of a review, and the audit log                               *)

\* The call will publish the completion of the review.
Announces(c) ==
    \/ pc[c] = "announce" /\ "event" \in owes[c]
    \/ pc[c] \in {"read", "items", "score"} /\ req[c].kind = "update" /\ "event" \in owes[c]
    \/ pc[c] = "score" /\ req[c].kind = "create"

\* A completion not announced has a call that will announce it; and an update
\* that has read a completed review finds it completed, or gone.
CompletionFits ==
    /\ unannounced => review.status = "COMPLETED"
    /\ ~slipped => \A c \in Calls :
           pc[c] \in {"check", "write"} /\ seen[c].status = "COMPLETED" =>
               review.status \in {"COMPLETED", "gone"}
    /\ ~slipped /\ mishaps = 0 /\ unannounced => \E c \in Calls : Announces(c)

\* A change not in the log has a call that will see what has changed.
AuditFits ==
    mishaps = 0 =>
        \A c \in unaudited :
            /\ c \in Calls /\ pc[c] \in {"read", "items", "score", "announce", "audit"}
            /\ req[c].kind # "create" /\ "entry" \in owes[c]

LEMMA HistoryBefore ==
  ASSUME ReviewShape, NEW c \in Calls, ReviewStep(c)
  PROVE  /\ mishaps' = 0 => mishaps = 0 /\ ~Mishap
         /\ ~slipped' => ~slipped
<1>1. mishaps \in Nat /\ slipped \in BOOLEAN
  BY DEF ReviewShape, RowShape
<1>2. mishaps' = mishaps \/ mishaps' = mishaps + 1
  BY DEF ReviewStep, CreateWrite, UpdateRead, ItemRead, Delete, UpdateCheck, UpdateWrite, ItemWrite,
         WriteFails, PersistScore, RecomputeRead, RecomputeItems, RecomputeWrite, Announce, Audit, Mishap
<1>3. slipped => slipped'
  BY DEF ReviewStep, CreateWrite, UpdateRead, ItemRead, Delete, UpdateCheck, UpdateWrite, ItemWrite,
         WriteFails, PersistScore, RecomputeRead, RecomputeItems, RecomputeWrite, Announce, Audit, reviewHistory
<1>4. QED
  BY <1>1, <1>2, <1>3 DEF Mishap

\* A step of a call that writes no status and is not there to publish
LEMMA CompletionKept ==
  ASSUME ReviewShape, CompletionFits, NEW c \in Calls, ReviewStep(c),
         review'.status = review.status, unannounced' = unannounced,
         Announces(c) => Announces(c)' \/ mishaps' # 0,
         pc'[c] \in {"check", "write"} /\ seen'[c].status = "COMPLETED" =>
             \/ pc[c] \in {"check", "write"} /\ seen[c].status = "COMPLETED"
             \/ review.status = "COMPLETED"
  PROVE  CompletionFits'
<1>1. \A d \in Calls \ {c} : CallStays(d)
  BY OthersStay
<1>2. (mishaps' = 0 => mishaps = 0) /\ (~slipped' => ~slipped)
  BY HistoryBefore
<1>3. ASSUME ~slipped', mishaps' = 0, unannounced' PROVE \E d \in Calls : Announces(d)'
  <2>1. PICK d \in Calls : Announces(d)
    BY <1>2, <1>3 DEF CompletionFits
  <2>2. CASE d = c
    BY <1>3, <2>1, <2>2
  <2>3. CASE d # c
    BY <1>1, <2>1, <2>3 DEF Announces, CallStays
  <2>4. QED
    BY <2>2, <2>3
<1>4. ASSUME ~slipped', NEW d \in Calls, pc'[d] \in {"check", "write"}, seen'[d].status = "COMPLETED"
      PROVE  review'.status \in {"COMPLETED", "gone"}
  BY <1>1, <1>2, <1>4 DEF CompletionFits, CallStays
<1>5. QED
  BY <1>3, <1>4 DEF CompletionFits

LEMMA CompletionStep ==
  ASSUME ReviewShape, CompletionFits, NEW c \in Calls, ReviewStep(c)
  PROVE  CompletionFits'
<1>0. CallShape /\ CallFits(c) /\ RowShape
  BY DEF ReviewShape
<1>a. \A d \in Calls \ {c} : CallStays(d)
  BY OthersStay
<1>b. (mishaps' = 0 => mishaps = 0 /\ ~Mishap) /\ (~slipped' => ~slipped)
  BY HistoryBefore
<1>1. ASSUME NEW r \in Requests, CreateWrite(c, r) PROVE CompletionFits'
  <2>1. /\ review.status = "none" /\ review'.status = StatusOf(r) /\ pc'[c] = "score" /\ req'[c] = r
        /\ r.kind = "create" /\ seen'[c].status = None
        /\ unannounced' => review'.status = "COMPLETED"
    BY <1>0, <1>1 DEF CreateWrite, Enter, Goto, Record, CallShape, CallFits
  <2>2. unannounced' => Announces(c)'
    BY <2>1, Data DEF Announces
  <2>3. ~slipped' => \A d \in Calls : ~(pc'[d] \in {"check", "write"} /\ seen'[d].status = "COMPLETED")
    BY <1>a, <1>b, <2>1 DEF CompletionFits, CallStays
  <2>4. QED
    BY <2>1, <2>2, <2>3 DEF CompletionFits
<1>2. ASSUME NEW r \in Requests, UpdateRead(c, r) \/ ItemRead(c, r) PROVE CompletionFits'
  <2>1. /\ UNCHANGED <<review, unannounced>> /\ pc[c] = "idle"
        /\ seen'[c].status \in {None, review.status}
    <3>1. CASE UpdateRead(c, r)
      BY <1>0, <3>1 DEF UpdateRead, Enter, reviewRow, reviewHistory, CallShape
    <3>2. CASE ItemRead(c, r)
      BY <1>0, <3>2 DEF ItemRead, Enter, reviewRow, reviewHistory, CallShape
    <3>3. QED
      BY <1>2, <3>1, <3>2
  <2>2. QED
    BY <2>1, CompletionKept, Data DEF Announces, Stored
<1>3. ASSUME NEW r \in Requests, Delete(c, r) PROVE CompletionFits'
  BY <1>3 DEF Delete, Record, CompletionFits
<1>4. CASE UpdateWrite(c)
  <2>1. /\ pc[c] = "write" /\ req' = req /\ Exists /\ req[c].kind = "update"
        /\ Completes(c, review'.status) => "event" \in owes'[c]
        /\ review'.status = IF req[c].status = None THEN review.status ELSE req[c].status
        /\ pc'[c] = IF Reopens(c) THEN "announce" ELSE "read"
    BY <1>0, <1>4 DEF UpdateWrite, Goto, CallShape, Completes
  <2>2. unannounced' <=> /\ review'.status = "COMPLETED"
                         /\ unannounced \/ review.status # "COMPLETED"
    BY <1>4 DEF UpdateWrite, Record
  <2>3. ~slipped' => \/ review.status # "COMPLETED" \/ review'.status = "COMPLETED"
                     \/ \A d \in Calls \ {c} : pc[d] \notin {"check", "write"}
    BY <1>4 DEF UpdateWrite
  <2>4. ASSUME ~slipped', NEW d \in Calls, pc'[d] \in {"check", "write"}, seen'[d].status = "COMPLETED"
        PROVE  review'.status \in {"COMPLETED", "gone"}
    <3>1. d # c /\ pc[d] \in {"check", "write"} /\ seen[d].status = "COMPLETED"
      BY <1>a, <2>1, <2>4 DEF CallStays
    <3>2. review.status = "COMPLETED"
      BY <1>b, <2>1, <2>4, <3>1 DEF CompletionFits, Exists, Stored
    <3>3. QED
      BY <2>3, <2>4, <3>1, <3>2
  <2>5. ASSUME ~slipped', mishaps' = 0, unannounced' PROVE \E d \in Calls : Announces(d)'
    <3>1. CASE review.status = "COMPLETED"
      <4>1. PICK d \in Calls : Announces(d)
        BY <1>b, <2>2, <2>5, <3>1 DEF CompletionFits
      <4>2. d # c
        BY <2>1, <4>1 DEF Announces
      <4>3. QED
        BY <1>a, <4>1, <4>2 DEF Announces, CallStays
    <3>2. CASE review.status # "COMPLETED"
      <4>1. req[c].status = "COMPLETED"
        BY <2>1, <2>2, <2>5, <3>2
      <4>2. seen[c].status # "COMPLETED"
        BY <1>b, <2>1, <2>5, <3>2 DEF CompletionFits, Exists, Stored
      <4>3. pc'[c] = "read"
        BY <2>1, <4>2 DEF Reopens
      <4>4. "event" \in owes'[c]
        BY <2>1, <2>2, <2>5, <4>2 DEF Completes
      <4>5. QED
        BY <2>1, <4>3, <4>4 DEF Announces
    <3>3. QED
      BY <3>1, <3>2
  <2>6. QED
    BY <2>2, <2>4, <2>5 DEF CompletionFits
<1>5. CASE ItemWrite(c)
  <2>1. /\ review' = review /\ pc[c] = "write" /\ pc'[c] = "read"
        /\ unannounced' <=> review.status = "COMPLETED" /\ unannounced
    BY <1>0, <1>5 DEF ItemWrite, Record, Goto, CallShape
  <2>2. unannounced' = unannounced
    BY <1>0, <2>1, ShapeStep DEF CompletionFits, RowShape, ReviewShape
  <2>3. QED
    BY <2>1, <2>2, CompletionKept DEF Announces
<1>6. CASE UpdateCheck(c) \/ WriteFails(c)
  <2>1. /\ UNCHANGED <<review, unannounced>> /\ pc[c] \in {"check", "write"}
        /\ pc'[c] = "idle" \/ seen' = seen
    BY <1>0, <1>6 DEF UpdateCheck, WriteFails, Leave, Holds, Goto, CallShape, reviewRow, reviewHistory
  <2>2. QED
    BY <2>1, CompletionKept DEF Announces
<1>7. CASE RecomputeRead(c) \/ RecomputeItems(c) \/ RecomputeWrite(c)
  <2>1. /\ UNCHANGED <<req, owes, unannounced>> /\ pc[c] \in {"read", "items", "score"}
        /\ pc'[c] \in {"items", "score", AfterScore(c)}
        /\ pc[c] = "score" => req[c].kind # "create"
    BY <1>0, <1>7 DEF RecomputeRead, RecomputeItems, RecomputeWrite, Goto, CallShape, reviewHistory
  <2>2. review'.status = review.status
    BY <1>0, <1>7 DEF RecomputeRead, RecomputeItems, RecomputeWrite, RowShape, reviewRow
  <2>3. Announces(c) => Announces(c)'
    BY <2>1 DEF Announces, AfterScore
  <2>4. pc'[c] \notin {"check", "write"}
    BY <2>1 DEF AfterScore
  <2>5. QED
    BY <2>1, <2>2, <2>3, <2>4, CompletionKept
<1>p. CASE PersistScore(c)
  <2>1. /\ unannounced' = unannounced /\ pc[c] = "score" /\ pc'[c] \in {"announce", "idle"}
        /\ \/ /\ Exists /\ pc'[c] = "announce"
              /\ owes'[c] = IF review.status = "COMPLETED" THEN {"event"} ELSE {}
           \/ ~Exists \/ Mishap
    BY <1>0, <1>p DEF PersistScore, Leave, Goto, CallShape, reviewHistory
  <2>2. review'.status = review.status
    BY <1>0, <1>p DEF PersistScore, RowShape
  <2>3. CASE unannounced
    <3>1. review.status = "COMPLETED" /\ Exists
      BY <2>3 DEF CompletionFits, Exists, Stored
    <3>2. mishaps' # 0 \/ Announces(c)'
      BY <1>b, <2>1, <3>1 DEF Announces
    <3>3. QED
      BY <2>1, <2>2, <3>2, CompletionKept
  <2>4. CASE ~unannounced
    BY <1>a, <1>b, <2>1, <2>2, <2>4 DEF CompletionFits, CallStays
  <2>5. QED
    BY <2>3, <2>4
<1>8. CASE Announce(c)
  <2> DEFINE due == "event" \in owes[c] /\ review.status = "COMPLETED"
  <2>1. review' = review /\ pc[c] = "announce" /\ pc'[c] \in {"audit", "idle"}
    BY <1>0, <1>8 DEF Announce, Leave, Goto, CallShape, reviewRow
  <2>2. \/ unannounced' = (unannounced /\ ~due)
        \/ due /\ Mishap /\ unannounced' = unannounced
    BY <1>8 DEF Announce
  <2>3. CASE ~unannounced'
    BY <1>a, <1>b, <2>1, <2>3 DEF CompletionFits, CallStays
  <2>4. CASE unannounced' /\ (Mishap \/ ~due)
    <3>1. unannounced /\ review.status = "COMPLETED"
      BY <2>2, <2>4 DEF CompletionFits
    <3>2. unannounced' = unannounced
      BY <1>0, <2>2, <2>4, <3>1 DEF RowShape
    <3>3. Announces(c) => mishaps' # 0
      BY <1>b, <2>1, <2>4, <3>1 DEF Announces
    <3>4. QED
      BY <2>1, <3>2, <3>3, CompletionKept
  <2>5. QED
    BY <2>2, <2>3, <2>4
<1>9. CASE Audit(c)
  <2>1. UNCHANGED <<review, unannounced>> /\ pc[c] = "audit" /\ pc'[c] = "idle"
    BY <1>0, <1>9 DEF Audit, Leave, Goto, CallShape, reviewRow
  <2>2. QED
    BY <2>1, CompletionKept DEF Announces
<1>10. QED
  BY <1>1, <1>2, <1>3, <1>4, <1>5, <1>6, <1>7, <1>p, <1>8, <1>9 DEF ReviewStep

LEMMA CompletionStays ==
  ASSUME ReviewShape, CompletionFits, ReviewStays
  PROVE  CompletionFits'
<1>1. /\ UNCHANGED <<review, pc, req, seen, owes, slipped, unannounced>> /\ (mishaps' = 0 => mishaps = 0)
  BY DEF ReviewStays, reviewRow, callVars, reviewHistory, ReviewShape, RowShape
<1>2. QED
  BY <1>1 DEF CompletionFits, Announces

\* A change of the call not in the log has it still to write the entry.
OwesEntry(c) ==
    /\ pc[c] \in {"read", "items", "score", "announce", "audit"}
    /\ req[c].kind # "create" /\ "entry" \in owes[c]

\* A step of a call that leaves the changes not in the log, and does not end them
LEMMA AuditKept ==
  ASSUME ReviewShape, AuditFits, NEW c \in Calls, ReviewStep(c),
         unaudited' = unaudited \/ (unaudited' = unaudited \cup {c} /\ OwesEntry(c)'),
         c \in unaudited => mishaps' # 0 \/ OwesEntry(c)'
  PROVE  AuditFits'
<1>1. \A d \in Calls \ {c} : CallStays(d)
  BY OthersStay
<1>2. mishaps' = 0 => mishaps = 0
  BY HistoryBefore
<1>3. ASSUME mishaps' = 0, NEW d \in unaudited, d # c
      PROVE  d \in Calls /\ OwesEntry(d)'
  BY <1>1, <1>2, <1>3 DEF AuditFits, CallStays, OwesEntry
<1>4. QED
  BY <1>3 DEF AuditFits, OwesEntry

LEMMA AuditStep ==
  ASSUME ReviewShape, AuditFits, NEW c \in Calls, ReviewStep(c)
  PROVE  AuditFits'
<1>0. CallShape /\ CallFits(c) /\ answers \in [Items -> Item]
  BY DEF ReviewShape, RowShape
<1>a. \A d \in Calls \ {c} : CallStays(d)
  BY OthersStay
<1>b. mishaps' = 0 => mishaps = 0 /\ ~Mishap
  BY HistoryBefore
<1>c. mishaps = 0 /\ c \in unaudited => OwesEntry(c)
  BY DEF AuditFits, OwesEntry
<1>1. ASSUME NEW r \in Requests, CreateWrite(c, r) \/ UpdateRead(c, r) \/ ItemRead(c, r) \/ Delete(c, r)
      PROVE  AuditFits'
  <2>1. unaudited' = unaudited /\ pc[c] = "idle"
    BY <1>1 DEF CreateWrite, UpdateRead, ItemRead, Delete, Enter, reviewHistory
  <2>2. QED
    BY <1>b, <1>c, <2>1, AuditKept DEF OwesEntry
<1>2. CASE UpdateCheck(c) \/ WriteFails(c)
  <2>1. unaudited' = unaudited /\ pc[c] \in {"check", "write"}
    BY <1>2 DEF UpdateCheck, WriteFails, reviewHistory
  <2>2. QED
    BY <1>b, <1>c, <2>1, AuditKept DEF OwesEntry
<1>3. CASE UpdateWrite(c)
  <2> DEFINE after == IF req[c].answers # NoAnswers THEN Fresh(number[c], req[c].answers) ELSE answers
             status == IF req[c].status = None THEN review.status ELSE req[c].status
             noted == /\ IsManager(req[c].user) /\ AsSeen(c)
                      /\ status # review.status \/ Disagree(answers, after)
  <2>1. /\ pc[c] = "write" /\ req' = req /\ req[c].kind = "update"
        /\ pc'[c] = "read" \/ pc'[c] = "announce"
        /\ IsManager(req[c].user) /\ Differs(c, status, after) => "entry" \in owes'[c]
        /\ unaudited' = IF noted THEN unaudited \cup {c} ELSE unaudited
    BY <1>0, <1>3 DEF UpdateWrite, Goto, CallShape
  <2>2. ASSUME noted PROVE "entry" \in owes'[c]
    <3>1. seen[c].answers = answers /\ seen[c].status \in {None, review.status}
      BY <2>2 DEF AsSeen
    <3>2. Differs(c, status, after)
      BY <1>0, <2>1, <2>2, <3>1, Data DEF Differs
    <3>3. QED
      BY <2>1, <2>2, <3>2
  <2>3. noted => OwesEntry(c)'
    BY <2>1, <2>2 DEF OwesEntry
  <2>4. QED
    BY <1>b, <1>c, <2>1, <2>3, AuditKept DEF OwesEntry
<1>4. CASE ItemWrite(c)
  <2> DEFINE k == seen[c].item
             after == [answers EXCEPT ![k] = IF req[c].kind = "drop" THEN None ELSE req[c].answers[k[1]]]
             changed == req[c].kind = "edit" /\ IsManager(req[c].user)
             noted == changed /\ AsSeen(c) /\ after # answers
  <2>1. /\ pc[c] = "write" /\ req' = req /\ pc'[c] = "read"
        /\ owes'[c] = IF changed /\ after[k] # seen[c].answers[k] THEN {"entry"} ELSE {}
        /\ unaudited' = IF noted THEN unaudited \cup {c} ELSE unaudited
    BY <1>0, <1>4 DEF ItemWrite, Goto, CallShape
  <2>2. ASSUME noted PROVE "entry" \in owes'[c]
    <3>1. after[k] # answers[k]
      BY <1>0, <2>2
    <3>2. QED
      BY <2>1, <2>2, <3>1 DEF AsSeen
  <2>3. noted => OwesEntry(c)'
    BY <2>1, <2>2 DEF OwesEntry
  <2>4. QED
    BY <1>b, <1>c, <2>1, <2>3, AuditKept DEF OwesEntry
<1>5. CASE RecomputeRead(c) \/ RecomputeItems(c) \/ RecomputeWrite(c)
  <2>1. /\ UNCHANGED <<req, owes, unaudited>> /\ pc'[c] \in {"items", "score", AfterScore(c)}
    BY <1>0, <1>5 DEF RecomputeRead, RecomputeItems, RecomputeWrite, Holds, Goto, CallShape, reviewHistory
  <2>2. QED
    BY <1>b, <1>c, <2>1, AuditKept DEF OwesEntry, AfterScore
<1>6. CASE PersistScore(c)
  <2>1. unaudited' = unaudited /\ req[c].kind = "create"
    BY <1>6 DEF PersistScore, reviewHistory
  <2>2. QED
    BY <1>b, <1>c, <2>1, AuditKept DEF OwesEntry
<1>7. CASE Announce(c)
  <2>1. /\ unaudited' = unaudited
        /\ (pc'[c] = "audit" /\ UNCHANGED <<req, owes>>) \/ Mishap
    BY <1>0, <1>7 DEF Announce, Holds, Goto, CallShape
  <2>2. QED
    BY <1>b, <1>c, <2>1, AuditKept DEF OwesEntry
<1>8. CASE Audit(c)
  <2>1. \/ unaudited' = IF "entry" \in owes[c] THEN unaudited \ {c} ELSE unaudited
        \/ Mishap
    BY <1>8 DEF Audit
  <2>2. ASSUME mishaps' = 0 PROVE unaudited' = unaudited \ {c}
    BY <1>b, <1>c, <2>1, <2>2 DEF OwesEntry
  <2>3. ASSUME mishaps' = 0, NEW d \in unaudited, d # c
        PROVE  d \in Calls /\ OwesEntry(d)'
    BY <1>a, <1>b, <2>3 DEF AuditFits, CallStays, OwesEntry
  <2>4. QED
    BY <2>2, <2>3 DEF AuditFits, OwesEntry
<1>9. QED
  BY <1>1, <1>2, <1>3, <1>4, <1>5, <1>6, <1>7, <1>8 DEF ReviewStep

LEMMA AuditStays ==
  ASSUME ReviewShape, AuditFits, ReviewStays
  PROVE  AuditFits'
<1>1. UNCHANGED <<pc, req, owes, unaudited>> /\ (mishaps' = 0 => mishaps = 0)
  BY DEF ReviewStays, reviewRow, callVars, reviewHistory, ReviewShape, RowShape
<1>2. QED
  BY <1>1 DEF AuditFits

\* The inductive invariant of a review
ReviewIInv == ReviewShape /\ ScoreFits /\ CompletionFits /\ AuditFits

LEMMA ReviewInvariant == Spec => []ReviewIInv
<1>1. Init => ReviewIInv
  <2> SUFFICES ASSUME NEW s \in Starts, ReviewInit(s) PROVE ReviewIInv
    BY DEF Init
  <2>1. ReviewShape
    BY ShapeInit
  <2>2. ScoreFits
    <3>1. s.status \in Stored \cup {"none"} /\ s.answers \in [Questions -> Item] /\ 1 \in Number
      BY StartsAssumption, ReviewBoundsAssumption DEF Number
    <3>2. Total(s.answers) \in Totals(answers)
      BY <3>1, FreshItems DEF ReviewInit
    <3>3. review.score \in {None, Total(s.answers)} /\ (~Exists => review.score = None)
      BY <3>1 DEF ReviewInit, Exists
    <3>4. \A c \in Calls : pc[c] = "idle"
      BY DEF ReviewInit
    <3>5. QED
      BY <3>2, <3>3, <3>4 DEF ScoreFits, Right
  <2>3. CompletionFits /\ AuditFits
    BY DEF ReviewInit, CompletionFits, AuditFits
  <2>4. QED
    BY <2>1, <2>2, <2>3 DEF ReviewIInv
<1>2. ReviewIInv /\ [Next]_vars => ReviewIInv'
  <2> SUFFICES ASSUME ReviewIInv, [Next]_vars PROVE ReviewIInv'
    OBVIOUS
  <2>1. ASSUME NEW c \in Calls, ReviewStep(c) PROVE ReviewIInv'
    BY <2>1, ShapeStep, ScoreStep, CompletionStep, AuditStep DEF ReviewIInv
  <2>2. CASE ReviewStays
    BY <2>2, ShapeStays, ScoreStays, CompletionStays, AuditStays DEF ReviewIInv
  <2>3. QED
    BY <2>1, <2>2, ReviewCases
<1>3. QED
  BY <1>1, <1>2, PTL DEF Spec

\* The score of a review is that of its items, of one item of each question,
\* once no call is at work, unless items changed between another call's read and its write of the score, or
\* a call failed: recomputeAndUpdateReviewScores repairs what it finds.
THEOREM ScoresFollow == Spec => []ScoreFollowsItems
<1>1. ReviewIInv => ScoreFollowsItems
  BY DEF ReviewIInv, ScoreFits, ScoreFollowsItems, Clean, Right, Repairs, Quiet
<1>2. QED
  BY <1>1, ReviewInvariant, PTL

-----------------------------------------------------------------------------
(* The calls on appeals                                                    *)

AppealShape ==
    /\ appeal \in [Comment -> {"none", "open", "answered"}]
    /\ apc = [c \in AppealCalls |-> apc[c]] /\ aby = [c \in AppealCalls |-> aby[c]]
    /\ ask = [c \in AppealCalls |-> ask[c]] /\ about = [c \in AppealCalls |-> about[c]]
    /\ \A c \in AppealCalls : apc[c] # "idle" => about[c] \in Comment
    /\ rewritten \in BOOLEAN /\ responding \in BOOLEAN /\ mixed \in BOOLEAN /\ late \in BOOLEAN
    /\ raised \in Nat /\ events \in Nat

AppealActs(c) ==
    \/ \E u \in Users, a \in Asks, k \in Comment : AppealRead(c, u, a, k)
    \/ PhaseCheck(c) \/ ChallengeCheck(c) \/ AppealWrite(c)
    \/ PublishResponded(c) \/ PublishRespondedFails(c)

\* Appeals go with the comments of a review.
Cascades == \A k \in Comment : appeal'[k] \in {appeal[k], "none"}

LEMMA AppealCases ==
  ASSUME AppealShape, [Next]_vars
  PROVE  \/ ChallengeNext /\ Note /\ UNCHANGED <<appeal, appealCallVars, raised, events, rewritten, mishaps>>
         \/ /\ Cascades /\ appeal' \in [Comment -> {"none", "open", "answered"}]
            /\ UNCHANGED <<challengeVars, appealCallVars, appealHistory>>
         \/ (\E c \in AppealCalls : AppealActs(c)) /\ UNCHANGED challengeVars
<1>1. CASE ReviewNext /\ Cascade /\ UNCHANGED <<challengeVars, appealCallVars, appealHistory>>
  <2>1. appeal' = [k \in Comment |-> IF k \in Alive' THEN appeal[k] ELSE "none"]
    BY <1>1 DEF Cascade, Write
  <2>2. QED
    BY <1>1, <2>1 DEF AppealShape, Cascades
<1>2. CASE UNCHANGED vars
  BY <1>2 DEF vars, appealVars, AppealShape, Cascades
<1>3. CASE AppealStep /\ UNCHANGED <<challengeVars, reviewVars>>
  BY <1>3 DEF AppealStep, AppealActs
<1>4. CASE /\ \E c \in AppealCalls : PublishResponded(c) \/ PublishRespondedFails(c)
           /\ UNCHANGED <<challengeVars, reviewRow, callVars, reviewHistory>>
  BY <1>4 DEF AppealActs
<1>5. CASE /\ ChallengeNext /\ Note
           /\ WindowMoves \/ \A p \in Phases : ~Schedule(p)
           /\ UNCHANGED <<reviewVars, appeal, pending, appealCallVars, raised, events, rewritten>>
  BY <1>5 DEF reviewVars
<1>6. QED
  BY <1>1, <1>2, <1>3, <1>4, <1>5 DEF Next

AppealCallStays(d) ==
    apc'[d] = apc[d] /\ aby'[d] = aby[d] /\ ask'[d] = ask[d] /\ about'[d] = about[d]

\* What a write does to the appeal it is about, and where it leaves the call
LEMMA AppealWrites ==
  ASSUME AppealShape, NEW c \in AppealCalls, AppealWrite(c)
  PROVE  \E k \in Comment :
           /\ k = about[c] /\ apc[c] = "write"
           /\ appeal' = [appeal EXCEPT ![k] = appeal'[k]]
           /\ UNCHANGED <<events, responding, mixed, late, appealAsks>>
           /\ \/ /\ ask[c] = "appeal" /\ appeal[k] = "none" /\ appeal'[k] = "open" /\ ALeave(c)
                 /\ raised' = raised + 1 /\ rewritten' = rewritten
              \/ /\ ask[c] = "change" /\ appeal' = appeal /\ ALeave(c) /\ raised' = raised
                 /\ rewritten' = (rewritten \/ (appeal[k] = "answered" /\ aby[c] \notin Privileged))
              \/ /\ ask[c] = "withdraw" /\ appeal[k] # "none" /\ appeal'[k] = "none" /\ ALeave(c)
                 /\ raised' = raised /\ rewritten' = rewritten
              \/ /\ ask[c] = "respond" /\ appeal[k] = "open" /\ appeal'[k] = "answered"
                 /\ Stays(c, "publish") /\ raised' = raised /\ rewritten' = rewritten
              \/ /\ appeal' = appeal /\ ALeave(c) /\ raised' = raised /\ rewritten' = rewritten
<1> DEFINE k == about[c]
<1>1. k \in Comment /\ apc[c] = "write" /\ UNCHANGED <<responding, mixed, late, appealAsks>>
  BY DEF AppealWrite, AppealShape
<1>2. CASE CreateAppeal(c)
  BY <1>1, <1>2 DEF CreateAppeal, Write, AppealShape
<1>3. CASE UpdateAppeal(c)
  BY <1>1, <1>3 DEF UpdateAppeal, AppealShape
<1>4. CASE DeleteAppeal(c)
  BY <1>1, <1>4 DEF DeleteAppeal, Write, AppealShape
<1>5. CASE CreateAppealResponse(c)
  BY <1>1, <1>5 DEF CreateAppealResponse, KeyFree, Write, AppealShape
<1>6. CASE UpdateAppealResponse(c) \/ AppealGone(c)
  <2>1. appeal' = appeal /\ ALeave(c) /\ UNCHANGED <<raised, rewritten, events>>
    BY <1>6 DEF UpdateAppealResponse, AppealGone
  <2>2. appeal' = [appeal EXCEPT ![k] = appeal'[k]]
    BY <1>1, <2>1 DEF AppealShape
  <2>3. QED
    BY <1>1, <2>1, <2>2
<1>7. QED
  BY <1>2, <1>3, <1>4, <1>5, <1>6 DEF AppealWrite

LEMMA OtherAppealsStay ==
  ASSUME AppealShape, NEW c \in AppealCalls, AppealActs(c), NEW d \in AppealCalls \ {c}
  PROVE  AppealCallStays(d)
<1> USE DEF AppealShape, AppealCallStays, AGoto, ALeave, Stays
<1>1. CASE \E u \in Users, a \in Asks, k \in Comment : AppealRead(c, u, a, k)
  BY <1>1 DEF AppealRead
<1>2. CASE PhaseCheck(c) \/ ChallengeCheck(c)
  BY <1>2 DEF PhaseCheck, ChallengeCheck
<1>3. CASE AppealWrite(c)
  BY <1>3, AppealWrites
<1>4. CASE PublishResponded(c) \/ PublishRespondedFails(c)
  BY <1>4 DEF PublishResponded, PublishRespondedFails
<1>5. QED
  BY <1>1, <1>2, <1>3, <1>4 DEF AppealActs

LEMMA AppealShapeStep ==
  ASSUME AppealShape, [Next]_vars
  PROVE  AppealShape'
<1>1. CASE ChallengeNext /\ Note /\ UNCHANGED <<appeal, appealCallVars, raised, events, rewritten, mishaps>>
  BY <1>1 DEF AppealShape, appealCallVars, Note, IsPhaseOpen, Underway
<1>2. CASE /\ Cascades /\ appeal' \in [Comment -> {"none", "open", "answered"}]
           /\ UNCHANGED <<challengeVars, appealCallVars, appealHistory>>
  BY <1>2 DEF AppealShape, appealCallVars, appealHistory
<1>3. ASSUME NEW c \in AppealCalls, AppealActs(c) PROVE AppealShape'
  <2>1. /\ apc' = [d \in AppealCalls |-> apc'[d]] /\ aby' = [d \in AppealCalls |-> aby'[d]]
        /\ ask' = [d \in AppealCalls |-> ask'[d]] /\ about' = [d \in AppealCalls |-> about'[d]]
        /\ apc'[c] # "idle" => about'[c] \in Comment
    <3> USE DEF AppealShape, AGoto, ALeave, Stays
    <3>1. CASE \E u \in Users, a \in Asks, k \in Comment : AppealRead(c, u, a, k)
      BY <3>1 DEF AppealRead
    <3>2. CASE PhaseCheck(c) \/ ChallengeCheck(c)
      BY <3>2 DEF PhaseCheck, ChallengeCheck
    <3>3. CASE AppealWrite(c)
      BY <3>3, AppealWrites
    <3>4. CASE PublishResponded(c) \/ PublishRespondedFails(c)
      BY <3>4 DEF PublishResponded, PublishRespondedFails
    <3>5. QED
      BY <1>3, <3>1, <3>2, <3>3, <3>4 DEF AppealActs
  <2>2. /\ appeal' \in [Comment -> {"none", "open", "answered"}]
        /\ rewritten' \in BOOLEAN /\ responding' \in BOOLEAN /\ mixed' \in BOOLEAN /\ late' \in BOOLEAN
        /\ raised' \in Nat /\ events' \in Nat
    <3>1. CASE AppealWrite(c)
      <4>1. PICK k \in Comment :
              /\ appeal' = [appeal EXCEPT ![k] = appeal'[k]]
              /\ appeal' = appeal \/ appeal'[k] \in {"none", "open", "answered"}
              /\ raised' \in {raised, raised + 1}
              /\ rewritten' \in {rewritten, TRUE}
              /\ UNCHANGED <<events, responding, mixed, late>>
        BY <3>1, AppealWrites DEF AppealShape
      <4>2. appeal' \in [Comment -> {"none", "open", "answered"}]
        <5>1. CASE appeal' = appeal
          BY <5>1 DEF AppealShape
        <5>2. CASE appeal'[k] \in {"none", "open", "answered"}
          BY <4>1, <5>2 DEF AppealShape
        <5>3. QED
          BY <4>1, <5>1, <5>2
      <4>3. raised' \in Nat /\ events' \in Nat
        BY <4>1 DEF AppealShape
      <4>4. rewritten' \in BOOLEAN /\ responding' \in BOOLEAN /\ mixed' \in BOOLEAN /\ late' \in BOOLEAN
        BY <4>1 DEF AppealShape
      <4>5. QED
        BY <4>2, <4>3, <4>4
    <3>2. CASE ~AppealWrite(c)
      BY <1>3, <3>2 DEF AppealActs, AppealRead, PhaseCheck, ChallengeCheck, PublishResponded,
                        PublishRespondedFails, AppealShape, appealHistory
    <3>3. QED
      BY <3>1, <3>2
  <2>3. \A d \in AppealCalls \ {c} : apc'[d] # "idle" => about'[d] \in Comment
    BY <1>3, OtherAppealsStay DEF AppealCallStays, AppealShape
  <2>4. QED
    BY <2>1, <2>2, <2>3 DEF AppealShape
<1>4. QED
  BY <1>1, <1>2, <1>3, AppealCases

-----------------------------------------------------------------------------
(* The text of an answered appeal                                          *)

\* A call past its checks
Checked(c, a) == ask[c] = a /\ apc[c] \in {"challenge", "write"}

\* There are responses only once their phase has been open, and appeals open
\* since are noted; a change past its check finds its phase open, unless it
\* closed then.
TextFits ==
    /\ IsPhaseOpen({ResponsePhase}) => responding
    /\ responding /\ IsPhaseOpen({AppealsPhase}) => mixed
    /\ \A c \in AppealCalls : Checked(c, "respond") => responding
    /\ \A k \in Comment : appeal[k] = "answered" => responding
    /\ \A c \in AppealCalls : Checked(c, "change") /\ aby[c] \notin Privileged =>
                                  late \/ IsPhaseOpen({AppealsPhase})
    /\ rewritten => mixed \/ late

LEMMA TextInit ==
  ASSUME NEW s \in Starts, AppealInit(s)
  PROVE  TextFits
BY DEF AppealInit, TextFits, Checked

LEMMA TextOfPhases ==
  ASSUME AppealShape, TextFits, Note,
         UNCHANGED <<appeal, appealCallVars, raised, events, rewritten, mishaps>>
  PROVE  TextFits'
<1>1. UNCHANGED <<appeal, apc, aby, ask, about, rewritten>>
  BY DEF appealCallVars
<1>2. /\ responding => responding'
      /\ mixed => mixed'
      /\ IsPhaseOpen({ResponsePhase})' => responding'
      /\ responding' /\ IsPhaseOpen({AppealsPhase})' => mixed'
      /\ late => late'
      /\ (\E c \in AppealCalls : Checked(c, "change")) => late' \/ IsPhaseOpen({AppealsPhase})'
  BY DEF Note, Underway, Checked
<1>3. QED
  BY <1>1, <1>2 DEF TextFits, Checked

LEMMA TextOfCalls ==
  ASSUME AppealShape, TextFits, NEW c \in AppealCalls, AppealActs(c), UNCHANGED challengeVars
  PROVE  TextFits'
<1>0. /\ IsPhaseOpen({AppealsPhase})' <=> IsPhaseOpen({AppealsPhase})
      /\ IsPhaseOpen({ResponsePhase})' <=> IsPhaseOpen({ResponsePhase})
  BY DEF challengeVars, IsPhaseOpen, PhaseWindowOpen
<1>1. \A d \in AppealCalls \ {c} : AppealCallStays(d)
  BY OtherAppealsStay
\* What is left to show when the call writes no appeal
<1>2. ASSUME UNCHANGED <<appeal, responding, mixed, late, rewritten>>,
             Checked(c, "respond")' => responding,
             Checked(c, "change")' /\ aby'[c] \notin Privileged => late \/ IsPhaseOpen({AppealsPhase})
      PROVE  TextFits'
  <2>1. ASSUME NEW d \in AppealCalls
        PROVE  /\ Checked(d, "respond")' => responding
               /\ Checked(d, "change")' /\ aby'[d] \notin Privileged => late \/ IsPhaseOpen({AppealsPhase})
    BY <1>1, <1>2 DEF AppealCallStays, Checked, TextFits
  <2>2. QED
    BY <1>0, <1>2, <2>1 DEF TextFits
<1>3. ASSUME NEW u \in Users, NEW a \in Asks, NEW k \in Comment, AppealRead(c, u, a, k) PROVE TextFits'
  <2>1. apc'[c] = "phase" /\ UNCHANGED <<appeal, responding, mixed, late, rewritten>>
    BY <1>3 DEF AppealRead, AGoto, AppealShape, appealHistory
  <2>2. QED
    BY <1>2, <2>1 DEF Checked
<1>4. ASSUME ALeave(c) PROVE apc'[c] = "idle"
  BY <1>4 DEF ALeave, AGoto, AppealShape
<1>5. CASE PhaseCheck(c)
  <2>1. UNCHANGED <<appeal, responding, mixed, late, rewritten>>
    BY <1>5 DEF PhaseCheck, appealHistory
  <2>2. CASE PhaseAllows(c)
    <3>1. apc'[c] = "challenge" /\ ask'[c] = ask[c] /\ aby'[c] = aby[c]
      BY <1>5, <2>2 DEF PhaseCheck, Stays, AGoto, AppealShape
    <3>2. ask[c] = "respond" => responding
      BY <2>2 DEF PhaseAllows, TextFits
    <3>3. ask[c] = "change" /\ aby[c] \notin Privileged => IsPhaseOpen({AppealsPhase})
      BY <2>2 DEF PhaseAllows
    <3>4. QED
      BY <1>2, <2>1, <3>1, <3>2, <3>3 DEF Checked
  <2>3. CASE ~PhaseAllows(c)
    BY <1>2, <1>4, <1>5, <2>1, <2>3 DEF PhaseCheck, Checked
  <2>4. QED
    BY <2>2, <2>3
<1>6. CASE ChallengeCheck(c)
  <2>1. /\ UNCHANGED <<appeal, responding, mixed, late, rewritten>>
        /\ apc'[c] = "idle" \/ (apc[c] = "challenge" /\ ask'[c] = ask[c] /\ aby'[c] = aby[c])
    BY <1>4, <1>6 DEF ChallengeCheck, Stays, appealHistory
  <2>2. QED
    BY <1>2, <2>1 DEF Checked, TextFits
<1>7. CASE PublishResponded(c) \/ PublishRespondedFails(c)
  <2>1. apc'[c] = "idle" /\ UNCHANGED <<appeal, responding, mixed, late, rewritten>>
    BY <1>4, <1>7 DEF PublishResponded, PublishRespondedFails, appealHistory
  <2>2. QED
    BY <1>2, <2>1 DEF Checked
<1>8. CASE AppealWrite(c)
  <2>1. PICK k \in Comment :
           /\ k = about[c] /\ apc[c] = "write"
           /\ appeal' = [appeal EXCEPT ![k] = appeal'[k]]
           /\ UNCHANGED <<events, responding, mixed, late, appealAsks>>
           /\ \/ /\ ask[c] = "appeal" /\ appeal[k] = "none" /\ appeal'[k] = "open" /\ ALeave(c)
                 /\ raised' = raised + 1 /\ rewritten' = rewritten
              \/ /\ ask[c] = "change" /\ appeal' = appeal /\ ALeave(c) /\ raised' = raised
                 /\ rewritten' = (rewritten \/ (appeal[k] = "answered" /\ aby[c] \notin Privileged))
              \/ /\ ask[c] = "withdraw" /\ appeal[k] # "none" /\ appeal'[k] = "none" /\ ALeave(c)
                 /\ raised' = raised /\ rewritten' = rewritten
              \/ /\ ask[c] = "respond" /\ appeal[k] = "open" /\ appeal'[k] = "answered"
                 /\ Stays(c, "publish") /\ raised' = raised /\ rewritten' = rewritten
              \/ /\ appeal' = appeal /\ ALeave(c) /\ raised' = raised /\ rewritten' = rewritten
    BY <1>8, AppealWrites
  <2>2. apc'[c] \in {"idle", "publish"}
    BY <1>4, <2>1 DEF Stays, AGoto, AppealShape
  <2>3. \A j \in Comment \ {k} : appeal'[j] = appeal[j]
    BY <2>1 DEF AppealShape
  <2>4. appeal'[k] = "answered" => appeal[k] = "answered" \/ Checked(c, "respond")
    BY <2>1 DEF Checked
  <2>5. \A j \in Comment : appeal'[j] = "answered" => responding
    BY <2>3, <2>4 DEF TextFits
  <2>6. rewritten' => rewritten \/ (appeal[k] = "answered" /\ Checked(c, "change") /\ aby[c] \notin Privileged)
    BY <2>1 DEF Checked
  <2>7. rewritten' => mixed \/ late
    BY <2>6 DEF TextFits
  <2>8. ASSUME NEW d \in AppealCalls
        PROVE  /\ Checked(d, "respond")' => responding
               /\ Checked(d, "change")' /\ aby'[d] \notin Privileged => late \/ IsPhaseOpen({AppealsPhase})
    BY <1>1, <2>2 DEF AppealCallStays, Checked, TextFits
  <2>9. QED
    BY <1>0, <2>1, <2>5, <2>7, <2>8 DEF TextFits
<1>9. QED
  BY <1>3, <1>5, <1>6, <1>7, <1>8 DEF AppealActs

-----------------------------------------------------------------------------
(* The events of responses                                                 *)

OpenAppeals == {k \in Comment : appeal[k] = "open"}
AnsweredAppeals == {k \in Comment : appeal[k] = "answered"}
Publishing == {c \in AppealCalls : apc[c] = "publish"}

\* Each appeal made is still open, or has had one event at most; each answered
\* one has its event, or a call that will publish it.
EventsFit ==
    /\ events + Cardinality(Publishing) + Cardinality(OpenAppeals) <= raised
    /\ mishaps = 0 => events + Cardinality(Publishing) >= Cardinality(AnsweredAppeals)

LEMMA FiniteComments ==
  IsFiniteSet(Comment) /\ IsFiniteSet(AppealCalls)
<1>1. IsFiniteSet(Questions) /\ IsFiniteSet(1..(MaxAsks + 1))
  BY QuestionsAssumption, ReviewBoundsAssumption, FS_Interval
<1>2. IsFiniteSet(Questions \X (1..(MaxAsks + 1)))
  BY <1>1, FS_Product
<1>3. QED
  BY <1>2, AppealsAssumption DEF Comment, Number

LEMMA CountsFinite ==
  /\ IsFiniteSet(OpenAppeals) /\ IsFiniteSet(AnsweredAppeals) /\ IsFiniteSet(Publishing)
  /\ Cardinality(OpenAppeals) \in Nat /\ Cardinality(AnsweredAppeals) \in Nat
  /\ Cardinality(Publishing) \in Nat
<1>1. OpenAppeals \subseteq Comment /\ AnsweredAppeals \subseteq Comment /\ Publishing \subseteq AppealCalls
  BY DEF OpenAppeals, AnsweredAppeals, Publishing
<1>2. IsFiniteSet(OpenAppeals) /\ IsFiniteSet(AnsweredAppeals) /\ IsFiniteSet(Publishing)
  BY <1>1, FiniteComments, FS_Subset
<1>3. QED
  BY <1>2, FS_CardinalityType

LEMMA EventsInit ==
  ASSUME NEW s \in Starts, ReviewInit(s), AppealInit(s)
  PROVE  EventsFit
<1>1. OpenAppeals = {k \in Comment : appeal[k] # "none"} /\ AnsweredAppeals = {} /\ Publishing = {}
  BY DEF AppealInit, OpenAppeals, AnsweredAppeals, Publishing
<1>2. raised = Cardinality(OpenAppeals) /\ events = 0 /\ Cardinality({}) = 0
  BY <1>1, FS_EmptySet DEF AppealInit
<1>3. QED
  BY <1>1, <1>2, CountsFinite DEF EventsFit

\* Fewer appeals, and no other change
LEMMA EventsCascade ==
  ASSUME AppealShape, EventsFit, Cascades, UNCHANGED <<appealCallVars, appealHistory>>,
         mishaps' = 0 => mishaps = 0
  PROVE  EventsFit'
<1>1. OpenAppeals' \subseteq OpenAppeals /\ AnsweredAppeals' \subseteq AnsweredAppeals
  BY DEF Cascades, OpenAppeals, AnsweredAppeals
<1>2. Cardinality(OpenAppeals') \in Nat /\ Cardinality(OpenAppeals') <= Cardinality(OpenAppeals)
  BY <1>1, CountsFinite, FS_Subset, FS_CardinalityType
<1>3. Cardinality(AnsweredAppeals') \in Nat /\ Cardinality(AnsweredAppeals') <= Cardinality(AnsweredAppeals)
  BY <1>1, CountsFinite, FS_Subset, FS_CardinalityType
<1>4. Publishing' = Publishing /\ events' = events /\ raised' = raised
  BY DEF appealCallVars, appealHistory, Publishing
<1>5. QED
  BY <1>2, <1>3, <1>4, CountsFinite DEF EventsFit, AppealShape

LEMMA EventsOfCalls ==
  ASSUME ReviewShape, AppealShape, EventsFit, NEW c \in AppealCalls, AppealActs(c),
         mishaps' = 0 => mishaps = 0 /\ ~Mishap
  PROVE  EventsFit'
<1>0. events \in Nat /\ raised \in Nat
  BY DEF AppealShape
<1>1. \A d \in AppealCalls \ {c} : AppealCallStays(d)
  BY OtherAppealsStay
<1>2. ASSUME apc[c] # "publish", apc'[c] # "publish" PROVE Publishing' = Publishing
  BY <1>1, <1>2 DEF Publishing, AppealCallStays
<1>3. CASE (\E u \in Users, a \in Asks, k \in Comment : AppealRead(c, u, a, k)) \/ PhaseCheck(c) \/ ChallengeCheck(c)
  <2>1. /\ UNCHANGED <<appeal, events, raised>> /\ apc[c] # "publish" /\ apc'[c] # "publish"
    BY <1>3 DEF AppealRead, PhaseCheck, ChallengeCheck, Stays, ALeave, AGoto, AppealShape, appealHistory
  <2>2. Publishing' = Publishing /\ OpenAppeals' = OpenAppeals /\ AnsweredAppeals' = AnsweredAppeals
    BY <1>2, <2>1 DEF OpenAppeals, AnsweredAppeals
  <2>3. QED
    BY <2>1, <2>2 DEF EventsFit
<1>4. CASE PublishResponded(c) \/ PublishRespondedFails(c)
  <2>1. /\ appeal' = appeal /\ raised' = raised /\ apc[c] = "publish" /\ apc'[c] = "idle"
        /\ events' = events + 1 \/ (events' = events /\ Mishap)
    BY <1>4 DEF PublishResponded, PublishRespondedFails, ALeave, AGoto, AppealShape, appealHistory
  <2>2. OpenAppeals' = OpenAppeals /\ AnsweredAppeals' = AnsweredAppeals
    BY <2>1 DEF OpenAppeals, AnsweredAppeals
  <2>3. Publishing' = Publishing \ {c} /\ c \in Publishing
    BY <1>1, <2>1 DEF Publishing, AppealCallStays
  <2>4. Cardinality(Publishing') = Cardinality(Publishing) - 1
    BY <2>3, CountsFinite, FS_RemoveElement
  <2>5. QED
    BY <1>0, <2>1, <2>2, <2>4, CountsFinite DEF EventsFit
<1>5. CASE AppealWrite(c)
  <2>1. PICK k \in Comment :
           /\ k = about[c] /\ apc[c] = "write"
           /\ appeal' = [appeal EXCEPT ![k] = appeal'[k]]
           /\ UNCHANGED <<events, responding, mixed, late, appealAsks>>
           /\ \/ /\ ask[c] = "appeal" /\ appeal[k] = "none" /\ appeal'[k] = "open" /\ ALeave(c)
                 /\ raised' = raised + 1 /\ rewritten' = rewritten
              \/ /\ ask[c] = "change" /\ appeal' = appeal /\ ALeave(c) /\ raised' = raised
                 /\ rewritten' = (rewritten \/ (appeal[k] = "answered" /\ aby[c] \notin Privileged))
              \/ /\ ask[c] = "withdraw" /\ appeal[k] # "none" /\ appeal'[k] = "none" /\ ALeave(c)
                 /\ raised' = raised /\ rewritten' = rewritten
              \/ /\ ask[c] = "respond" /\ appeal[k] = "open" /\ appeal'[k] = "answered"
                 /\ Stays(c, "publish") /\ raised' = raised /\ rewritten' = rewritten
              \/ /\ appeal' = appeal /\ ALeave(c) /\ raised' = raised /\ rewritten' = rewritten
    BY <1>5, AppealWrites
  <2>2. \A j \in Comment \ {k} : appeal'[j] = appeal[j]
    BY <2>1 DEF AppealShape
  <2>3. ALeave(c) => Publishing' = Publishing
    BY <1>2, <2>1 DEF ALeave, AGoto, AppealShape
  <2>4. CASE appeal[k] = "none" /\ appeal'[k] = "open" /\ ALeave(c) /\ raised' = raised + 1
    <3>1. OpenAppeals' = OpenAppeals \cup {k} /\ k \notin OpenAppeals /\ AnsweredAppeals' = AnsweredAppeals
      BY <2>2, <2>4 DEF OpenAppeals, AnsweredAppeals
    <3>2. Cardinality(OpenAppeals') = Cardinality(OpenAppeals) + 1
      BY <3>1, CountsFinite, FS_AddElement
    <3>3. QED
      BY <1>0, <2>1, <2>3, <2>4, <3>1, <3>2, CountsFinite DEF EventsFit
  <2>5. CASE appeal' = appeal /\ ALeave(c) /\ raised' = raised
    <3>1. OpenAppeals' = OpenAppeals /\ AnsweredAppeals' = AnsweredAppeals
      BY <2>5 DEF OpenAppeals, AnsweredAppeals
    <3>2. QED
      BY <2>1, <2>3, <2>5, <3>1 DEF EventsFit
  <2>6. CASE appeal'[k] = "none" /\ ALeave(c) /\ raised' = raised
    <3>1. OpenAppeals' \subseteq OpenAppeals /\ AnsweredAppeals' \subseteq AnsweredAppeals
      BY <2>2, <2>6 DEF OpenAppeals, AnsweredAppeals
    <3>2. Cardinality(OpenAppeals') \in Nat /\ Cardinality(OpenAppeals') <= Cardinality(OpenAppeals)
      BY <3>1, CountsFinite, FS_Subset, FS_CardinalityType
    <3>3. Cardinality(AnsweredAppeals') \in Nat
          /\ Cardinality(AnsweredAppeals') <= Cardinality(AnsweredAppeals)
      BY <3>1, CountsFinite, FS_Subset, FS_CardinalityType
    <3>4. QED
      BY <1>0, <2>1, <2>3, <2>6, <3>2, <3>3, CountsFinite DEF EventsFit
  <2>7. CASE appeal[k] = "open" /\ appeal'[k] = "answered" /\ Stays(c, "publish") /\ raised' = raised
    <3>1. /\ OpenAppeals' = OpenAppeals \ {k} /\ k \in OpenAppeals
          /\ AnsweredAppeals' = AnsweredAppeals \cup {k} /\ k \notin AnsweredAppeals
      BY <2>2, <2>7 DEF OpenAppeals, AnsweredAppeals
    <3>2. apc'[c] = "publish"
      BY <2>7 DEF Stays, AGoto, AppealShape
    <3>3. Publishing' = Publishing \cup {c} /\ c \notin Publishing
      BY <1>1, <2>1, <3>2 DEF Publishing, AppealCallStays
    <3>4. Cardinality(OpenAppeals') = Cardinality(OpenAppeals) - 1
      BY <3>1, CountsFinite, FS_RemoveElement
    <3>5. Cardinality(AnsweredAppeals') = Cardinality(AnsweredAppeals) + 1
      BY <3>1, CountsFinite, FS_AddElement
    <3>6. Cardinality(Publishing') = Cardinality(Publishing) + 1
      BY <3>3, CountsFinite, FS_AddElement
    <3>7. QED
      BY <1>0, <2>1, <2>7, <3>4, <3>5, <3>6, CountsFinite DEF EventsFit
  <2>8. QED
    BY <2>1, <2>4, <2>5, <2>6, <2>7
<1>6. QED
  BY <1>3, <1>4, <1>5 DEF AppealActs

-----------------------------------------------------------------------------
\* The inductive invariant of a round: review and appeals
RoundIInv == ReviewIInv /\ AppealShape /\ TextFits /\ EventsFit

LEMMA AppealShapeInit ==
  ASSUME NEW s \in Starts, AppealInit(s)
  PROVE  AppealShape
<1>1. {k \in Comment : appeal[k] # "none"} \subseteq Comment
  OBVIOUS
<1>2. IsFiniteSet({k \in Comment : appeal[k] # "none"})
  BY <1>1, FiniteComments, FS_Subset
<1>3. raised \in Nat
  BY <1>2, FS_CardinalityType DEF AppealInit
<1>4. QED
  BY <1>3 DEF AppealInit, AppealShape, IsPhaseOpen

LEMMA RoundInvariant == Spec => []RoundIInv
<1>1. Init => AppealShape /\ TextFits /\ EventsFit
  <2> SUFFICES ASSUME NEW s \in Starts, ChallengeInit(s.phase), ReviewInit(s), AppealInit(s)
               PROVE  AppealShape /\ TextFits /\ EventsFit
    BY DEF Init
  <2>1. QED
    BY AppealShapeInit, TextInit, EventsInit
<1>2. RoundIInv /\ ReviewIInv' /\ [Next]_vars => RoundIInv'
  <2> SUFFICES ASSUME RoundIInv, ReviewIInv', [Next]_vars PROVE RoundIInv'
    OBVIOUS
  <2> USE DEF RoundIInv
  <2>1. mishaps' = 0 => mishaps = 0 /\ ~Mishap
    <3>1. mishaps \in Nat
      BY DEF ReviewIInv, ReviewShape, RowShape
    <3>2. mishaps' = mishaps \/ mishaps' = mishaps + 1
      <4>1. ASSUME NEW c \in Calls, ReviewStep(c) PROVE mishaps' = mishaps \/ mishaps' = mishaps + 1
        BY <4>1 DEF ReviewStep, CreateWrite, UpdateRead, ItemRead, Delete, UpdateCheck, UpdateWrite,
           ItemWrite, WriteFails, PersistScore, RecomputeRead, RecomputeItems, RecomputeWrite, Announce, Audit, Mishap
      <4>2. QED
        BY <4>1, ReviewCases DEF ReviewStays
    <3>3. QED
      BY <3>1, <3>2 DEF Mishap
  <2>2. AppealShape'
    BY AppealShapeStep
  <2>3. CASE ChallengeNext /\ Note /\ UNCHANGED <<appeal, appealCallVars, raised, events, rewritten, mishaps>>
    <3>1. TextFits'
      BY <2>3, TextOfPhases
    <3>2. EventsFit'
      BY <2>3 DEF EventsFit, Publishing, OpenAppeals, AnsweredAppeals, appealCallVars
    <3>3. QED
      BY <2>2, <3>1, <3>2
  <2>4. CASE /\ Cascades /\ appeal' \in [Comment -> {"none", "open", "answered"}]
             /\ UNCHANGED <<challengeVars, appealCallVars, appealHistory>>
    <3>1. EventsFit'
      BY <2>1, <2>4, EventsCascade
    <3>2. UNCHANGED <<phase, apc, ask, aby, responding, mixed, late, rewritten>>
      BY <2>4 DEF challengeVars, appealCallVars, appealHistory
    <3>3. \A k \in Comment : (appeal'[k] # "none" => appeal'[k] = appeal[k])
      BY <2>4 DEF Cascades
    <3>4. TextFits'
      BY <3>2, <3>3 DEF TextFits, Checked, IsPhaseOpen, PhaseWindowOpen
    <3>5. QED
      BY <2>2, <3>1, <3>4
  <2>5. ASSUME NEW c \in AppealCalls, AppealActs(c), UNCHANGED challengeVars PROVE RoundIInv'
    <3>1. TextFits'
      BY <2>5, TextOfCalls
    <3>2. EventsFit'
      BY <2>1, <2>5, EventsOfCalls DEF ReviewIInv
    <3>3. QED
      BY <2>2, <3>1, <3>2
  <2>6. QED
    BY <2>3, <2>4, <2>5, AppealCases
<1>3. QED
  BY <1>1, <1>2, ReviewInvariant, PTL DEF Spec, RoundIInv

\* What has happened to a review and its appeals is told once: a completion is
\* announced, an update by a manager is in the audit log, and an appeal is
\* announced as responded at most once, unless a call failed or, for the
\* completion, the review was reopened under another update.
THEOREM EffectsAreTold == Spec => []EffectsFollow
<1>1. RoundIInv => CompletionAnnounced /\ ManagersAudited
  BY DEF RoundIInv, ReviewIInv, CompletionFits, AuditFits, Announces, CompletionAnnounced, ManagersAudited, Quiet
<1>2. RoundIInv => RespondedOnce
  <2> SUFFICES ASSUME RoundIInv PROVE RespondedOnce
    OBVIOUS
  <2>1. EventsFit /\ events \in Nat /\ raised \in Nat
    BY DEF RoundIInv, AppealShape
  <2>2. QED
    BY <2>1, CountsFinite DEF EventsFit, RespondedOnce, Publishing, AnsweredAppeals
<1>3. QED
  BY <1>1, <1>2, RoundInvariant, PTL DEF EffectsFollow

\* The text of an answered appeal is the text that was answered, unless appeals
\* were open, by the flag of their phase or by its schedule, with the responses
\* or after them, or closed on a change past its check of the phase
\* (updateAppeal).
THEOREM AnsweredTextsStand == Spec => []AnsweredTextStands
<1>1. RoundIInv => AnsweredTextStands
  BY DEF RoundIInv, TextFits, AnsweredTextStands
<1>2. QED
  BY <1>1, RoundInvariant, PTL

-----------------------------------------------------------------------------
(* Who sees what (ReviewVisibility, SubmissionVisibility, AiVisibility)     *)

(* The rules are read off the state of the challenge alone, so these hold   *)
(* in every state, whatever the phases have done, for any layout and roles. *)

\* The list masks what getReview refuses.
LEMMA ApartAlways == ReviewersApart
<1>1. ASSUME ~Final, NEW r \in ReviewRows, NEW u \in Users,
             IsReviewer(u), ~IsPrivileged(u), ~Has(u, "copilot"), r.reviewer # u,
             Name(r.phase) \notin {"screening", "checkpoint screening"}
      PROVE  ~ScoreListed(u, r) /\ ~Readable(u, r)
  <2>1. MasksOthers(u, r)
    BY <1>1 DEF MasksOthers
  <2>2. ~ReadByReviewer(u, r)
    BY <1>1 DEF ReadByReviewer, Final
  <2> QED
    BY <1>1, <2>1, <2>2 DEF ScoreListed, Readable
<1> QED
  BY <1>1 DEF ReviewersApart

\* A submitter is listed a review under conditions under which it may be read.
LEMMA ListedReadableAlways == ListedIsReadable
<1>1. ASSUME NEW r \in ReviewRows, NEW u \in Submitters, ~IsReviewer(u),
             ScoreListed(u, r) \/ ListedAcross(u, r)
      PROVE  Readable(u, r) /\ (ItemsReadable(u, r) \/ (r.owner # u /\ layout.type = "f2f"))
  <2>1. Has(u, "submitter")
    BY DEF Submitters
  <2>2. WhitelistAllows(u)
    BY <1>1 DEF ScoreListed, Listed, ListedAcross, KeptAcross, WhitelistAllows
  <2>3. CASE IsPrivileged(u) \/ Has(u, "copilot")
    BY <2>2, <2>3 DEF ItemsReadable, Readable, Trimmed
  <2>4. CASE ~IsPrivileged(u) /\ ~Has(u, "copilot") /\ ScoreListed(u, r)
    <3>1. ListedToSubmitter(u, r) /\ ~MasksOwn(u, r)
      BY <1>1, <2>4 DEF ScoreListed, Listed
    <3>2. ReadBySubmitter(u, r)
      BY <1>1, <2>4, <3>1 DEF ListedToSubmitter, MasksOwn, ReadBySubmitter, AllowOwn
    <3> QED
      BY <1>1, <2>1, <2>2, <3>2 DEF ItemsReadable, Readable, Trimmed
  <2>5. CASE ~IsPrivileged(u) /\ ~Has(u, "copilot") /\ ListedAcross(u, r)
    <3>1. ReadBySubmitter(u, r)
      BY <2>5 DEF ListedAcross, ReadBySubmitter, AllowOwn
    <3> QED
      BY <1>1, <2>1, <2>2, <3>1 DEF ItemsReadable, Readable, Trimmed
  <2> QED
    BY <1>1, <2>3, <2>4, <2>5
<1>2. ASSUME NEW r \in ReviewRows, NEW u \in Users, ItemsReadable(u, r)
      PROVE  AppealsListed(u) /\ AppealsAmongAll(u)
  BY <1>2 DEF ItemsReadable, Readable, AppealsListed, AppealsAmongAll
<1> QED
  BY <1>1, <1>2 DEF ListedIsReadable

LEMMA NoMoreAlways == SubmissionShowsNoMore
<1>1. ASSUME NEW r \in ReviewRows, NEW u \in Submitters,
             ~Final, ~IsMarathon, ~IsReviewer(u), ScoreInSubmission(u, r)
      PROVE  Readable(u, r)
  <2>1. Has(u, "submitter")
    BY DEF Submitters
  <2>2. CASE IsPrivileged(u) \/ Has(u, "copilot")
    BY <1>1, <2>2 DEF ScoreInSubmission, Readable
  <2>3. CASE ~(IsPrivileged(u) \/ Has(u, "copilot"))
    <3>1. r.owner = u /\ KeepsOwn(r)
      BY <1>1, <2>3 DEF ScoreInSubmission, ShownToOthers
    <3>2. ReadBySubmitter(u, r)
      BY <3>1 DEF KeepsOwn, OverThere, Over, ReadBySubmitter
    <3> QED
      BY <1>1, <2>1, <3>2 DEF ScoreInSubmission, Readable
  <2> QED
    BY <2>2, <2>3
<1>2. ASSUME NEW r \in ReviewRows, NEW u \in Submitters, SummationsListed(u), CompetesOnly(u),
             r.owner # u, challenge # "CANCELLED", WhitelistAllows(u)
      PROVE  ScoreInSubmission(u, r)
  BY <1>2 DEF SummationsListed, CompetesOnly, ScoreInSubmission, ShownToOthers, Final
<1>3. ASSUME NEW s \in Submissions, NEW u \in Users
      PROVE  /\ ArtifactsManaged(u, s) => Artifacts(u, s, FALSE)
             /\ Artifacts(u, s, FALSE) \/ EmailListed(u) => Downloads(u, s)
  BY DEF ArtifactsManaged, Artifacts, EmailListed, Downloads
<1>4. ASSUME NEW s \in Submissions, NEW u \in Users, Downloads(u, s)
      PROVE  (ListedAmongAll(u, s) \/ ManagesAndCompetes(u)) /\ (Manages(u) \/ (UrlListed(u, s) /\ UrlById(u, s)))
  <2>1. ASSUME NEW role \in Roles[u], RoleFits(role, s)
        PROVE  IsReviewer(u)
    <3>1. role \in ReviewerRoles
      BY <2>1 DEF RoleFits, ReviewerRoles
    <3> QED
      BY <3>1 DEF IsReviewer
  <2>2. \/ IsPrivileged(u) \/ s.owner = u \/ Has(u, "copilot") \/ Manages(u) \/ IsReviewer(u)
        \/ challenge = "COMPLETED"
    BY <1>4, <2>1 DEF Downloads
  <2>3. WhitelistAllows(u)
    BY <1>4 DEF Downloads
  <2>4. ListedAmongAll(u, s) \/ ManagesAndCompetes(u)
    BY <2>2, <2>3 DEF ListedAmongAll, KeptInList, CompetesOnly, Final, ManagesAndCompetes
  <2>5. Manages(u) \/ ~HidesDetails(u, s)
    BY <2>2 DEF HidesDetails
  <2> QED
    BY <2>3, <2>4, <2>5 DEF UrlListed, UrlById
<1>5. ASSUME NEW s \in Submissions, NEW u \in Users, DownloadsAll(u)
      PROVE  ListedAmongAll(u, s) /\ UrlListed(u, s) /\ UrlById(u, s)
  BY <1>5 DEF DownloadsAll, ListedAmongAll, UrlListed, UrlById, KeptInList, CompetesOnly,
              HidesDetails, IsReviewer
<1>6. ASSUME NEW s \in Submissions, NEW u \in Users,
             \/ SubmitterNamed(u) \/ NamesInZip(u)
             \/ EmailListed(u) /\ ~ManagesAndCompetes(u)
      PROVE  ~HidesMember(u, s)
  BY <1>6 DEF SubmitterNamed, EmailListed, NamesInZip, HidesMember, CompetesOnly, IsPrivileged,
              ManagesAndCompetes
<1> QED
  BY <1>1, <1>2, <1>3, <1>4, <1>5, <1>6 DEF SubmissionShowsNoMore

\* The words the services look for, and the names of roles that have them
LEMMA PartsOf ==
    /\ Parts["copilot"] = {"copilot"} /\ Parts["submitter"] = {"submitter"}
    /\ Parts["screener"] = {"screener", "checkpoint screener"}
    /\ Parts["reviewer"] = {"reviewer", "checkpoint reviewer", "iterative reviewer"}
    /\ Parts["projectManager"] = {"project manager"}
BY DEF Parts

\* A role with a word in its name is enough.
LEMMA HasPartOf ==
  ASSUME NEW u, NEW words, NEW word \in words, NEW role \in Roles[u], role \in Parts[word]
  PROVE  HasPart(u, words)
BY DEF HasPart

LEMMA AiAlways == AiListedIsReadable
<1> DEFINE Five == {"screener", "reviewer", "projectManager", "copilot", "submitter"}
           Three == {"copilot", "reviewer", "screener"}
<1>1. ASSUME NEW s \in Submissions, NEW u \in Users, ~Has(u, "project manager"),
             RunsListed(u, s)
      PROVE  RunRead(u, s)
  <2>1. CASE IsPrivileged(u)
    BY <2>1 DEF RunRead
  <2>2. CASE ~IsPrivileged(u)
    <3>1. PICK role \in Roles[u] : role \in {"iterative reviewer", "reviewer", "screener",
                                            "project manager", "copilot", "submitter"}
      BY <1>1, <2>2 DEF RunsListed
    <3>2. \E word \in Five : role \in Parts[word]
      BY <3>1, PartsOf
    <3>3. HasPart(u, Five)
      BY <3>1, <3>2, HasPartOf
    <3> QED
      BY <1>1, <2>2, <3>3 DEF RunsListed, RunRead, RunRoles
  <2> QED
    BY <2>1, <2>2
<1>2. ASSUME NEW s \in Submissions, NEW u \in Users
      PROVE  /\ DecisionListed(u, s) <=> DecisionRead(u, s)
             /\ DecisionOfConfigListed(u, s) <=> DecisionRead(u, s)
             /\ DecisionRead(u, s) => ConfigSeen(u)
  BY DEF DecisionListed, DecisionRead, DecisionOfConfigListed, ConfigSeen
<1>3. ASSUME NEW s \in Submissions, NEW u \in Users, ~Has(u, "project manager"),
             RunRead(u, s), ~IsPrivileged(u)
      PROVE  DecisionRead(u, s)
  <2>1. PICK word \in Five : Roles[u] \cap Parts[word] # {}
    BY <1>3 DEF RunRead, RunRoles, HasPart
  <2>2. PICK role \in Roles[u] : role \in Parts[word]
    BY <2>1
  <2>3. role # "project manager"
    BY <1>3, <2>2 DEF Has
  <2>4. role = "submitter" \/ role \in ReviewerRoles \cup {"copilot"}
    BY <2>1, <2>2, <2>3, PartsOf DEF ReviewerRoles
  <2>5. IsResource(u)
    BY <2>2, <2>4 DEF IsResource, ReviewerRoles
  <2>6. role # "submitter" => ExtendedView(u)
    BY <2>2, <2>4 DEF ExtendedView
  <2>7. role = "submitter" => challenge = "COMPLETED" \/ s.owner = u
    BY <1>3, <2>2 DEF RunRead, CompetesElsewhere, Has
  <2> QED
    BY <2>5, <2>6, <2>7 DEF DecisionRead
<1>4. ASSUME NEW s \in Submissions, NEW u \in Users, EscalationsListed(u), ~IsPrivileged(u)
      PROVE  DecisionRead(u, s)
  <2>1. PICK word \in Three : Roles[u] \cap Parts[word] # {}
    BY <1>4 DEF EscalationsListed, HasPart
  <2>2. PICK role \in Roles[u] : role \in Parts[word]
    BY <2>1
  <2>3. role \in ReviewerRoles \cup {"copilot"}
    BY <2>1, <2>2, PartsOf DEF ReviewerRoles
  <2>4. IsResource(u) /\ ExtendedView(u)
    BY <2>2, <2>3 DEF IsResource, ExtendedView, ReviewerRoles
  <2> QED
    BY <2>4 DEF DecisionRead
<1>5. ASSUME NEW s \in Submissions, NEW u \in Users, IsPrivileged(u)
      PROVE  DecisionRead(u, s)
  BY <1>5 DEF DecisionRead
<1> QED
  BY <1>1, <1>2, <1>3, <1>4, <1>5 DEF AiListedIsReadable

\* Until a challenge is over no reviewer sees the score of another's review,
\* screenings aside, in the list of reviews or by getReview.
THEOREM ReviewersWorkApart == ViewSpec => []ReviewersApart
  BY ApartAlways, PTL

\* getReview returns to a submitter every review whose score the lists show, and
\* who reads its items finds its appeals in their lists.
THEOREM ListedReviewsAreReadable == ViewSpec => []ListedIsReadable
  BY ListedReadableAlways, PTL

\* What the submissions, their files and artifacts tell agrees with what the
\* reviews and the other functions for submissions tell, for any member but one
\* who manages a challenge and competes in it.
THEOREM SubmissionsTellNoMore == ViewSpec => []SubmissionShowsNoMore
  BY NoMoreAlways, PTL

\* The four services for AI reviews agree on who sees the runs, the escalations,
\* the decision and its configuration, project managers aside.
THEOREM AiListedRunsAreReadable == ViewSpec => []AiListedIsReadable
  BY AiAlways, PTL

=============================================================================
