----------------------------- MODULE Summations -----------------------------
(***************************************************************************)
(* Review summations of the submissions of a challenge: generated for its  *)
(* initial and its final stage by ReviewSummationService, from the         *)
(* committed reviews of each submission, or made, changed and deleted one  *)
(* by one.  They go with their submission.                                 *)
(*                                                                         *)
(* A generation reads, and then writes all its rows in one transaction.    *)
(* The reviews and the rows that exist, read side by side in the code, are *)
(* read at once.                                                           *)
(***************************************************************************)
EXTENDS Submissions

CONSTANTS
    Reviewers,      \* each makes at most one review of a submission
    Scores,         \* of a review, in hundredths of a point
    ReviewValues,   \* what a review may be committed with
    MinScore,       \* minimum passing score of the scorecard
    SumReviewPhase, \* the phase that ends before the initial stage
    LastPhase,      \* the phase that ends before the final one: Appeals Response,
                    \* or Iterative Review
    NeedsPerfect,   \* the challenge is a first2finish
    Gens,           \* generations in flight
    SumStarts       \* where a run begins: the budgets of each part

Points == 0..10000

ReviewScore == [initial : Scores \cup {Nobody}, final : Scores \cup {Nobody}]

ASSUME SummationsAssumption ==
    /\ Scores \subseteq Points /\ MinScore \in Points
    /\ ReviewValues \subseteq ReviewScore /\ IsFiniteSet(Reviewers)
    /\ {SumReviewPhase, LastPhase} \subseteq Phases /\ NeedsPerfect \in BOOLEAN
    /\ SumStarts \subseteq [phase : Phases, given : 0..MaxSubs, file : BOOLEAN, left : [Budget -> Nat]]

VARIABLES
    score,       \* committed reviews of a submission: initial and final score
    summation,   \* the rows
    gpc, stage,  \* a generation: where it is, its stage
    readSubs,    \* the submissions it has read
    readScores,  \* the reviews and
    readRows,    \* the rows it has read
    lastRow,     \* the last id given
    byHand,      \* auxiliary: a summation was made, changed or deleted by hand
    overlapped,  \* auxiliary: two generations at a time
    aside        \* auxiliary: submissions reviewed since their row was computed

genVars == <<gpc, stage, readSubs, readScores, readRows>>
sumVars == <<score, summation, genVars, lastRow, byHand, overlapped, aside>>

Stages == {"INITIAL", "FINAL"}

SumRow == [id : Nat, sub : Subs, score : Points, isPassing : BOOLEAN, isFinal : BOOLEAN]

SumTypeOK ==
    /\ SubTypeOK
    /\ score \in [Subs -> [Reviewers -> ReviewScore \cup {Nobody}]]
    /\ summation \subseteq SumRow
    /\ gpc \in [Gens -> {"idle", "read", "write"}]
    /\ stage \in [Gens -> Stages]
    /\ readSubs \in [Gens -> SUBSET Subs]
    /\ lastRow \in Nat /\ {byHand, overlapped} \subseteq BOOLEAN /\ aside \subseteq Subs

NoReviews == [s \in Subs |-> [r \in Reviewers |-> Nobody]]

\* The first submissions are there, of the first kind, counted and announced.
Given(n, file) ==
    LET k == CHOOSE kind \in Kinds : TRUE IN
    /\ sub = [s \in Subs |-> IF s <= n THEN NewRow(k, file) ELSE Blank]
    /\ counter = [kind \in Kinds |-> IF kind = k THEN n ELSE 0]
    /\ requested = {} /\ announced = 1..n
    /\ run = [s \in Subs |-> "none"] /\ itemised = {}
    /\ spc = [c \in SubCalls |-> "idle"]
    /\ subject = [c \in SubCalls |-> Nobody]
    /\ todo = <<>> /\ passing = FALSE
    /\ untold = FALSE /\ started = {} /\ taken = {}

SumInit ==
    /\ score = NoReviews
    /\ summation = {}
    /\ gpc = [g \in Gens |-> "idle"]
    /\ stage = [g \in Gens |-> "INITIAL"]
    /\ readSubs = [g \in Gens |-> {}]
    /\ readScores = [g \in Gens |-> NoReviews]
    /\ readRows = [g \in Gens |-> {}]
    /\ lastRow = 0 /\ byHand = FALSE /\ overlapped = FALSE /\ aside = {}

-----------------------------------------------------------------------------
\* A review is committed, or its scores change: an appeal, a late review.
Score(s, r, v) ==
    /\ s \in StoredSubs /\ Spend("reviews")
    /\ score[s][r] # v
    /\ score' = [score EXCEPT ![s][r] = v]
    /\ aside' = aside \cup {s}
    /\ UNCHANGED <<summation, genVars, lastRow, byHand, overlapped>>

-----------------------------------------------------------------------------
(* What a generation computes.                                             *)

\* The initial score, or the final one and without it the initial one.
ScoreAt(st, v) == IF st = "FINAL" /\ v.final # Nobody THEN v.final ELSE v.initial

Valid(st, reviews) ==
    {r \in Reviewers : reviews[r] # Nobody /\ ScoreAt(st, reviews[r]) # Nobody}

AverageCut(st, reviews) ==
    MapThenSumSet(LAMBDA r : ScoreAt(st, reviews[r]), Valid(st, reviews))
        \div Cardinality(Valid(st, reviews))

\* computeAverage: to the nearest hundredth, from the middle up
Average(st, reviews) ==
    LET sum == MapThenSumSet(LAMBDA r : ScoreAt(st, reviews[r]), Valid(st, reviews))
        count == Cardinality(Valid(st, reviews))
    IN  (2 * sum + count) \div (2 * count)

Perfect(scores) ==
    \E s \in Subs, r \in Reviewers :
        scores[s][r] # Nobody /\ ScoreAt("FINAL", scores[s][r]) = 10000

\* The phase before the stage is not open, if not begun.
StageOpen(st) ==
    IF st = "INITIAL" THEN ~phase[SumReviewPhase].isOpen ELSE ~phase[LastPhase].isOpen

-----------------------------------------------------------------------------
(* generateSummationsForChallenge                                          *)

GenerateStart(g, st) ==
    /\ gpc[g] = "idle" /\ Spend("generations")
    /\ StageOpen(st)
    /\ gpc' = [gpc EXCEPT ![g] = "read"]
    /\ stage' = [stage EXCEPT ![g] = st]
    /\ readSubs' = [readSubs EXCEPT ![g] = StoredSubs]
    /\ overlapped' = (overlapped \/ \E h \in Gens : gpc[h] # "idle")
    /\ UNCHANGED <<score, summation, readScores, readRows, lastRow, byHand, aside>>

GLeave(g) ==
    /\ gpc' = [gpc EXCEPT ![g] = "idle"]
    /\ stage' = [stage EXCEPT ![g] = "INITIAL"]
    /\ readSubs' = [readSubs EXCEPT ![g] = {}]
    /\ readScores' = [readScores EXCEPT ![g] = NoReviews]
    /\ readRows' = [readRows EXCEPT ![g] = {}]

GenerateRead(g) ==
    LET seen == [s \in Subs |-> IF s \in readSubs[g] THEN score[s] ELSE NoReviews[s]] IN
    /\ gpc[g] = "read"
    /\ IF stage[g] = "FINAL" /\ NeedsPerfect /\ ~Perfect(seen) THEN GLeave(g)
       ELSE /\ gpc' = [gpc EXCEPT ![g] = "write"]
            /\ readScores' = [readScores EXCEPT ![g] = seen]
            /\ readRows' = [readRows EXCEPT ![g] = {x \in summation : x.sub \in readSubs[g]}]
            /\ UNCHANGED <<stage, readSubs>>
    /\ UNCHANGED <<score, summation, left, lastRow, byHand, overlapped, aside>>

Ready(g) == {s \in readSubs[g] : Valid(stage[g], readScores[g][s]) # {}}

\* The row of the submission among those read, of several any.
ExistingAtStage(g, s) == {x \in readRows[g] : x.sub = s /\ x.isFinal = (stage[g] = "FINAL")}

Existing(g, s) == {x \in readRows[g] : x.sub = s}

Computed(g, s, id) ==
    LET average == Average(stage[g], readScores[g][s]) IN
    [id |-> id, sub |-> s, score |-> average, isPassing |-> average >= MinScore,
     isFinal |-> stage[g] = "FINAL"]

\* The rows to update are there, and the submissions to make rows for.
Writable(g) ==
    \A s \in Ready(g) : IF Existing(g, s) = {} THEN s \in StoredSubs
                        ELSE \A x \in Existing(g, s) : \E y \in summation : y.id = x.id

NewId(g, s) == lastRow + Cardinality({t \in Ready(g) : t <= s})

GenerateWrite(g) ==
    /\ gpc[g] = "write" /\ Writable(g)
    /\ \E target \in [Ready(g) -> Nat \cap 0..(lastRow + MaxSubs)] :
         /\ \A s \in Ready(g) :
              IF Existing(g, s) = {} THEN target[s] = NewId(g, s)
              ELSE \E x \in Existing(g, s) : target[s] = x.id
         /\ summation' = {x \in summation : \A s \in Ready(g) : x.id # target[s]}
                            \cup {Computed(g, s, target[s]) : s \in Ready(g)}
    /\ lastRow' = lastRow + Cardinality(Ready(g))
    /\ aside' = (aside \ Ready(g)) \cup {s \in Ready(g) : score[s] # readScores[g][s]}
    /\ GLeave(g)
    /\ UNCHANGED <<left, score, byHand, overlapped>>

\* The transaction is rolled back.
GenerateFails(g) ==
    /\ gpc[g] = "write" /\ ~Writable(g)
    /\ GLeave(g)
    /\ UNCHANGED <<left, score, summation, lastRow, byHand, overlapped, aside>>

-----------------------------------------------------------------------------
(* createSummation, updateSummation and deleteSummation: as asked          *)

ByHand == Spend("byHand") /\ byHand' = TRUE

CreateSummation(s, v, final) ==
    /\ s \in StoredSubs /\ ByHand
    /\ summation' = summation \cup {[id |-> lastRow + 1, sub |-> s, score |-> v,
                                     isPassing |-> v >= MinScore, isFinal |-> final]}
    /\ lastRow' = lastRow + 1
    /\ UNCHANGED <<score, genVars, overlapped, aside>>

UpdateSummation(x, v) ==
    /\ ByHand
    /\ summation' = (summation \ {x}) \cup {[x EXCEPT !.score = v]}
    /\ UNCHANGED <<score, genVars, lastRow, overlapped, aside>>

DeleteSummation(x) ==
    /\ ByHand
    /\ summation' = summation \ {x}
    /\ UNCHANGED <<score, genVars, lastRow, overlapped, aside>>

-----------------------------------------------------------------------------
SumNext ==
    \/ \E s \in Subs, r \in Reviewers, v \in ReviewValues : Score(s, r, v)
    \/ \E g \in Gens :
         \/ \E st \in Stages : GenerateStart(g, st)
         \/ GenerateRead(g) \/ GenerateWrite(g) \/ GenerateFails(g)
    \/ \E s \in Subs, v \in Scores, final \in BOOLEAN : CreateSummation(s, v, final)
    \/ \E x \in summation : DeleteSummation(x) \/ \E v \in Scores : UpdateSummation(x, v)

\* Reviews and summations are deleted with their submission.
CascadeSums ==
    /\ summation' = {x \in summation : sub'[x.sub].state = "stored"}
    /\ score' = [s \in Subs |-> IF sub'[s].state = "gone" THEN NoReviews[s] ELSE score[s]]
    /\ UNCHANGED <<genVars, lastRow, byHand, overlapped, aside>>

SubmissionsInit ==
    \E b \in SumStarts :
        /\ ChallengeInit(b.phase) /\ Given(b.given, b.file) /\ SumInit
        /\ left = b.left /\ failed = FALSE

SubmissionsNext ==
    \/ ChallengeNext /\ UNCHANGED <<subVars, sumVars>>
    \/ SubNext /\ CascadeSums /\ UNCHANGED challengeVars
    \/ SumNext /\ UNCHANGED <<challengeVars, subRows, failed>>

submissionsVars == <<challengeVars, subVars, sumVars>>

SubmissionsSpec == SubmissionsInit /\ [][SubmissionsNext]_submissionsVars

-----------------------------------------------------------------------------
(* Properties                                                              *)

\* A submission has one summation at most, whatever the stages generated and
\* their order, unless generations overlapped or rows were made by hand (the
\* table has no unique key).
OneSummationEach ==
    ~overlapped /\ ~byHand =>
        \A x, y \in summation : x.sub = y.sub => x = y

\* The scores of a stage in the reviews of a submission: in the final one the
\* initial score stands in for a final one that is missing.
StageScores(reviews, final) ==
    LET of == [r \in {q \in Reviewers : reviews[q] # Nobody} |->
                  IF final /\ reviews[r].final # Nobody THEN reviews[r].final ELSE reviews[r].initial]
    IN  [r \in {q \in DOMAIN of : of[q] # Nobody} |-> of[r]]

SumOf(of) == MapThenSumSet(LAMBDA r : of[r], DOMAIN of)

\* Every generated summation is the average of its stage over the reviews of
\* its submission, to the nearest hundredth, and passes or fails by it, until a
\* review is changed after the generation has read it (the rows of overlapping
\* ones apart): no review counts twice, for nothing or in the wrong stage.
SummationFollowsReviews ==
    ~byHand /\ ~overlapped => \A x \in summation : x.sub \notin aside =>
        LET of == StageScores(score[x.sub], x.isFinal)
            count == Cardinality(DOMAIN of)
        IN  /\ count > 0
            /\ 2 * SumOf(of) - count < 2 * count * x.score
            /\ 2 * count * x.score <= 2 * SumOf(of) + count
            /\ x.isPassing = (x.score >= MinScore)

=============================================================================
