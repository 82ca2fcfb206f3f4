--------------------------- MODULE ReviewAdmission ---------------------------
(***************************************************************************)
(* Which submissions ReviewService.createReview takes a review for, and    *)
(* which of a member's submissions SubmissionService calls the latest.     *)
(*                                                                         *)
(* The latest submission is computed by three queries, one for the reviews *)
(* and two for the submissions, and whether a challenge is limited to it   *)
(* by two readings of the metadata submissionLimit.  Owners hand in,      *)
(* submissions are changed and deleted, phases open and close.  A clock    *)
(* gives the dates; an upload may carry an earlier one of its own, and an  *)
(* imported row none.                                                      *)
(***************************************************************************)
EXTENDS Integers, Sequences

CONSTANTS
    RowIds,       \* ids of submissions, in the order of the database
    Owners,       \* members who hand in
    Lineups,      \* the phases of a challenge that reviews are for, in order
    LimitValues,  \* values of the metadata submissionLimit
    MaxClock,     \* bound: writes to submissions
    Absent        \* no date, no member, no value

Kinds == {"contest", "checkpoint"}

ReviewTypes == {"Review", "Iterative Review", "Screening", "Checkpoint Screening",
                "Checkpoint Review", "Approval", "Post-Mortem"}

\* A value is not JSON, is JSON of its own or an object; flags in it may be words.
Flag == {"true", "false", "yes", "no", Absent}

LimitForms == [form : {"none", "true", "false", "number", "zero", "unlimited", "word", "object"},
               unlimited : Flag, count : BOOLEAN, limit : Flag]

ASSUME AdmissionAssumption ==
    /\ RowIds \subseteq Nat /\ MaxClock \in Nat /\ Absent \notin Owners
    /\ LimitValues \subseteq LimitForms /\ Lineups \subseteq Seq(STRING)

VARIABLES
    entries,    \* submissions of the challenge
    limit,      \* its metadata
    lineup,     \* its phases
    openPhase,  \* the one that is open, 0 for none
    clock

admissionVars == <<entries, limit, lineup, openPhase, clock>>

Date == 0..MaxClock

Row == [member : Owners \cup {Absent}, kind : Kinds, submitted : Date \cup {Absent},
        created : Date, updated : Date]

AdmissionTypeOK ==
    /\ entries \in UNION {[ids -> Row] : ids \in SUBSET RowIds}
    /\ limit \in LimitValues /\ lineup \in Lineups
    /\ openPhase \in 0..Len(lineup) /\ clock \in Date

AdmissionInit(ticks) ==
    /\ entries = [i \in {} |-> Absent]
    /\ limit \in LimitValues /\ lineup \in Lineups
    /\ openPhase = 0 /\ clock = MaxClock - ticks

-----------------------------------------------------------------------------
(* The submissions.                                                        *)

Ids == DOMAIN entries

Tick == clock < MaxClock /\ clock' = clock + 1

\* createSubmission, and entries the import has left without a date or a member
HandIn ==
    /\ Tick
    /\ \E i \in RowIds \ Ids, m \in Owners \cup {Absent}, k \in Kinds, d \in 0..clock' \cup {Absent} :
         entries' = [j \in Ids \cup {i} |->
                    IF j \in Ids THEN entries[j]
                    ELSE [member |-> m, kind |-> k, submitted |-> d,
                          created |-> clock', updated |-> clock']]
    /\ UNCHANGED <<limit, lineup, openPhase>>

\* updateSubmission, with another date or not
Amend ==
    /\ Tick
    /\ \E i \in Ids, d \in 0..clock' :
         entries' = [entries EXCEPT ![i].updated = clock',
                              ![i].submitted = IF d = 0 THEN @ ELSE d]
    /\ UNCHANGED <<limit, lineup, openPhase>>

Remove ==
    /\ Tick
    /\ \E i \in Ids : entries' = [j \in Ids \ {i} |-> entries[j]]
    /\ UNCHANGED <<limit, lineup, openPhase>>

\* The challenge moves on.
OpenNext ==
    /\ openPhase < Len(lineup) /\ openPhase' = openPhase + 1
    /\ UNCHANGED <<entries, limit, lineup, clock>>

AdmissionNext == HandIn \/ Amend \/ Remove \/ OpenNext

-----------------------------------------------------------------------------
(* The queries.                                                            *)

\* Dates order newest first, entries without one come last.
NewerDate(a, b) == a # Absent /\ (b = Absent \/ a > b)

\* By the date of submission, of the row, of its last change
Newer(i, j) ==
    LET a == entries[i] b == entries[j] IN
    \/ NewerDate(a.submitted, b.submitted)
    \/ a.submitted = b.submitted /\ a.created > b.created
    \/ a.submitted = b.submitted /\ a.created = b.created /\ a.updated > b.updated

SameDates(i, j) == ~Newer(i, j) /\ ~Newer(j, i)

Ahead(i, j) == Newer(i, j) \/ (SameDates(i, j) /\ i > j)

Rivals(i) == {j \in Ids \ {i} : entries[j].member = entries[i].member}

\* createReview: a row of nobody has no rival.
IsLatest(i) == entries[i].member = Absent \/ \A j \in Rivals(i) : Ahead(i, j)

\* populateLatestSubmissionFlags: never a row of nobody; of entries with the same
\* dates any may be the first.
MayBeFlagged(i) == entries[i].member # Absent /\ \A j \in Rivals(i) : ~Newer(j, i)

\* findLatestSubmissionIdsForQuery: among the entries of the kinds asked for
ListedAsLatest(i, kinds) ==
    /\ entries[i].member # Absent /\ entries[i].kind \in kinds
    /\ \A j \in Rivals(i) : entries[j].kind \in kinds => Ahead(i, j)

-----------------------------------------------------------------------------
(* The limit.                                                              *)

\* extractSubmissionLimitUnlimited: only the words true and false count.
SaysUnlimited(l) == l.form = "true" \/ (l.form = "object" /\ l.unlimited = "true")

\* challengeHasSubmissionLimit with parseBooleanFlag
HasLimit(l) ==
    IF l.form # "object" THEN l.form \notin {"zero", "unlimited"}
    ELSE /\ l.unlimited \notin {"true", "yes"}
         /\ l.count \/ l.limit \notin {"false", "no"}

\* The words true and false forgotten
EnforcesByLimit(type, l) ==
    /\ type \in {"Review", "Iterative Review", "Screening", "Checkpoint Screening"}
    /\ HasLimit(l)

\* shouldEnforceLatestSubmissionForReview
EnforcesLatest(type, l) ==
    /\ type \in {"Review", "Iterative Review", "Screening", "Checkpoint Screening"}
    /\ ~SaysUnlimited(l) /\ HasLimit(l)

\* stripIsLatestForUnlimitedChallenges: the flag is left out.
FlagShown == ~SaysUnlimited(limit)

-----------------------------------------------------------------------------
(* createReview                                                            *)

PostMortem(type) == type = "Post-Mortem"

\* validateReviewSubmission, isPhaseOpen of the post-mortem phase
PhaseIsOpen(type) ==
    /\ openPhase # 0
    /\ lineup[openPhase] \in IF PostMortem(type) THEN {"post-mortem"} ELSE {"review", "iterative review"}

\* The first phase of the kind, open or not: 0 if there is none
TargetPhase(type) ==
    LET fits == {p \in DOMAIN lineup :
                   lineup[p] \in IF PostMortem(type) THEN {"post-mortem"} ELSE {"review", "iterative review"}}
    IN  IF fits = {} THEN 0 ELSE CHOOSE p \in fits : \A q \in fits : p <= q

\* The resource given belongs to a phase, 0 for any.
PhaseMatches(type, resourcePhase) == resourcePhase \in {0, TargetPhase(type)}

RefusedAsOld(type, i) ==
    /\ PhaseIsOpen(type)
    /\ EnforcesLatest(type, limit) /\ entries[i].member # Absent /\ ~IsLatest(i)

\* A post-mortem needs no submission, and then a resource.
Admitted(type, resourcePhase) ==
    {i \in Ids : /\ PhaseIsOpen(type) /\ TargetPhase(type) # 0
                 /\ PhaseMatches(type, resourcePhase)
                 /\ ~RefusedAsOld(type, i)}

AdmissionSpec == (\E ticks \in Date : AdmissionInit(ticks)) /\ [][AdmissionNext]_admissionVars

-----------------------------------------------------------------------------
(* Properties                                                              *)

\* A submission no review is taken for because it is not the member's latest is
\* shown as such: with the flag, and the flag false, and not in the list of the
\* latest ones; and whatever is listed as the latest of all kinds is reviewed.
\* Owners' submissions with all three dates the same are left aside: there
\* the flags depend on the database.
RefusedIsShown ==
    \A i \in Ids, type \in ReviewTypes :
        /\ RefusedAsOld(type, i) =>
             /\ FlagShown /\ ~ListedAsLatest(i, Kinds)
             /\ (\A j \in Rivals(i) : ~SameDates(i, j)) => ~MayBeFlagged(i)
        /\ ListedAsLatest(i, Kinds) /\ PhaseIsOpen(type) => i \in Admitted(type, 0)

=============================================================================
