----------------------------- MODULE Submissions -----------------------------
(***************************************************************************)
(* The submissions of one challenge in SubmissionService, from their       *)
(* creation to their deletion: the checks, the rows, the events, the       *)
(* counters the challenge keeps of them, and the scan retry that asks for  *)
(* the virus scan of a file again while no answer has come.                *)
(*                                                                         *)
(* A call goes from await to await.  Submissions are numbered in the order *)
(* of their creation.  The scanner moves the file it has scanned out of    *)
(* the DMZ bucket; what its answer does further is in ScanComplete.        *)
(***************************************************************************)
EXTENDS ChallengePhases, FiniteSetsExt, SequencesExt

CONSTANTS
    Kinds,          \* types of submission, each with a counter
    SubmissionPhase, \* the phase a kind is submitted in
    TargetPhases,   \* phases a kind may be uploaded in by a privileged caller
    MaxSubs,        \* bound: submissions made
    SubCalls,       \* calls in flight
    Batch,          \* submissions a pass of the scan retry takes
    Creatable,      \* what is submitted: kind, and whether with a file
    Nobody          \* no value

ASSUME SubmissionsAssumption ==
    /\ SubmissionPhase \in [Kinds -> Phases] /\ TargetPhases \in [Kinds -> SUBSET Phases]
    /\ MaxSubs \in Nat /\ Batch \in Nat \ {0}
    /\ Creatable \subseteq Kinds \X BOOLEAN
    /\ Kinds # {} /\ IsFiniteSet(SubCalls)

Subs == 1..MaxSubs

\* Bounds: calls that delete, failed calls and lost answers, types changed,
\* submissions that grow old, runs started; and, for Summations, generations,
\* reviews written, summations made or deleted by hand.
Budget == {"deletes", "mishaps", "changes", "ages", "runs", "generations", "reviews", "byHand"}

VARIABLES
    sub,        \* the rows, with where the file is
    counter,    \* numOfSubmissions and numOfCheckpointSubmissions
    requested,  \* submissions whose scan was asked for and not answered
    announced,  \* submissions with a create event
    run,        \* AI workflow runs of a submission
    itemised,   \* submissions with items of a run
    spc, subject, \* a call: where it is, the submission it makes or deletes
    todo,       \* the pass of the scan retry: what it has still to look at
    passing,    \* a pass is under way
    left,       \* what is left of each bound
    failed,     \* auxiliary: a call of another service has failed, or an answer was lost
    untold,     \* auxiliary: kinds changed, or submissions deleted that were not counted
    started,    \* auxiliary: runs started while a call was deleting
    taken       \* auxiliary: active runs deleted

callsOfSubs == <<spc, subject>>
retryVars == <<todo, passing>>
runRows == <<run, itemised>>
subHistory == <<untold, started, taken>>
subRows == <<sub, counter, requested, announced, runRows, callsOfSubs, retryVars, subHistory>>
subVars == <<subRows, left, failed>>

Row == [state : {"none", "stored", "gone"}, kind : Kinds \cup {Nobody}, file : BOOLEAN,
        place : {"none", "dmz", "clean", "quarantine"}, scanned : BOOLEAN, aged : BOOLEAN,
        validation : BOOLEAN]

Blank == [state |-> "none", kind |-> Nobody, file |-> FALSE, place |-> "none",
          scanned |-> FALSE, aged |-> FALSE, validation |-> FALSE]

Subject == [sub : Subs \cup {Nobody}, kind : Kinds, file : BOOLEAN]

SubTypeOK ==
    /\ sub \in [Subs -> Row]
    /\ counter \in [Kinds -> Nat]
    /\ requested \subseteq Subs /\ announced \subseteq Subs
    /\ run \in [Subs -> {"none", "active", "ended", "timedOut"}] /\ itemised \subseteq Subs
    /\ spc \in [SubCalls -> {"idle", "insert", "ask", "count", "announce", "purge", "remove", "discount"}]
    /\ subject \in [SubCalls -> Subject \cup {Nobody}]
    /\ todo \in Seq(Subs) /\ passing \in BOOLEAN
    /\ left \in [Budget -> Nat]
    /\ {failed, untold} \subseteq BOOLEAN /\ started \subseteq Subs /\ taken \subseteq Subs

-----------------------------------------------------------------------------
StoredSubs == {s \in Subs : sub[s].state = "stored"}

\* Rows that exist and rows about to.
Made == {s \in Subs : sub[s].state # "none"}

Inserting == {c \in SubCalls : spc[c] = "insert"}

SGoto(c, label) == spc' = [spc EXCEPT ![c] = label] /\ UNCHANGED subject

SLeave(c) == spc' = [spc EXCEPT ![c] = "idle"] /\ subject' = [subject EXCEPT ![c] = Nobody]

SEnter(c, label, about) ==
    /\ spc[c] = "idle"
    /\ spc' = [spc EXCEPT ![c] = label]
    /\ subject' = [subject EXCEPT ![c] = about]

Spend(b) == left[b] > 0 /\ left' = [left EXCEPT ![b] = @ - 1]

SMishap == Spend("mishaps") /\ failed' = TRUE

Fine == UNCHANGED <<left, failed>>

-----------------------------------------------------------------------------
(* createSubmission                                                        *)

\* The phase the kind is submitted in must be open; when the challenge cannot
\* be read the submission is let in.
PhaseLetsIn(k) ==
    \/ IsPhaseOpen({SubmissionPhase[k]}) /\ Fine
    \/ SMishap

\* validatePrivilegedManualUploadPhaseWindow: after the phase of the kind, in
\* one of those that follow.
TargetOpen(k) == ~IsPhaseOpen({SubmissionPhase[k]}) /\ IsPhaseOpen(TargetPhases[k])

\* createManualSubmissionUpload, by a privileged caller
UploadAllowed(k) == TargetOpen(k) /\ Fine

CreateCheck(c, k, file) ==
    /\ <<k, file>> \in Creatable
    /\ Cardinality(Made) + Cardinality(Inserting) < MaxSubs
    /\ PhaseLetsIn(k) \/ (file /\ UploadAllowed(k))
    /\ SEnter(c, "insert", [sub |-> Nobody, kind |-> k, file |-> file])
    /\ UNCHANGED <<sub, counter, requested, announced, runRows, retryVars, subHistory>>

\* What was uploaded for validation is taken to be clean.
RowOf(k, file, validation) ==
    [state |-> "stored", kind |-> k, file |-> file,
     place |-> IF validation THEN "clean" ELSE IF file THEN "dmz" ELSE "none",
     scanned |-> validation, aged |-> FALSE, validation |-> validation]

NewRow(k, file) == RowOf(k, file, FALSE)

Insert(c) ==
    LET s == Cardinality(Made) + 1 IN
    /\ spc[c] = "insert"
    /\ sub' = [sub EXCEPT ![s] = NewRow(subject[c].kind, subject[c].file)]
    /\ spc' = [spc EXCEPT ![c] = "ask"]
    /\ subject' = [subject EXCEPT ![c].sub = s]
    /\ UNCHANGED <<counter, requested, announced, runRows, retryVars, left, failed, subHistory>>

\* The scan of a file, or else the event of a Topgear task, is published.  A
\* failure ends the call with an error: the row stays, not counted and not announced.
AskScan(c) ==
    /\ spc[c] = "ask"
    /\ \/ SGoto(c, "count") /\ Fine
          /\ requested' = IF subject[c].file THEN requested \cup {subject[c].sub} ELSE requested
       \/ SMishap /\ SLeave(c) /\ UNCHANGED requested
    /\ UNCHANGED <<sub, counter, announced, runRows, retryVars, subHistory>>

\* A failure is logged and swallowed.
Count(c) ==
    /\ spc[c] = "count"
    /\ \/ counter' = [counter EXCEPT ![subject[c].kind] = @ + 1] /\ Fine
       \/ SMishap /\ UNCHANGED counter
    /\ SGoto(c, "announce")
    /\ UNCHANGED <<sub, requested, announced, runRows, retryVars, subHistory>>

AnnounceCreated(c) ==
    /\ spc[c] = "announce"
    /\ \/ announced' = announced \cup {subject[c].sub} /\ Fine
       \/ SMishap /\ UNCHANGED announced
    /\ SLeave(c)
    /\ UNCHANGED <<sub, counter, requested, runRows, retryVars, subHistory>>

\* createValidationSubmissionUpload: a file put into the clean bucket and a row
\* that needs no scan, with no event and not counted.
UploadValidation(k) ==
    LET s == Cardinality(Made) + 1 IN
    /\ <<k, TRUE>> \in Creatable
    /\ Cardinality(Made) + Cardinality(Inserting) < MaxSubs
    /\ sub' = [sub EXCEPT ![s] = RowOf(k, TRUE, TRUE)]
    /\ UNCHANGED <<counter, requested, announced, runRows, callsOfSubs, retryVars, left, failed, subHistory>>

\* updateSubmission may change the type; the counters stay.
ChangeKind(s, k) ==
    /\ s \in StoredSubs /\ k # sub[s].kind
    /\ Spend("changes")
    /\ sub' = [sub EXCEPT ![s].kind = k]
    /\ untold' = TRUE
    /\ UNCHANGED <<counter, requested, announced, runRows, callsOfSubs, retryVars, failed, started, taken>>

-----------------------------------------------------------------------------
(* deleteSubmission                                                        *)

\* Refused while a run of the submission is active, or has timed out, a status
\* the list of final ones leaves out.
QuietAlways(s) == TRUE

Quiet(s) == run[s] \notin {"active", "timedOut"}

DeleteRead(c, s) ==
    /\ s \in StoredSubs /\ Quiet(s) /\ Spend("deletes")
    /\ SEnter(c, IF run[s] = "none" THEN "remove" ELSE "purge",
              [sub |-> s, kind |-> sub[s].kind, file |-> sub[s].file])
    /\ UNCHANGED <<sub, counter, requested, announced, runRows, retryVars, failed, subHistory>>

\* All runs of the submission, whatever they have become; the database refuses
\* if one has items, as an active one may.
Purge(c) ==
    LET s == subject[c].sub IN
    /\ spc[c] = "purge"
    /\ \/ /\ s \notin itemised
          /\ run' = [run EXCEPT ![s] = "none"]
          /\ taken' = IF run[s] = "active" THEN taken \cup {s} ELSE taken
          /\ SGoto(c, "remove")
       \/ /\ s \in itemised \/ run[s] = "active"
          /\ SLeave(c)
          /\ UNCHANGED <<run, taken>>
    /\ UNCHANGED <<sub, counter, requested, announced, itemised, retryVars, left, failed, untold, started>>

\* The database refuses to delete a row that runs refer to.
DeletableByAll(s) == run[s] = "none"

Deletable(s) == s \in StoredSubs /\ run[s] = "none"

\* Its creation has still to count it.
Uncounted(s) == \E c \in SubCalls : spc[c] \in {"ask", "count"} /\ subject[c].sub = s

DeleteRow(c) ==
    LET s == subject[c].sub IN
    /\ spc[c] = "remove"
    /\ \/ /\ Deletable(s)
          /\ sub' = [sub EXCEPT ![s].state = "gone"]
          /\ untold' = (untold \/ sub[s].validation \/ Uncounted(s))
          /\ SGoto(c, "discount")
       \/ ~Deletable(s) /\ SLeave(c) /\ UNCHANGED <<sub, untold>>
    /\ UNCHANGED <<counter, requested, announced, runRows, retryVars, left, failed, started, taken>>

\* By the type read at the start, and never below zero.
Discount(c) ==
    LET k == subject[c].kind IN
    /\ spc[c] = "discount"
    /\ \/ counter' = [counter EXCEPT ![k] = IF @ = 0 THEN 0 ELSE @ - 1] /\ Fine
       \/ SMishap /\ UNCHANGED counter
    /\ SLeave(c)
    /\ UNCHANGED <<sub, requested, announced, runRows, retryVars, subHistory>>

-----------------------------------------------------------------------------
(* The scanner and the AI workflow runs, as the other modules model them.  *)

Scanned(s, place, told) ==
    /\ s \in requested
    /\ requested' = requested \ {s}
    /\ sub' = [sub EXCEPT ![s].place = IF @ = "dmz" THEN place ELSE @,
                          ![s].scanned = @ \/ (told /\ sub[s].place = "dmz" /\ place = "clean")]
    /\ UNCHANGED <<counter, announced, runRows, callsOfSubs, retryVars, subHistory>>

\* A clean file is recorded, an infected one is not.
ScanAnswers(s) == (\E place \in {"clean", "quarantine"} : Scanned(s, place, TRUE)) /\ Fine

\* The request is lost, or the answer after the file was moved.
ScanLost(s) == (\E place \in {"clean", "dmz"} : Scanned(s, place, FALSE)) /\ SMishap

StartRunOf(s) ==
    /\ s \in StoredSubs /\ sub[s].scanned /\ run[s] # "active"
    /\ Spend("runs")
    /\ run' = [run EXCEPT ![s] = "active"]
    /\ started' = IF \E c \in SubCalls : spc[c] = "purge" /\ subject[c].sub = s
                  THEN started \cup {s} ELSE started
    /\ UNCHANGED <<sub, counter, requested, announced, itemised, callsOfSubs, retryVars, failed,
                   untold, taken>>

\* One that succeeds may have items.
EndRunOf(s) ==
    /\ run[s] = "active"
    /\ \E end \in {"ended", "timedOut"}, made \in SUBSET {s} :
         /\ run' = [run EXCEPT ![s] = end]
         /\ itemised' = IF end = "ended" THEN itemised \cup made ELSE itemised
    /\ UNCHANGED <<sub, counter, requested, announced, callsOfSubs, retryVars, left, failed, subHistory>>

\* A submission is old enough for the scan retry.
Age(s) ==
    /\ s \in StoredSubs /\ sub[s].file /\ ~sub[s].scanned /\ ~sub[s].aged
    /\ Spend("ages")
    /\ sub' = [sub EXCEPT ![s].aged = TRUE]
    /\ UNCHANGED <<counter, requested, announced, runRows, callsOfSubs, retryVars, failed, subHistory>>

-----------------------------------------------------------------------------
(* retryStaleSubmissionScanRequests: one pass at a time                    *)

Stale(s) == s \in StoredSubs /\ sub[s].file /\ ~sub[s].scanned /\ sub[s].aged

Oldest(S) == {s \in S : Cardinality({t \in S : t < s}) < Batch}

\* The filter put after the limit
CandidatesOfOldest == {s \in Oldest({t \in StoredSubs : sub[t].file}) : Stale(s)}

Candidates == Oldest({s \in Subs : Stale(s)})

\* getActiveChallengeIdsForSubmissionScanRetry
Watching == challenge = "ACTIVE"

StartPass ==
    /\ ~passing /\ Watching /\ Candidates # {}
    /\ passing' = TRUE
    /\ todo' = SetToSortSeq(Candidates, <)
    /\ UNCHANGED <<sub, counter, requested, announced, runRows, callsOfSubs, left, failed, subHistory>>

StillInDmz(s) == sub[s].place = "dmz"

\* A file that is not in the DMZ bucket any more is skipped; a failed publish
\* is counted and the pass goes on.
RetryNext ==
    /\ passing /\ todo # <<>>
    /\ todo' = Tail(todo)
    /\ \/ StillInDmz(Head(todo))
          /\ requested' = requested \cup {Head(todo)} /\ Fine
       \/ StillInDmz(Head(todo)) /\ SMishap /\ UNCHANGED requested
       \/ ~StillInDmz(Head(todo)) /\ UNCHANGED requested /\ Fine
    /\ UNCHANGED <<sub, counter, announced, runRows, callsOfSubs, passing, subHistory>>

EndPass ==
    /\ passing /\ todo = <<>>
    /\ passing' = FALSE
    /\ UNCHANGED <<sub, counter, requested, announced, runRows, callsOfSubs, todo, left, failed,
                   subHistory>>

RetryStep == StartPass \/ RetryNext \/ EndPass

-----------------------------------------------------------------------------
CreateStep(c) ==
    \/ \E k \in Kinds, file \in BOOLEAN : CreateCheck(c, k, file)
    \/ Insert(c) \/ AskScan(c) \/ Count(c) \/ AnnounceCreated(c)

DeleteStep(c) == (\E s \in Subs : DeleteRead(c, s)) \/ Purge(c) \/ DeleteRow(c) \/ Discount(c)

SubNext ==
    \/ \E c \in SubCalls : CreateStep(c) \/ DeleteStep(c)
    \/ \E k \in Kinds : UploadValidation(k)
    \/ \E s \in Subs, k \in Kinds : ChangeKind(s, k)
    \/ \E s \in Subs : ScanAnswers(s) \/ ScanLost(s) \/ StartRunOf(s) \/ EndRunOf(s) \/ Age(s)
    \/ RetryStep

-----------------------------------------------------------------------------
(* Properties                                                              *)

\* Between calls, the challenge's counters are the numbers of its submissions,
\* and each has been announced, unless a call failed, a type was changed, or a
\* submission was deleted that was not counted: an upload for validation, or
\* one whose creation had not come to it.
CountersFollow ==
    (\A c \in SubCalls : spc[c] = "idle") /\ ~failed /\ ~untold =>
        LET ordinary == {s \in StoredSubs : ~sub[s].validation} IN
        /\ \A k \in Kinds : counter[k] = Cardinality({s \in ordinary : sub[s].kind = k})
        /\ ordinary \subseteq announced

\* Deleting a submission takes an active run only if the run was started, or
\* started again, after the check and before the purge.
ActiveRunsStay == taken \subseteq started

\* Stale submissions whose file has left the DMZ bucket: nothing makes them
\* less stale, and they come first.
Blocked(s) == Cardinality({t \in Subs : t < s /\ Stale(t) /\ sub[t].place # "dmz"}) >= Batch

\* A stale file in the DMZ bucket is scanned in the end while the challenge is
\* active, whatever requests are lost, unless the files that come first fill
\* the batch.
StaleIsScanned ==
    \A s \in Subs :
        Stale(s) /\ sub[s].place = "dmz"
        ~> ~Stale(s) \/ sub[s].place # "dmz" \/ Blocked(s) \/ challenge # "ACTIVE"

=============================================================================
