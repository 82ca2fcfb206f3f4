----------------------------- MODULE LegacyImport -----------------------------
(***************************************************************************)
(* The import of the legacy export by migrate.ts: the kinds of records in  *)
(* their order, and for each the map from legacy ids to new ones, which is *)
(* read at the start of the script and written when it ends well.  A full  *)
(* run writes batches and keeps what it finds mapped; an incremental one   *)
(* updates what has changed.  Nothing in the database is keyed by a legacy *)
(* id: what a later run does depends on the maps alone.                    *)
(*                                                                         *)
(* A record is its kind and a number; the records it belongs to have the   *)
(* same number, but for appeals (see ParentOf).                            *)
(***************************************************************************)
EXTENDS Naturals, Sequences, FiniteSetsExt, Functions

CONSTANTS
    Copies,         \* numbers of the records of each kind
    CommentOfItem,  \* the comment whose id is that of an item, or 0
    InEs,           \* submissions that the Elasticsearch export has
    Deltas          \* sets of records an incremental run may find changed

ASSUME ImportAssumption ==
    /\ Copies \subseteq Nat \ {0} /\ Copies # {} /\ IsFiniteSet(Copies)
    /\ CommentOfItem \in [Copies -> Copies \cup {0}]
    /\ InEs \subseteq Copies

(* How the kinds differ.                                                   *)

\* needs: what must be mapped before; links: what is linked if it is mapped;
\* rechecked: a full run leaves out what is mapped; forgets: a record that
\* cannot be written is unmapped again; eager: an incremental run maps before it
\* writes, and a failure ends it; natural: keyed by what it is about; named: of
\* a unique name; sole: of a unique key made of all it refers to.
Kind(needs) ==
    [needs |-> needs, links |-> {}, rechecked |-> TRUE, forgets |-> TRUE, eager |-> FALSE,
     natural |-> FALSE, named |-> FALSE, sole |-> FALSE]

Upload == [Kind({}) EXCEPT !.eager = TRUE]
Submission == [Kind({}) EXCEPT !.links = {"upload"}, !.eager = TRUE]
ProjectResult == [Kind({}) EXCEPT !.natural = TRUE]
Scorecard == [Kind({}) EXCEPT !.rechecked = FALSE]
ScorecardGroup == Kind({"scorecard"})
ScorecardSection == Kind({"group"})
ScorecardQuestion == Kind({"section"})
Review == [Kind({"scorecard"}) EXCEPT !.links = {"submission"}, !.sole = TRUE]
ReviewItem == Kind({"review", "question"})
ReviewItemComment == Kind({"item"})
\* Mapped by its item, and only if a comment has that id; unmapped by its own id,
\* which no comment has: it stays mapped.
Appeal == [Kind({"comment"}) EXCEPT !.forgets = FALSE, !.sole = TRUE]
AppealResponse == [Kind({"appeal"}) EXCEPT !.sole = TRUE]
LlmProvider == [Kind({}) EXCEPT !.rechecked = FALSE, !.named = TRUE]
LlmModel == [Kind({"provider"}) EXCEPT !.rechecked = FALSE, !.named = TRUE]
AiWorkflow == [Kind({"model", "scorecard"}) EXCEPT !.rechecked = FALSE, !.named = TRUE]
ResourceSubmission == [Kind({}) EXCEPT !.links = {"submission"}, !.forgets = FALSE, !.eager = TRUE]

Importer ==
    [upload |-> Upload, submission |-> Submission, result |-> ProjectResult,
     scorecard |-> Scorecard, group |-> ScorecardGroup, section |-> ScorecardSection,
     question |-> ScorecardQuestion, review |-> Review, item |-> ReviewItem,
     comment |-> ReviewItemComment, appeal |-> Appeal, response |-> AppealResponse,
     provider |-> LlmProvider, model |-> LlmModel, workflow |-> AiWorkflow,
     pair |-> ResourceSubmission]

ImportKinds == DOMAIN Importer

\* "es" is the step that reads submissions again, from Elasticsearch.
Order == <<"upload", "submission", "result", "scorecard", "group", "section", "question", "review",
           "item", "comment", "appeal", "response", "provider", "model", "workflow", "es", "pair">>

Records == ImportKinds \X Copies

ASSUME DeltasAssumption == Deltas \subseteq SUBSET Records

\* Bounds: runs of either mode, records that fail, answers lost, runs that fail.
ImportBudget == {"fulls", "incrementals", "faults", "losses", "crashes"}

VARIABLES
    rows,           \* the database
    saved, idMap,   \* the maps in the files and in the script
    mode, at, stage, \* the run: its mode, its place in Order, what it does there
    delta,          \* what it finds changed
    batch, changed, \* rows to be written; records to be updated
    lastId,         \* new ids of a run are greater
    importLeft,     \* what is left of each bound
    ended,          \* auxiliary: how the last run ended
    faulted,        \* auxiliary: this run has met a fault
    broken          \* auxiliary: a run has failed, or an answer was lost

importVars == <<rows, saved, idMap, mode, at, stage, delta, batch, changed, lastId, importLeft, ended,
                faulted, broken>>

NoIds == [r \in {} |-> 0]

Mapped(r) == r \in DOMAIN idMap

ImportInit(budget) ==
    /\ rows = {} /\ saved = NoIds /\ idMap = NoIds
    /\ mode = "down" /\ at = 0 /\ stage = "idle" /\ delta = {} /\ batch = {} /\ changed = {}
    /\ lastId = Max(Copies)
    /\ importLeft = budget
    /\ ended = "none" /\ faulted = FALSE /\ broken = FALSE

ImportTypeOK ==
    /\ \A x \in rows \cup batch : x.rec \in Records /\ x.id \in Nat
    /\ \A ids \in {saved, idMap} : DOMAIN ids \subseteq Records /\ Range(ids) \subseteq Nat
    /\ mode \in {"down", "full", "incremental"} /\ at \in 0..(Len(Order) + 1)
    /\ stage \in {"idle", "convert", "insert", "single", "upsert", "es"}
    /\ delta \subseteq Records /\ changed \subseteq Copies /\ lastId \in Nat
    /\ importLeft \in [ImportBudget -> Nat]
    /\ ended \in {"none", "full", "incremental"} /\ {faulted, broken} \subseteq BOOLEAN

-----------------------------------------------------------------------------
KindHere == IF Order[at] = "es" THEN "submission" ELSE Order[at]

How(r) == Importer[r[1]]

\* An appeal is taken for one of the comment whose id is that of its item.
ParentOf(r, k) == IF r[1] = "appeal" THEN <<k, CommentOfItem[r[2]]>> ELSE <<k, r[2]>>

\* requireMappedId
Convertible(r) ==
    \A k \in How(r).needs : Mapped(ParentOf(r, k))

Converted(r, id) ==
    [rec |-> r, id |-> id,
     refs |-> {<<k, idMap[ParentOf(r, k)]>> :
                   k \in {l \in How(r).needs \cup How(r).links : Mapped(ParentOf(r, l))}}]

\* A result is its own key; the others get a new one, another for each step.
Fresh(r) ==
    IF How(r).natural THEN r[2]
    ELSE IF Order[at] = "es" THEN lastId + Max(Copies) + r[2] ELSE lastId + r[2]

\* A key with a null in it is not one.
Keyed(x) ==
    How(x.rec).sole /\ {ref[1] : ref \in x.refs} = How(x.rec).needs \cup How(x.rec).links

\* Keys and unique names among some rows, and foreign keys.
FitsAmong(x, others) ==
    /\ \A y \in others : y.rec[1] = x.rec[1] => y.id # x.id
    /\ Keyed(x) => \A y \in others : y.rec[1] = x.rec[1] => y.refs # x.refs
    /\ How(x.rec).named => \A y \in others : y.rec # x.rec
    /\ \A ref \in x.refs : \E y \in rows : y.rec[1] = ref[1] /\ y.id = ref[2]

Fits(x) == FitsAmong(x, rows)

\* The map with an id for a record
WithId(r, id) == [q \in DOMAIN idMap \cup {r} |-> IF q = r THEN id ELSE idMap[q]]

Fault(b) ==
    /\ importLeft[b] > 0 /\ importLeft' = [importLeft EXCEPT ![b] = @ - 1]
    /\ faulted' = TRUE
    /\ broken' = (broken \/ b # "faults")

NoFault == UNCHANGED <<importLeft, faulted, broken>>

Proceed == at' = at + 1 /\ stage' = "convert"

-----------------------------------------------------------------------------
(* A full run: batches                                                     *)

SkippedNever(r) == FALSE

Skipped(r) == How(r).rechecked /\ Mapped(r)

\* The records of a file are converted and mapped before any is written.
Convert ==
    LET taken == {r \in {KindHere} \X Copies : ~Skipped(r) /\ Convertible(r)} IN
    /\ mode = "full" /\ stage = "convert" /\ at <= Len(Order) /\ Order[at] # "es"
    /\ batch' = {Converted(r, Fresh(r)) : r \in taken}
    /\ idMap' = [r \in DOMAIN idMap \cup taken |-> IF r \in taken THEN Fresh(r) ELSE idMap[r]]
    /\ stage' = "insert"
    /\ NoFault
    /\ UNCHANGED <<rows, saved, mode, at, delta, changed, lastId, ended>>

AllFit == \A x \in batch : Fits(x)

\* createMany: all or none.  After an error, one by one; it may have come when
\* they were written.
InsertAll ==
    /\ stage = "insert"
    /\ \/ AllFit /\ rows' = rows \cup batch /\ batch' = {} /\ Proceed /\ NoFault
       \/ AllFit /\ batch # {} /\ rows' = rows \cup batch /\ Fault("losses")
            /\ stage' = "single" /\ UNCHANGED <<batch, at>>
       \/ batch # {} /\ UNCHANGED <<rows, batch, at>> /\ stage' = "single"
            /\ IF AllFit THEN Fault("faults") ELSE NoFault
    /\ UNCHANGED <<saved, idMap, mode, delta, changed, lastId, ended>>

\* What cannot be written is unmapped, and what was if its answer is lost.
UnmappedNever(r) == FALSE

Unmapped(r) == How(r).forgets

InsertSingly(x) ==
    /\ stage = "single" /\ x \in batch
    /\ batch' = batch \ {x}
    /\ \/ Fits(x) /\ rows' = rows \cup {x} /\ UNCHANGED idMap /\ NoFault
       \/ /\ \/ UNCHANGED rows /\ IF Fits(x) THEN Fault("faults") ELSE NoFault
             \/ Fits(x) /\ rows' = rows \cup {x} /\ Fault("losses")
          /\ idMap' = IF Unmapped(x.rec) THEN Restrict(idMap, DOMAIN idMap \ {x.rec}) ELSE idMap
    /\ UNCHANGED <<saved, mode, at, stage, delta, changed, lastId, ended>>

SinglesDone ==
    /\ stage = "single" /\ batch = {}
    /\ Proceed /\ NoFault
    /\ UNCHANGED <<rows, saved, idMap, mode, delta, batch, changed, lastId, ended>>

-----------------------------------------------------------------------------
(* An incremental run: what was made or changed since a date               *)

FindChanged ==
    /\ mode = "incremental" /\ stage = "convert" /\ at <= Len(Order) /\ Order[at] # "es"
    /\ changed' = {n \in Copies : <<KindHere, n>> \in delta}
    /\ stage' = "upsert"
    /\ NoFault
    /\ UNCHANGED <<rows, saved, idMap, mode, at, delta, batch, lastId, ended>>

Upserted(x) == {y \in rows : y.rec[1] # x.rec[1] \/ y.id # x.id} \cup {x}

\* By the mapped id, or a new one, which is mapped when it was written.
Upsert(n) ==
    LET r == <<KindHere, n>>
        x == Converted(r, IF Mapped(r) THEN idMap[r] ELSE Fresh(r))
        fits == FitsAmong(x, {y \in rows : y.rec # r \/ y.id # x.id})
    IN  /\ stage = "upsert" /\ n \in changed
        /\ changed' = changed \ {n}
        /\ \/ ~Convertible(r) /\ UNCHANGED <<rows, idMap>> /\ NoFault
           \/ Convertible(r) /\ fits /\ rows' = Upserted(x) /\ NoFault
                /\ idMap' = WithId(r, x.id)
           \/ Convertible(r) /\ ~How(r).eager /\ UNCHANGED <<rows, idMap>>
                /\ IF fits THEN Fault("faults") ELSE NoFault
           \/ Convertible(r) /\ ~How(r).eager /\ fits /\ rows' = Upserted(x) /\ UNCHANGED idMap
                /\ Fault("losses")
        /\ UNCHANGED <<saved, mode, at, stage, delta, batch, lastId, ended>>

UpsertsDone ==
    /\ stage = "upsert" /\ changed = {}
    /\ Proceed /\ NoFault
    /\ UNCHANGED <<rows, saved, idMap, mode, delta, batch, changed, lastId, ended>>

-----------------------------------------------------------------------------
(* migrateElasticSearch, in both modes                                     *)

ReadEs ==
    /\ stage = "convert" /\ at <= Len(Order) /\ Order[at] = "es"
    /\ changed' = InEs /\ stage' = "es"
    /\ NoFault
    /\ UNCHANGED <<rows, saved, idMap, mode, at, delta, batch, lastId, ended>>

\* A mapped one is updated, another is made and then mapped; failures are
\* swallowed.
ImportEs(n) ==
    LET r == <<"submission", n>>
        x == Converted(r, Fresh(r))
    IN  /\ stage = "es" /\ n \in changed
        /\ changed' = changed \ {n}
        /\ \/ Mapped(r) /\ UNCHANGED <<rows, idMap>> /\ NoFault
           \/ ~Mapped(r) /\ rows' = rows \cup {x} /\ idMap' = WithId(r, x.id) /\ NoFault
           \/ ~Mapped(r) /\ UNCHANGED <<rows, idMap>> /\ Fault("faults")
           \/ ~Mapped(r) /\ rows' = rows \cup {x} /\ UNCHANGED idMap /\ Fault("losses")
        /\ UNCHANGED <<saved, mode, at, stage, delta, batch, lastId, ended>>

EsDone ==
    /\ stage = "es" /\ changed = {}
    /\ Proceed /\ NoFault
    /\ UNCHANGED <<rows, saved, idMap, mode, delta, batch, changed, lastId, ended>>

-----------------------------------------------------------------------------
(* migrate                                                                 *)

Start(m) ==
    LET b == IF m = "full" THEN "fulls" ELSE "incrementals" IN
    /\ mode = "down" /\ importLeft[b] > 0
    /\ importLeft' = [importLeft EXCEPT ![b] = @ - 1]
    /\ mode' = m /\ at' = 1 /\ stage' = "convert"
    /\ idMap' = saved
    /\ ended' = "none" /\ faulted' = FALSE
    /\ delta' \in IF m = "full" THEN {{}} ELSE Deltas
    /\ lastId' = lastId + 2 * Max(Copies)
    /\ UNCHANGED <<rows, saved, batch, changed, broken>>

Down ==
    /\ mode' = "down" /\ at' = 0 /\ stage' = "idle"
    /\ delta' = {} /\ batch' = {} /\ changed' = {} /\ idMap' = NoIds

\* The maps are written when all is done.
Finish ==
    /\ mode # "down" /\ at > Len(Order)
    /\ saved' = idMap /\ ended' = mode
    /\ Down /\ NoFault
    /\ UNCHANGED <<rows, lastId>>

\* The script is stopped, or an eager write fails: it exits and writes no map.
Crash ==
    /\ mode # "down" /\ Fault("crashes")
    /\ Down
    /\ UNCHANGED <<rows, saved, lastId, ended>>

-----------------------------------------------------------------------------
ImportNext ==
    \/ \E m \in {"full", "incremental"} : Start(m)
    \/ Convert \/ InsertAll \/ SinglesDone
    \/ \E x \in batch : InsertSingly(x)
    \/ FindChanged \/ UpsertsDone \/ ReadEs \/ EsDone
    \/ \E n \in changed : Upsert(n) \/ ImportEs(n)
    \/ Finish \/ Crash

ImportSpec == (\E budget \in [ImportBudget -> Nat] : ImportInit(budget)) /\ [][ImportNext]_importVars

-----------------------------------------------------------------------------
(* Properties                                                              *)

\* However many runs import it, after failed writes too, a record of a kind
\* that is rechecked has one row, unless a run failed, and its maps were lost,
\* or the answer to a write was.
OneRowEach ==
    ~broken => \A x, y \in rows : x.rec = y.rec /\ How(x.rec).rechecked => x = y

\* Kinds a full run does not make whole: those whose failed records stay mapped,
\* and those that depend on them or on named ones, which a second full run
\* unmaps.
NotRetried == {"appeal", "response", "pair", "model", "workflow"}

\* A full run without a fault makes up for what earlier ones could not write, of
\* all but some kinds.
FullRunMakesWhole ==
    ended = "full" /\ ~faulted =>
        \A k \in ImportKinds \ NotRetried, n \in Copies : \E x \in rows : x.rec = <<k, n>>

=============================================================================
