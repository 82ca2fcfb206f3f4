--------------------------- MODULE SubmissionsProofs ---------------------------
(* Proofs about Submissions and Summations, for any submissions, calls,      *)
(* generations and starts.                                                   *)
EXTENDS Summations, SetSums, FiniteSetTheorems, TLAPS

-----------------------------------------------------------------------------
(* Submissions                                                             *)

CallStates == {"idle", "insert", "ask", "count", "announce", "purge", "remove", "discount"}

RowParts(x) ==
    x = [state |-> x.state, kind |-> x.kind, file |-> x.file, place |-> x.place,
         scanned |-> x.scanned, aged |-> x.aged, validation |-> x.validation]

\* A call is about a submission that has been made, when it has made one.
SubjectFits(c) ==
    /\ subject[c] = [sub |-> subject[c].sub, kind |-> subject[c].kind, file |-> subject[c].file]
    /\ subject[c].kind \in Kinds
    /\ spc[c] # "insert" => subject[c].sub \in Made

SubShape ==
    /\ sub = [s \in Subs |-> sub[s]] /\ \A s \in Subs : RowParts(sub[s])
    /\ \A s \in Made : sub[s].kind \in Kinds
    /\ counter \in [Kinds -> Nat]
    /\ run \in [Subs -> {"none", "active", "ended", "timedOut"}]
    /\ spc \in [SubCalls -> CallStates] /\ subject = [c \in SubCalls |-> subject[c]]
    /\ \A c \in SubCalls : spc[c] # "idle" => SubjectFits(c)
    /\ failed \in BOOLEAN /\ untold \in BOOLEAN

\* Submissions are numbered in the order they are made, and there is a number
\* left for each that is about to.
Numbered ==
    /\ \A s \in Made : s <= Cardinality(Made)
    /\ Cardinality(Made) + Cardinality(Inserting) <= MaxSubs

\* A run that is active while its submission is being deleted was started then.
PurgeFollows ==
    /\ taken \subseteq started
    /\ \A c \in SubCalls : spc[c] = "purge" /\ run[subject[c].sub] = "active" => subject[c].sub \in started

\* What makes a submission is one call.
Making(c) == spc[c] \in {"ask", "count", "announce"}

Ordinary == {s \in StoredSubs : ~sub[s].validation}

\* Submissions that have been counted, and those deleted but counted still.
Counted(k) == {s \in Ordinary : sub[s].kind = k /\ ~Uncounted(s)}

Discounting(k) == {c \in SubCalls : spc[c] = "discount" /\ subject[c].kind = k}

CountHolds ==
    /\ \A c \in SubCalls :
         /\ spc[c] \in {"ask", "count"} =>
              subject[c].sub \in Ordinary /\ sub[subject[c].sub].kind = subject[c].kind
         /\ spc[c] \in {"purge", "remove"} => sub[subject[c].sub].kind = subject[c].kind
    /\ \A k \in Kinds : counter[k] = Cardinality(Counted(k)) + Cardinality(Discounting(k))
    /\ \A s \in Ordinary \ announced : \E c \in SubCalls : Making(c) /\ subject[c].sub = s

SubsIInv ==
    /\ SubShape /\ Numbered /\ PurgeFollows
    /\ \A c, d \in SubCalls : Making(c) /\ Making(d) /\ subject[c].sub = subject[d].sub => c = d
    /\ ~failed /\ ~untold => CountHolds

LEMMA FiniteSubs ==
  /\ IsFiniteSet(Subs) /\ IsFiniteSet(Made) /\ Cardinality(Made) \in Nat
  /\ IsFiniteSet(Inserting) /\ Cardinality(Inserting) \in Nat
<1>1. IsFiniteSet(Subs)
  BY FS_Interval, SubmissionsAssumption DEF Subs
<1>2. Made \subseteq Subs /\ Inserting \subseteq SubCalls
  BY DEF Made, Inserting
<1>3. IsFiniteSet(Made) /\ IsFiniteSet(Inserting)
  BY <1>1, <1>2, FS_Subset, SubmissionsAssumption
<1>4. QED
  BY <1>1, <1>3, FS_CardinalityType

\* The numbers left are enough.
LEMMA NumberLeft ==
  ASSUME Numbered, Inserting # {} \/ Cardinality(Made) + Cardinality(Inserting) < MaxSubs
  PROVE  Cardinality(Made) + 1 \in Subs /\ Cardinality(Made) + 1 \notin Made
<1>1. Inserting # {} => Cardinality(Inserting) >= 1
  BY FiniteSubs, FS_EmptySet
<1>2. Cardinality(Made) + 1 <= MaxSubs
  BY <1>1, FiniteSubs, SubmissionsAssumption DEF Numbered
<1>3. QED
  BY <1>2, FiniteSubs, SubmissionsAssumption DEF Numbered, Subs

SubLeft(c) == spc'[c] = spc[c] /\ subject'[c] = subject[c]

CallStep(c) == CreateStep(c) \/ DeleteStep(c)

\* How a call may move.
LEMMA CallMoves ==
  ASSUME SubShape, NEW c \in SubCalls, CallStep(c)
  PROVE  /\ spc' \in [SubCalls -> CallStates] /\ subject' = [d \in SubCalls |-> subject'[d]]
         /\ \A d \in SubCalls \ {c} : SubLeft(d)
<1> USE DEF SubShape, SubLeft, CallStates, SGoto, SLeave, SEnter
<1>1. CASE \E k \in Kinds, file \in BOOLEAN : CreateCheck(c, k, file)
  BY <1>1 DEF CreateCheck
<1>2. CASE Insert(c)
  <2>1. subject' = [subject EXCEPT ![c].sub = Cardinality(Made) + 1] /\ spc' = [spc EXCEPT ![c] = "ask"]
    BY <1>2 DEF Insert
  <2>2. QED
    BY <2>1
<1>3. CASE AskScan(c) \/ Count(c) \/ AnnounceCreated(c)
  BY <1>3 DEF AskScan, Count, AnnounceCreated
<1>4. CASE \E s \in Subs : DeleteRead(c, s)
  <2>1. PICK s \in Subs : DeleteRead(c, s)
    BY <1>4
  <2>2. \/ spc' = [spc EXCEPT ![c] = "remove"]
        \/ spc' = [spc EXCEPT ![c] = "purge"]
    BY <2>1 DEF DeleteRead
  <2>3. subject' = [subject EXCEPT ![c] = [sub |-> s, kind |-> sub[s].kind, file |-> sub[s].file]]
    BY <2>1 DEF DeleteRead
  <2>4. QED
    BY <2>2, <2>3
<1>5. CASE Purge(c) \/ DeleteRow(c) \/ Discount(c)
  BY <1>5 DEF Purge, DeleteRow, Discount
<1>6. QED
  BY <1>1, <1>2, <1>3, <1>4, <1>5 DEF CallStep, CreateStep, DeleteStep

RowKept(s) ==
    /\ RowParts(sub'[s]) /\ sub'[s].state = sub[s].state /\ sub'[s].kind = sub[s].kind
    /\ sub'[s].validation = sub[s].validation

\* The steps that neither make nor delete a submission, nor change its kind
RowsKept == sub' = [s \in Subs |-> sub'[s]] /\ \A s \in Subs : RowKept(s)

OtherStep ==
    \/ \E s \in Subs : ScanAnswers(s) \/ ScanLost(s) \/ StartRunOf(s) \/ EndRunOf(s) \/ Age(s)
    \/ RetryStep
    \/ UNCHANGED <<subRows, failed>>

LEMMA RowsUnchanged ==
  ASSUME SubShape, sub' = sub
  PROVE  RowsKept
BY DEF SubShape, RowsKept, RowKept

LEMMA OtherKeepsRows ==
  ASSUME SubShape, OtherStep
  PROVE  RowsKept /\ UNCHANGED <<counter, announced, untold, spc, subject>>
<1>1. ASSUME NEW s \in Subs, NEW place, NEW told, Scanned(s, place, told)
      PROVE  RowsKept /\ UNCHANGED <<counter, announced, untold, spc, subject>>
  <2>1. sub' = [sub EXCEPT ![s] = [sub[s] EXCEPT !.place = IF sub[s].place = "dmz" THEN place ELSE @,
                   !.scanned = @ \/ (told /\ sub[s].place = "dmz" /\ place = "clean")]]
    BY <1>1 DEF Scanned, SubShape
  <2>2. RowParts(sub[s])
    BY DEF SubShape
  <2>3. RowKept(s)
    BY <2>1, <2>2 DEF RowKept, RowParts, SubShape
  <2>4. \A t \in Subs \ {s} : sub'[t] = sub[t]
    BY <2>1 DEF SubShape
  <2>5. QED
    BY <1>1, <2>1, <2>3, <2>4 DEF SubShape, RowsKept, RowKept, Scanned, callsOfSubs, subHistory
<1>2. ASSUME NEW s \in Subs, Age(s)
      PROVE  RowsKept /\ UNCHANGED <<counter, announced, untold, spc, subject>>
  <2>1. sub' = [sub EXCEPT ![s] = [sub[s] EXCEPT !.aged = TRUE]] /\ RowParts(sub[s])
    BY <1>2 DEF Age, SubShape
  <2>2. RowKept(s)
    BY <2>1 DEF RowKept, RowParts, SubShape
  <2>3. UNCHANGED <<counter, announced, untold, spc, subject>>
    BY <1>2 DEF Age, callsOfSubs, subHistory
  <2>4. QED
    BY <2>1, <2>2, <2>3 DEF SubShape, RowsKept, RowKept
<1>3. CASE \/ \E s \in Subs : StartRunOf(s) \/ EndRunOf(s)
           \/ RetryStep \/ UNCHANGED <<subRows, failed>>
  <2>1. UNCHANGED <<sub, counter, announced, untold, spc, subject>>
    BY <1>3 DEF StartRunOf, EndRunOf, RetryStep, StartPass, RetryNext, EndPass, callsOfSubs, subHistory, subRows
  <2>2. QED
    BY <2>1, RowsUnchanged
<1>4. QED
  BY <1>1, <1>2, <1>3 DEF OtherStep, ScanAnswers, ScanLost

\* Of the steps of a call, only two change the rows.
LEMMA CallKeepsRows ==
  ASSUME SubShape, NEW c \in SubCalls, CallStep(c), ~Insert(c)
  PROVE  sub' = sub \/ (DeleteRow(c) /\ Deletable(subject[c].sub))
BY DEF CallStep, CreateStep, DeleteStep, CreateCheck, AskScan, Count, AnnounceCreated, DeleteRead, Purge,
   DeleteRow, Discount

\* A new row of the kind is written as submission s.
Stores(s, k) ==
    \E row : /\ sub' = [sub EXCEPT ![s] = row] /\ RowParts(row)
             /\ row.state = "stored" /\ row.kind = k

\* A row is made, with the next number.
LEMMA RowAdded ==
  ASSUME SubShape, NEW s \in Subs \ Made, NEW k, Stores(s, k)
  PROVE  /\ Made' = Made \cup {s} /\ Cardinality(Made') = Cardinality(Made) + 1
         /\ sub' = [t \in Subs |-> sub'[t]] /\ \A t \in Subs : RowParts(sub'[t])
         /\ sub'[s].state = "stored" /\ sub'[s].kind = k
         /\ \A t \in Subs \ {s} : sub'[t] = sub[t]
<1> PICK row : /\ sub' = [sub EXCEPT ![s] = row] /\ RowParts(row)
               /\ row.state = "stored" /\ row.kind = k
  BY DEF Stores
<1>1. sub'[s] = row /\ \A t \in Subs \ {s} : sub'[t] = sub[t]
  BY DEF SubShape
<1>2. Made' = Made \cup {s}
  BY <1>1 DEF Made
<1>3. QED
  BY <1>1, <1>2, FiniteSubs, FS_AddElement DEF SubShape

LEMMA NewRowParts ==
  ASSUME NEW k, NEW file, NEW validation \in BOOLEAN
  PROVE  LET row == RowOf(k, file, validation) IN
         RowParts(row) /\ row.state = "stored" /\ row.kind = k /\ row.validation = validation
BY DEF RowOf, RowParts

LEMMA UploadedRow ==
  ASSUME SubShape, Numbered, NEW k \in Kinds, UploadValidation(k)
  PROVE  \E s \in Subs \ Made :
           /\ s = Cardinality(Made) + 1 /\ Stores(s, k) /\ sub'[s].validation = TRUE
<1> DEFINE s == Cardinality(Made) + 1
           row == RowOf(k, TRUE, TRUE)
<1>1. s \in Subs \ Made
  BY NumberLeft DEF UploadValidation
<1>2. sub' = [sub EXCEPT ![s] = row]
  BY DEF UploadValidation
<1>3. RowParts(row) /\ row.state = "stored" /\ row.kind = k /\ row.validation = TRUE
  BY NewRowParts
<1> HIDE DEF row
<1>4. Stores(s, k)
  BY <1>2, <1>3 DEF Stores
<1>5. sub'[s].validation = TRUE
  BY <1>1, <1>2, <1>3 DEF SubShape
<1>6. QED
  BY <1>1, <1>4, <1>5

LEMMA InsertedRow ==
  ASSUME SubShape, Numbered, NEW c \in SubCalls, Insert(c)
  PROVE  \E s \in Subs \ Made :
           /\ s = Cardinality(Made) + 1 /\ Stores(s, subject[c].kind) /\ sub'[s].validation = FALSE
           /\ spc'[c] = "ask"
           /\ subject'[c] = [sub |-> s, kind |-> subject[c].kind, file |-> subject[c].file]
<1> DEFINE s == Cardinality(Made) + 1
           row == RowOf(subject[c].kind, subject[c].file, FALSE)
<1>1. s \in Subs \ Made
  BY NumberLeft DEF Insert, Inserting
<1>2. sub' = [sub EXCEPT ![s] = row] /\ spc'[c] = "ask" /\ spc[c] = "insert"
      /\ subject' = [subject EXCEPT ![c].sub = s]
  BY DEF Insert, NewRow, SubShape
<1>3. subject'[c] = [subject[c] EXCEPT !.sub = s]
  BY <1>2 DEF SubShape
<1>4. subject'[c] = [sub |-> s, kind |-> subject[c].kind, file |-> subject[c].file]
  BY <1>2, <1>3 DEF SubShape, SubjectFits
<1>5. RowParts(row) /\ row.state = "stored" /\ row.kind = subject[c].kind /\ row.validation = FALSE
  BY NewRowParts
<1> HIDE DEF row
<1>6. Stores(s, subject[c].kind)
  BY <1>2, <1>5 DEF Stores
<1>7. sub'[s].validation = FALSE
  BY <1>1, <1>2, <1>5 DEF SubShape
<1>8. QED
  BY <1>1, <1>2, <1>4, <1>6, <1>7

\* A step of the submissions, or of what is beside them
SubMoves == SubNext \/ UNCHANGED <<subRows, failed>>

LEMMA SubCases ==
  ASSUME SubMoves
  PROVE  \/ \E c \in SubCalls : CallStep(c)
         \/ \E k \in Kinds : UploadValidation(k)
         \/ \E s \in Subs, k \in Kinds : ChangeKind(s, k)
         \/ OtherStep
BY DEF SubMoves, SubNext, CallStep, OtherStep

\* Only one field of a row changes when its kind does, or when it is deleted.
LEMMA RowChanged ==
  ASSUME SubShape, NEW s \in Subs, NEW x,
         sub' = [sub EXCEPT ![s].kind = x] \/ sub' = [sub EXCEPT ![s].state = x]
  PROVE  /\ sub' = [t \in Subs |-> sub'[t]] /\ \A t \in Subs : RowParts(sub'[t])
         /\ \A t \in Subs \ {s} : sub'[t] = sub[t]
         /\ sub'[s].validation = sub[s].validation
         /\ sub' = [sub EXCEPT ![s].kind = x] => sub'[s].state = sub[s].state /\ sub'[s].kind = x
         /\ sub' = [sub EXCEPT ![s].state = x] => sub'[s].state = x /\ sub'[s].kind = sub[s].kind
<1>1. RowParts(sub[s])
  BY DEF SubShape
<1>2. CASE sub' = [sub EXCEPT ![s].kind = x]
  <2>1. sub' = [sub EXCEPT ![s] = [sub[s] EXCEPT !.kind = x]]
    BY <1>2
  <2>2. sub'[s] = [sub[s] EXCEPT !.kind = x] /\ \A t \in Subs \ {s} : sub'[t] = sub[t]
    BY <2>1 DEF SubShape
  <2>3. RowParts(sub'[s]) /\ sub'[s].validation = sub[s].validation /\ sub'[s].state = sub[s].state
        /\ sub'[s].kind = x
    BY <1>1, <2>2 DEF RowParts
  <2>4. sub' = [sub EXCEPT ![s].state = x] => sub'[s].state = x /\ sub'[s].kind = sub[s].kind
    BY <1>1 DEF RowParts, SubShape
  <2>5. QED
    BY <2>1, <2>2, <2>3, <2>4 DEF SubShape
<1>3. CASE sub' = [sub EXCEPT ![s].state = x]
  <2>1. sub' = [sub EXCEPT ![s] = [sub[s] EXCEPT !.state = x]]
    BY <1>3
  <2>2. sub'[s] = [sub[s] EXCEPT !.state = x] /\ \A t \in Subs \ {s} : sub'[t] = sub[t]
    BY <2>1 DEF SubShape
  <2>3. RowParts(sub'[s]) /\ sub'[s].validation = sub[s].validation /\ sub'[s].kind = sub[s].kind
        /\ sub'[s].state = x
    BY <1>1, <2>2 DEF RowParts
  <2>4. sub' = [sub EXCEPT ![s].kind = x] => sub'[s].state = sub[s].state /\ sub'[s].kind = x
    BY <1>1 DEF RowParts, SubShape
  <2>5. QED
    BY <2>1, <2>2, <2>3, <2>4 DEF SubShape
<1>4. QED
  BY <1>2, <1>3

LEMMA RowsStep ==
  ASSUME SubShape, Numbered, SubMoves
  PROVE  /\ sub' = [s \in Subs |-> sub'[s]] /\ \A s \in Subs : RowParts(sub'[s])
         /\ Made \subseteq Made' /\ \A s \in Made' : sub'[s].kind \in Kinds
<1>1. CASE \E c \in SubCalls : Insert(c)
  <2>1. PICK c \in SubCalls : Insert(c)
    BY <1>1
  <2>2. PICK s \in Subs \ Made :
           /\ s = Cardinality(Made) + 1 /\ Stores(s, subject[c].kind) /\ sub'[s].validation = FALSE
           /\ spc'[c] = "ask"
           /\ subject'[c] = [sub |-> s, kind |-> subject[c].kind, file |-> subject[c].file]
    BY <2>1, InsertedRow
  <2>3. subject[c].kind \in Kinds
    BY <2>1 DEF Insert, SubShape, SubjectFits
  <2>4. /\ sub' = [t \in Subs |-> sub'[t]] /\ \A t \in Subs : RowParts(sub'[t])
        /\ sub'[s].kind \in Kinds /\ \A t \in Subs \ {s} : sub'[t] = sub[t]
        /\ Made' = Made \cup {s}
    BY <2>2, <2>3, RowAdded
  <2>5. Made \subseteq Subs
    BY DEF Made
  <2>6. QED
    BY <2>2, <2>4, <2>5 DEF SubShape
<1>2. CASE \E k \in Kinds : UploadValidation(k)
  <2>1. PICK k \in Kinds : UploadValidation(k)
    BY <1>2
  <2>2. PICK s \in Subs \ Made : /\ Stores(s, k) /\ sub'[s].validation = TRUE
    BY <2>1, UploadedRow
  <2>3. /\ sub' = [t \in Subs |-> sub'[t]] /\ \A t \in Subs : RowParts(sub'[t])
        /\ sub'[s].kind \in Kinds /\ \A t \in Subs \ {s} : sub'[t] = sub[t]
        /\ Made' = Made \cup {s}
    BY <2>2, RowAdded
  <2>4. Made \subseteq Subs
    BY DEF Made
  <2>5. QED
    BY <2>2, <2>3, <2>4 DEF SubShape
<1>3. CASE \E s \in Subs, k \in Kinds : ChangeKind(s, k)
  <2>1. PICK s \in Subs, k \in Kinds : sub' = [sub EXCEPT ![s].kind = k]
    BY <1>3 DEF ChangeKind
  <2>2. /\ sub' = [t \in Subs |-> sub'[t]] /\ \A t \in Subs : RowParts(sub'[t])
        /\ \A t \in Subs \ {s} : sub'[t] = sub[t]
        /\ sub'[s].state = sub[s].state /\ sub'[s].kind = k
    BY <2>1, RowChanged
  <2>3. QED
    BY <2>2 DEF SubShape, Made
<1>4. CASE \E c \in SubCalls : DeleteRow(c) /\ Deletable(subject[c].sub)
  <2>1. PICK s \in Subs : s \in StoredSubs /\ sub' = [sub EXCEPT ![s].state = "gone"]
    BY <1>4 DEF DeleteRow, Deletable, StoredSubs
  <2>2. QED
    BY <2>1, RowChanged DEF SubShape, Made, StoredSubs
<1>5. CASE RowsKept
  BY <1>5 DEF RowsKept, RowKept, SubShape, Made
<1>6. QED
  BY <1>1, <1>2, <1>3, <1>4, <1>5, SubCases, CallKeepsRows, OtherKeepsRows, RowsUnchanged

\* The calls that have begun are about what has been made.
LEMMA SubjectsStep ==
  ASSUME SubShape, Numbered, SubMoves, NEW c \in SubCalls, spc'[c] # "idle"
  PROVE  SubjectFits(c)'
<1>0. Made \subseteq Made'
  BY RowsStep
<1>1. CASE SubLeft(c)
  BY <1>0, <1>1 DEF SubLeft, SubShape, SubjectFits
<1>2. CASE CallStep(c)
  <2>1. CASE \E k \in Kinds, file \in BOOLEAN : CreateCheck(c, k, file)
    <3>1. PICK k \in Kinds, file \in BOOLEAN : CreateCheck(c, k, file)
      BY <2>1
    <3>2. subject'[c] = [sub |-> Nobody, kind |-> k, file |-> file] /\ spc'[c] = "insert"
      BY <3>1 DEF CreateCheck, SEnter, SubShape
    <3>3. QED
      BY <3>2 DEF SubjectFits
  <2>2. CASE Insert(c)
    <3>1. PICK s \in Subs \ Made :
             /\ Stores(s, subject[c].kind) /\ sub'[s].validation = FALSE
             /\ subject'[c] = [sub |-> s, kind |-> subject[c].kind, file |-> subject[c].file]
      BY <2>2, InsertedRow
    <3>2. subject[c].kind \in Kinds
      BY <2>2 DEF Insert, SubShape, SubjectFits
    <3>3. s \in Made'
      BY <3>1, RowAdded
    <3>4. QED
      BY <3>1, <3>2, <3>3 DEF SubjectFits
  <2>3. CASE \E s \in Subs : DeleteRead(c, s)
    <3>1. PICK s \in Subs : DeleteRead(c, s)
      BY <2>3
    <3>2. subject'[c] = [sub |-> s, kind |-> sub[s].kind, file |-> sub[s].file] /\ s \in Made
      BY <3>1 DEF DeleteRead, SEnter, SubShape, StoredSubs, Made
    <3>3. sub[s].kind \in Kinds
      BY <3>2 DEF SubShape
    <3>4. QED
      BY <1>0, <3>2, <3>3 DEF SubjectFits
  <2>4. CASE AskScan(c) \/ Count(c) \/ AnnounceCreated(c) \/ Purge(c) \/ DeleteRow(c) \/ Discount(c)
    <3>1. subject'[c] = subject[c] /\ spc[c] \notin {"idle", "insert"}
      BY <2>4 DEF AskScan, Count, AnnounceCreated, Purge, DeleteRow, Discount, SGoto, SLeave, SubShape
    <3>2. QED
      BY <1>0, <3>1 DEF SubShape, SubjectFits
  <2>5. QED
    BY <1>2, <2>1, <2>2, <2>3, <2>4 DEF CallStep, CreateStep, DeleteStep
<1>3. SubLeft(c) \/ CallStep(c)
  <2>1. CASE OtherStep
    BY <2>1, OtherKeepsRows DEF SubLeft
  <2>2. CASE \/ \E k \in Kinds : UploadValidation(k)
             \/ \E s \in Subs, k \in Kinds : ChangeKind(s, k)
    BY <2>2 DEF UploadValidation, ChangeKind, callsOfSubs, SubLeft
  <2>3. QED
    BY <2>1, <2>2, SubCases, CallMoves
<1>4. QED
  BY <1>1, <1>2, <1>3

\* What failed, or could not be counted, stays on record.
LEMMA FailedStays ==
  ASSUME SubShape, SubMoves
  PROVE  /\ failed' \in BOOLEAN /\ untold' \in BOOLEAN
         /\ failed => failed'
         /\ untold => untold'
         /\ (\E s \in Subs, k \in Kinds : ChangeKind(s, k)) => untold'
<1> USE DEF Fine, SMishap
<1>0. failed \in BOOLEAN /\ untold \in BOOLEAN
  BY DEF SubShape
<1>1. ASSUME NEW c \in SubCalls, CallStep(c)
      PROVE  (failed' = failed \/ failed' = TRUE) /\ (untold' = untold \/ DeleteRow(c))
  <2>1. CASE DeleteRow(c)
    BY <2>1 DEF DeleteRow
  <2>2. CASE \E k \in Kinds, file \in BOOLEAN : CreateCheck(c, k, file)
    BY <2>2 DEF CreateCheck, PhaseLetsIn, UploadAllowed, subHistory
  <2>3. CASE Insert(c) \/ AskScan(c) \/ Count(c) \/ AnnounceCreated(c)
    BY <2>3 DEF Insert, AskScan, Count, AnnounceCreated, subHistory
  <2>4. CASE Purge(c) \/ Discount(c)
    BY <2>4 DEF Purge, Discount, subHistory
  <2>5. CASE \E s \in Subs : DeleteRead(c, s)
    BY <2>5 DEF DeleteRead, subHistory
  <2>6. QED
    BY <1>1, <2>1, <2>2, <2>3, <2>4, <2>5 DEF CallStep, CreateStep, DeleteStep
<1>2. ASSUME NEW c \in SubCalls, DeleteRow(c) PROVE untold' \in BOOLEAN /\ (untold => untold')
  <2>1. \/ untold' = untold
        \/ untold' = (untold \/ sub[subject[c].sub].validation \/ Uncounted(subject[c].sub))
    BY <1>2 DEF DeleteRow
  <2>2. QED
    BY <1>0, <2>1
<1>3. ASSUME NEW s \in Subs, ScanAnswers(s) \/ ScanLost(s)
      PROVE  (failed' = failed \/ failed' = TRUE) /\ untold' = untold
  BY <1>3 DEF ScanAnswers, ScanLost, Scanned, subHistory
<1>4. ASSUME RetryStep PROVE (failed' = failed \/ failed' = TRUE) /\ untold' = untold
  <2>1. CASE RetryNext
    BY <2>1 DEF RetryNext, subHistory
  <2>2. CASE StartPass \/ EndPass
    BY <2>2 DEF StartPass, EndPass, subHistory
  <2>3. QED
    BY <1>4, <2>1, <2>2 DEF RetryStep
<1>5. ASSUME NEW s \in Subs, StartRunOf(s) \/ EndRunOf(s) \/ Age(s) PROVE failed' = failed /\ untold' = untold
  BY <1>5 DEF StartRunOf, EndRunOf, Age, subHistory
<1>6. ASSUME (\E k \in Kinds : UploadValidation(k)) \/ UNCHANGED <<subRows, failed>>
      PROVE  failed' = failed /\ untold' = untold
  BY <1>6 DEF UploadValidation, subHistory, subRows
<1>7. ASSUME NEW s \in Subs, NEW k \in Kinds, ChangeKind(s, k) PROVE failed' = failed /\ untold' = TRUE
  BY <1>7 DEF ChangeKind
<1>8. CASE \E c \in SubCalls : CallStep(c)
  <2>1. ~\E s \in Subs, k \in Kinds : ChangeKind(s, k) /\ untold' # TRUE
    BY <1>7
  <2>2. QED
    BY <1>0, <1>1, <1>2, <1>8, <2>1
<1>9. CASE OtherStep
  BY <1>0, <1>3, <1>4, <1>5, <1>6, <1>7, <1>9 DEF OtherStep
<1>10. QED
  BY <1>0, <1>6, <1>7, <1>8, <1>9, SubCases

LEMMA SubShapeStep ==
  ASSUME SubShape, Numbered, SubMoves
  PROVE  SubShape'
<1>1. counter' \in [Kinds -> Nat]
  <2>1. CASE \E c \in SubCalls : Count(c) \/ Discount(c)
    <3>1. PICK c \in SubCalls : Count(c) \/ Discount(c)
      BY <2>1
    <3>2. counter \in [Kinds -> Nat] /\ subject[c].kind \in Kinds
      BY <3>1 DEF SubShape, SubjectFits, Count, Discount
    <3>3. \/ counter' = counter
          \/ counter' = [counter EXCEPT ![subject[c].kind] = @ + 1]
          \/ counter' = [counter EXCEPT ![subject[c].kind] = IF @ = 0 THEN 0 ELSE @ - 1]
      BY <3>1 DEF Count, Discount
    <3>4. QED
      BY <3>2, <3>3
  <2>2. CASE counter' = counter
    BY <2>2 DEF SubShape
  <2>3. ASSUME NEW c \in SubCalls, CallStep(c), ~Count(c), ~Discount(c) PROVE counter' = counter
    BY <2>3 DEF CallStep, CreateStep, DeleteStep, CreateCheck, Insert, AskScan, AnnounceCreated, DeleteRead,
       Purge, DeleteRow
  <2>4. QED
    BY <2>1, <2>2, <2>3, SubCases, OtherKeepsRows DEF UploadValidation, ChangeKind
<1>2. run' \in [Subs -> {"none", "active", "ended", "timedOut"}]
  <2> USE DEF SubShape
  <2>1. CASE \E c \in SubCalls : Purge(c)
    BY <2>1 DEF Purge
  <2>2. CASE \E s \in Subs : StartRunOf(s)
    BY <2>2 DEF StartRunOf
  <2>3. CASE \E s \in Subs : EndRunOf(s)
    BY <2>3 DEF EndRunOf
  <2>4. CASE run' = run
    BY <2>4
  <2>5. ASSUME NEW c \in SubCalls, CallStep(c), ~Purge(c) PROVE run' = run
    BY <2>5 DEF CallStep, CreateStep, DeleteStep, CreateCheck, Insert, AskScan, Count, AnnounceCreated,
       DeleteRead, DeleteRow, Discount, runRows
  <2>6. ASSUME NEW s \in Subs, ScanAnswers(s) \/ ScanLost(s) \/ Age(s) PROVE run' = run
    BY <2>6 DEF ScanAnswers, ScanLost, Scanned, Age, runRows
  <2>7. CASE RetryStep \/ UNCHANGED <<subRows, failed>>
    BY <2>7 DEF RetryStep, StartPass, RetryNext, EndPass, runRows, subRows
  <2>8. QED
    BY <2>1, <2>2, <2>3, <2>4, <2>5, <2>6, <2>7, SubCases DEF UploadValidation, ChangeKind, OtherStep, runRows
<1>3. spc' \in [SubCalls -> CallStates] /\ subject' = [c \in SubCalls |-> subject'[c]]
  <2>1. CASE UNCHANGED <<spc, subject>>
    BY <2>1 DEF SubShape
  <2>2. QED
    BY <2>1, SubCases, CallMoves, OtherKeepsRows DEF UploadValidation, ChangeKind, callsOfSubs
<1>4. QED
  BY <1>1, <1>2, <1>3, RowsStep, SubjectsStep, FailedStays DEF SubShape

\* Where a call goes.
LEMMA CallGoes ==
  ASSUME SubShape, NEW c \in SubCalls, CallStep(c)
  PROVE  \/ (\E k \in Kinds, file \in BOOLEAN : CreateCheck(c, k, file)) /\ spc[c] = "idle" /\ spc'[c] = "insert"
         \/ Insert(c) /\ spc[c] = "insert" /\ spc'[c] = "ask"
         \/ /\ subject'[c] = subject[c] /\ sub' = sub
            /\ \/ AskScan(c) /\ spc[c] = "ask" /\ spc'[c] = "count" /\ failed' = failed
               \/ Count(c) /\ spc[c] = "count" /\ spc'[c] = "announce"
         \/ AskScan(c) /\ spc[c] = "ask" /\ spc'[c] = "idle" /\ failed' = TRUE /\ sub' = sub
         \/ AnnounceCreated(c) /\ spc[c] = "announce" /\ spc'[c] = "idle"
         \/ /\ \E s \in Subs : DeleteRead(c, s) /\ subject'[c].sub = s /\ subject'[c].kind = sub[s].kind
            /\ spc[c] = "idle" /\ spc'[c] \in {"purge", "remove"}
         \/ Purge(c) /\ spc[c] = "purge" /\ spc'[c] = "remove" /\ subject'[c] = subject[c]
         \/ Purge(c) /\ spc[c] = "purge" /\ spc'[c] = "idle"
         \/ /\ DeleteRow(c) /\ Deletable(subject[c].sub) /\ spc[c] = "remove" /\ spc'[c] = "discount"
            /\ subject'[c] = subject[c]
         \/ DeleteRow(c) /\ sub' = sub /\ untold' = untold /\ spc[c] = "remove" /\ spc'[c] = "idle"
         \/ Discount(c) /\ spc[c] = "discount" /\ spc'[c] = "idle"
<1> USE DEF SubShape, SGoto, SLeave, SEnter, Fine, SMishap
<1>1. CASE \E k \in Kinds, file \in BOOLEAN : CreateCheck(c, k, file)
  BY <1>1 DEF CreateCheck
<1>2. CASE Insert(c)
  BY <1>2, CallMoves DEF Insert
<1>3. CASE AskScan(c)
  BY <1>3 DEF AskScan
<1>4. CASE Count(c) \/ AnnounceCreated(c)
  BY <1>4 DEF Count, AnnounceCreated
<1>5. CASE \E s \in Subs : DeleteRead(c, s)
  <2>1. PICK s \in Subs : DeleteRead(c, s)
    BY <1>5
  <2>2. spc[c] = "idle" /\ spc'[c] \in {"purge", "remove"}
    BY <2>1 DEF DeleteRead
  <2>3. subject'[c] = [sub |-> s, kind |-> sub[s].kind, file |-> sub[s].file]
    BY <2>1 DEF DeleteRead
  <2>4. QED
    BY <2>1, <2>2, <2>3
<1>6. CASE Purge(c)
  BY <1>6 DEF Purge
<1>7. CASE DeleteRow(c)
  BY <1>7 DEF DeleteRow
<1>8. CASE Discount(c)
  BY <1>8 DEF Discount
<1>9. QED
  BY <1>1, <1>2, <1>3, <1>4, <1>5, <1>6, <1>7, <1>8 DEF CallStep, CreateStep, DeleteStep

LEMMA RowsKeptSets ==
  ASSUME RowsKept
  PROVE  Made' = Made /\ Ordinary' = Ordinary /\ StoredSubs' = StoredSubs
BY DEF RowsKept, RowKept, Made, Ordinary, StoredSubs

LEMMA MadeStays ==
  ASSUME SubShape, Numbered, SubMoves
  PROVE  \/ Made' = Made
         \/ \E c \in SubCalls : Insert(c)
         \/ \E k \in Kinds : UploadValidation(k)
<1>1. CASE \E s \in Subs, k \in Kinds : ChangeKind(s, k)
  <2>1. PICK s \in Subs, k \in Kinds : sub' = [sub EXCEPT ![s].kind = k]
    BY <1>1 DEF ChangeKind
  <2>2. (\A t \in Subs \ {s} : sub'[t] = sub[t]) /\ sub'[s].state = sub[s].state
    BY <2>1, RowChanged
  <2>3. QED
    BY <2>2 DEF Made
<1>2. CASE \E c \in SubCalls : DeleteRow(c) /\ Deletable(subject[c].sub)
  <2>1. PICK s \in Subs : s \in StoredSubs /\ sub' = [sub EXCEPT ![s].state = "gone"]
    BY <1>2 DEF DeleteRow, Deletable, StoredSubs
  <2>2. (\A t \in Subs \ {s} : sub'[t] = sub[t]) /\ sub'[s].state = "gone"
    BY <2>1, RowChanged
  <2>3. QED
    BY <2>1, <2>2 DEF Made, StoredSubs
<1>3. QED
  BY <1>1, <1>2, SubCases, CallKeepsRows, OtherKeepsRows, RowsUnchanged, RowsKeptSets

\* The numbers given and those about to be given
LEMMA NumberedStep ==
  ASSUME SubShape, Numbered, SubMoves
  PROVE  Numbered'
<1>0. Cardinality(Made) \in Nat /\ Cardinality(Inserting) \in Nat /\ IsFiniteSet(Inserting)
      /\ MaxSubs \in Nat /\ Made \subseteq Nat
  BY FiniteSubs, SubmissionsAssumption DEF Made, Subs
<1>1. CASE \E c \in SubCalls : Insert(c)
  <2>1. PICK c \in SubCalls : Insert(c)
    BY <1>1
  <2>2. PICK s \in Subs \ Made :
           /\ s = Cardinality(Made) + 1 /\ Stores(s, subject[c].kind) /\ sub'[s].validation = FALSE
           /\ spc'[c] = "ask"
           /\ subject'[c] = [sub |-> s, kind |-> subject[c].kind, file |-> subject[c].file]
    BY <2>1, InsertedRow
  <2>3. Made' = Made \cup {s} /\ Cardinality(Made') = Cardinality(Made) + 1
    BY <2>2, RowAdded
  <2>4. Inserting' = Inserting \ {c} /\ c \in Inserting
    BY <2>1, <2>2, CallMoves DEF Inserting, SubLeft, Insert, CallStep, CreateStep
  <2>5. Cardinality(Inserting') = Cardinality(Inserting) - 1
    BY <1>0, <2>4, FS_RemoveElement
  <2>6. \A t \in Made' : t <= Cardinality(Made')
    BY <1>0, <2>2, <2>3 DEF Numbered
  <2>7. Cardinality(Made') + Cardinality(Inserting') <= MaxSubs
    BY <1>0, <2>3, <2>5 DEF Numbered
  <2>8. QED
    BY <2>6, <2>7 DEF Numbered
<1>2. CASE \E k \in Kinds : UploadValidation(k)
  <2>1. PICK k \in Kinds : UploadValidation(k)
    BY <1>2
  <2>2. PICK s \in Subs \ Made :
           /\ s = Cardinality(Made) + 1 /\ Stores(s, k) /\ sub'[s].validation = TRUE
    BY <2>1, UploadedRow
  <2>3. Made' = Made \cup {s} /\ Cardinality(Made') = Cardinality(Made) + 1
    BY <2>2, RowAdded
  <2>4. Inserting' = Inserting /\ Cardinality(Made) + Cardinality(Inserting) < MaxSubs
    BY <2>1 DEF UploadValidation, callsOfSubs, Inserting
  <2>5. \A t \in Made' : t <= Cardinality(Made')
    BY <1>0, <2>2, <2>3 DEF Numbered
  <2>6. QED
    BY <1>0, <2>3, <2>4, <2>5 DEF Numbered
<1>3. CASE \E c \in SubCalls, k \in Kinds, file \in BOOLEAN : CreateCheck(c, k, file)
  <2>1. PICK c \in SubCalls, k \in Kinds, file \in BOOLEAN : CreateCheck(c, k, file)
    BY <1>3
  <2>2. spc' = [spc EXCEPT ![c] = "insert"] /\ spc[c] = "idle" /\ sub' = sub
        /\ Cardinality(Made) + Cardinality(Inserting) < MaxSubs
    BY <2>1 DEF CreateCheck, SEnter
  <2>3. Inserting' = Inserting \cup {c} /\ c \notin Inserting /\ Made' = Made
    BY <2>2 DEF Inserting, Made, SubShape
  <2>4. Cardinality(Inserting') = Cardinality(Inserting) + 1
    BY <1>0, <2>3, FS_AddElement
  <2>5. QED
    BY <1>0, <2>2, <2>3, <2>4 DEF Numbered
<1>4. ASSUME ~(\E c \in SubCalls : Insert(c)), ~(\E k \in Kinds : UploadValidation(k)),
             ~(\E c \in SubCalls, k \in Kinds, file \in BOOLEAN : CreateCheck(c, k, file))
      PROVE  Numbered'
  <2>1. Made' = Made
    BY <1>4, MadeStays
  <2>2. Inserting' = Inserting
    <3>1. ASSUME NEW c \in SubCalls, CallStep(c) PROVE Inserting' = Inserting
      <4>1. spc[c] # "insert" /\ spc'[c] # "insert"
        BY <1>4, <3>1, CallGoes
      <4>2. QED
        BY <3>1, <4>1, CallMoves DEF Inserting, SubLeft
    <3>2. CASE UNCHANGED spc
      BY <3>2 DEF Inserting
    <3>3. QED
      BY <1>4, <3>1, <3>2, SubCases, OtherKeepsRows DEF ChangeKind, callsOfSubs
  <2>3. QED
    BY <2>1, <2>2 DEF Numbered
<1>5. QED
  BY <1>1, <1>2, <1>3, <1>4

\* What makes a submission is one call.
LEMMA MakingStep ==
  ASSUME SubShape, Numbered, SubMoves,
         \A c, d \in SubCalls : Making(c) /\ Making(d) /\ subject[c].sub = subject[d].sub => c = d
  PROVE  \A c, d \in SubCalls :
           Making(c)' /\ Making(d)' /\ subject'[c].sub = subject'[d].sub => c = d
<1>1. CASE UNCHANGED <<spc, subject>>
  BY <1>1 DEF Making
<1>2. ASSUME NEW c \in SubCalls, CallStep(c)
      PROVE  \A d, e \in SubCalls :
               Making(d)' /\ Making(e)' /\ subject'[d].sub = subject'[e].sub => d = e
  <2>1. \A d \in SubCalls \ {c} : SubLeft(d)
    BY <1>2, CallMoves
  <2>2. CASE Insert(c)
    <3>1. PICK s \in Subs \ Made :
           /\ s = Cardinality(Made) + 1 /\ Stores(s, subject[c].kind) /\ sub'[s].validation = FALSE
           /\ spc'[c] = "ask"
           /\ subject'[c] = [sub |-> s, kind |-> subject[c].kind, file |-> subject[c].file]
      BY <2>2, InsertedRow
    <3>2. \A d \in SubCalls \ {c} : Making(d)' => subject'[d].sub \in Made
      BY <2>1 DEF SubLeft, Making, SubShape, SubjectFits
    <3>3. QED
      BY <2>1, <3>1, <3>2 DEF SubLeft, Making
  <2>3. CASE ~Insert(c)
    <3>1. Making(c)' => Making(c) /\ subject'[c] = subject[c]
      BY <1>2, <2>3, CallGoes DEF Making
    <3>2. QED
      BY <2>1, <3>1 DEF SubLeft, Making
  <2>4. QED
    BY <2>2, <2>3
<1>3. QED
  BY <1>1, <1>2, SubCases, OtherKeepsRows DEF UploadValidation, ChangeKind, callsOfSubs

\* A run deleted while it was active was started after the check.
LEMMA PurgeStep ==
  ASSUME SubShape, PurgeFollows, SubMoves
  PROVE  PurgeFollows'
<1>1. ASSUME NEW c \in SubCalls, Purge(c) PROVE PurgeFollows'
  <2>1. \A d \in SubCalls : spc'[d] = "purge" => spc[d] = "purge" /\ subject'[d] = subject[d]
    <3>1. CallStep(c) /\ spc'[c] # "purge"
      BY <1>1 DEF CallStep, DeleteStep, Purge, SGoto, SLeave, SubShape
    <3>2. QED
      BY <3>1, CallMoves DEF SubLeft
  <2>2. subject[c].sub \in Subs /\ spc[c] = "purge" /\ started' = started
    BY <1>1 DEF Purge, SubShape, SubjectFits, Made
  <2>3. CASE run' = [run EXCEPT ![subject[c].sub] = "none"]
             /\ taken' = IF run[subject[c].sub] = "active" THEN taken \cup {subject[c].sub} ELSE taken
    <3>1. taken' \subseteq started
      BY <2>2, <2>3 DEF PurgeFollows
    <3>2. \A d \in SubCalls : spc'[d] = "purge" => subject[d].sub \in Subs
      BY <2>1 DEF SubShape, SubjectFits, Made
    <3>3. \A s \in Subs : run'[s] = "active" => run[s] = "active"
      BY <2>3 DEF SubShape
    <3>4. QED
      BY <2>1, <2>2, <3>1, <3>2, <3>3 DEF PurgeFollows
  <2>4. CASE UNCHANGED <<run, taken>>
    BY <2>1, <2>2, <2>4 DEF PurgeFollows
  <2>5. QED
    BY <1>1, <2>3, <2>4 DEF Purge
<1>2. ASSUME NEW c \in SubCalls, CallStep(c), ~Purge(c) PROVE PurgeFollows'
  <2>1. UNCHANGED <<run, taken, started>>
    BY <1>2 DEF CallStep, CreateStep, DeleteStep, CreateCheck, Insert, AskScan, Count, AnnounceCreated,
       DeleteRead, DeleteRow, Discount, runRows, subHistory
  <2>2. CASE \E s \in Subs : DeleteRead(c, s)
    <3>1. spc'[c] = "purge" => run[subject'[c].sub] # "active"
      <4>1. PICK s \in Subs : DeleteRead(c, s)
        BY <2>2
      <4>2. run[s] # "active"
        BY <4>1 DEF DeleteRead, Quiet
      <4>3. subject'[c] = [sub |-> s, kind |-> sub[s].kind, file |-> sub[s].file]
        BY <4>1 DEF DeleteRead, SEnter, SubShape
      <4>4. QED
        BY <4>2, <4>3
    <3>2. QED
      BY <1>2, <2>1, <3>1, CallMoves DEF SubLeft, PurgeFollows
  <2>3. CASE ~\E s \in Subs : DeleteRead(c, s)
    <3>1. spc'[c] # "purge"
      BY <1>2, <2>3, CallGoes
    <3>2. QED
      BY <1>2, <2>1, <3>1, CallMoves DEF SubLeft, PurgeFollows
  <2>4. QED
    BY <2>2, <2>3
<1>3. ASSUME NEW s \in Subs, StartRunOf(s) PROVE PurgeFollows'
  <2>1. /\ run' = [run EXCEPT ![s] = "active"] /\ UNCHANGED <<taken, spc, subject>>
        /\ started' = IF \E c \in SubCalls : spc[c] = "purge" /\ subject[c].sub = s
                      THEN started \cup {s} ELSE started
    BY <1>3 DEF StartRunOf, callsOfSubs
  <2>2. \A c \in SubCalls : spc[c] = "purge" => subject[c].sub \in Subs
    BY DEF SubShape, SubjectFits, Made
  <2>3. ASSUME NEW c \in SubCalls, spc[c] = "purge", run'[subject[c].sub] = "active"
        PROVE  subject[c].sub \in started'
    <3>1. CASE subject[c].sub = s
      BY <2>1, <2>3, <3>1
    <3>2. CASE subject[c].sub # s
      BY <2>1, <2>2, <2>3, <3>2 DEF PurgeFollows, SubShape
    <3>3. QED
      BY <3>1, <3>2
  <2>4. taken' \subseteq started'
    BY <2>1 DEF PurgeFollows
  <2>5. QED
    BY <2>1, <2>3, <2>4 DEF PurgeFollows
<1>4. ASSUME NEW s \in Subs, EndRunOf(s) PROVE PurgeFollows'
  <2>1. /\ run' = [run EXCEPT ![s] = "ended"] \/ run' = [run EXCEPT ![s] = "timedOut"]
        /\ UNCHANGED <<taken, started, spc, subject>>
    BY <1>4 DEF EndRunOf, callsOfSubs, subHistory
  <2>2. \A c \in SubCalls : spc[c] = "purge" => subject[c].sub \in Subs
    BY DEF SubShape, SubjectFits, Made
  <2>3. QED
    BY <2>1, <2>2 DEF PurgeFollows, SubShape
<1>5. CASE UNCHANGED <<run, taken, started, spc, subject>>
  BY <1>5 DEF PurgeFollows
<1>6. ASSUME NEW s \in Subs, ScanAnswers(s) \/ ScanLost(s) \/ Age(s)
      PROVE  UNCHANGED <<run, taken, started, spc, subject>>
  BY <1>6 DEF ScanAnswers, ScanLost, Scanned, Age, runRows, callsOfSubs, subHistory
<1>7. CASE RetryStep \/ UNCHANGED <<subRows, failed>>
  BY <1>5, <1>7 DEF RetryStep, StartPass, RetryNext, EndPass, runRows, callsOfSubs, subHistory, subRows
<1>8. QED
  BY <1>1, <1>2, <1>3, <1>4, <1>5, <1>6, <1>7, SubCases DEF OtherStep, UploadValidation, ChangeKind, runRows,
     callsOfSubs, subHistory

LEMMA FiniteCounts ==
  ASSUME NEW k
  PROVE  /\ IsFiniteSet(Counted(k)) /\ Cardinality(Counted(k)) \in Nat
         /\ IsFiniteSet(Discounting(k)) /\ Cardinality(Discounting(k)) \in Nat
<1>1. Counted(k) \subseteq Subs /\ Discounting(k) \subseteq SubCalls
  BY DEF Counted, Ordinary, StoredSubs, Discounting
<1>2. QED
  BY <1>1, FiniteSubs, FS_Subset, FS_CardinalityType, SubmissionsAssumption

\* The steps that neither count nor take back what was counted
LEMMA CountKept ==
  ASSUME CountHolds, RowsKept, counter' = counter,
         \A c \in SubCalls :
           /\ spc'[c] \in {"ask", "count"} <=> spc[c] \in {"ask", "count"}
           /\ spc[c] \in {"ask", "count"} => subject'[c] = subject[c]
           /\ spc'[c] = "discount" <=> spc[c] = "discount"
           /\ spc[c] = "discount" => subject'[c] = subject[c]
           /\ spc'[c] \in {"purge", "remove"} =>
                subject'[c].sub \in Subs /\ sub[subject'[c].sub].kind = subject'[c].kind,
         \A s \in Ordinary \ announced' : \E c \in SubCalls : Making(c)' /\ subject'[c].sub = s
  PROVE  CountHolds'
<1>1. Ordinary' = Ordinary
  BY RowsKeptSets
<1>2. \A s \in Subs : sub'[s].kind = sub[s].kind /\ (Uncounted(s)' <=> Uncounted(s))
  BY DEF RowsKept, RowKept, Uncounted
<1>3. \A k \in Kinds : Counted(k)' = Counted(k) /\ Discounting(k)' = Discounting(k)
  <2> SUFFICES ASSUME NEW k \in Kinds PROVE Counted(k)' = Counted(k) /\ Discounting(k)' = Discounting(k)
    OBVIOUS
  <2>1. Ordinary \subseteq Subs
    BY DEF Ordinary, StoredSubs
  <2>2. Counted(k)' = Counted(k)
    BY <1>1, <1>2, <2>1 DEF Counted
  <2>3. Discounting(k)' = Discounting(k)
    BY DEF Discounting
  <2>4. QED
    BY <2>2, <2>3
<1>4. \A c \in SubCalls : spc'[c] \in {"ask", "count"} =>
        subject'[c].sub \in Ordinary' /\ sub'[subject'[c].sub].kind = subject'[c].kind
  BY <1>1, <1>2 DEF CountHolds, Ordinary, StoredSubs
<1>5. \A c \in SubCalls : spc'[c] \in {"purge", "remove"} => sub'[subject'[c].sub].kind = subject'[c].kind
  BY <1>2
<1>6. QED
  BY <1>1, <1>3, <1>4, <1>5 DEF CountHolds

\* A submission made is neither counted nor announced yet.
LEMMA InsertCount ==
  ASSUME SubShape, Numbered, CountHolds, NEW c \in SubCalls, Insert(c)
  PROVE  CountHolds'
<1>1. PICK s \in Subs \ Made :
         /\ s = Cardinality(Made) + 1 /\ Stores(s, subject[c].kind) /\ sub'[s].validation = FALSE
         /\ spc'[c] = "ask"
         /\ subject'[c] = [sub |-> s, kind |-> subject[c].kind, file |-> subject[c].file]
  BY InsertedRow
<1>2. /\ sub'[s].state = "stored" /\ sub'[s].kind = subject[c].kind /\ ~sub'[s].validation
      /\ Made' = Made \cup {s} /\ \A t \in Subs \ {s} : sub'[t] = sub[t]
  BY <1>1, RowAdded
<1>3. (\A d \in SubCalls \ {c} : SubLeft(d)) /\ spc[c] = "insert" /\ UNCHANGED <<counter, announced>>
  BY CallMoves DEF CallStep, CreateStep, Insert
<1>4. \A d \in SubCalls : spc[d] \notin {"idle", "insert"} => d # c /\ subject[d].sub \in Subs \ {s}
  BY <1>1, <1>3 DEF SubShape, SubjectFits, Made
<1>5. Ordinary' = Ordinary \cup {s} /\ s \notin Ordinary
  BY <1>1, <1>2 DEF Ordinary, StoredSubs, Made
<1>6. Uncounted(s)' /\ \A t \in Subs \ {s} : Uncounted(t)' <=> Uncounted(t)
  BY <1>1, <1>3 DEF Uncounted, SubLeft
<1>7. \A k \in Kinds : Counted(k)' = Counted(k) /\ Discounting(k)' = Discounting(k)
  <2> SUFFICES ASSUME NEW k \in Kinds PROVE Counted(k)' = Counted(k) /\ Discounting(k)' = Discounting(k)
    OBVIOUS
  <2>1. Ordinary \subseteq Subs
    BY DEF Ordinary, StoredSubs
  <2>2. Counted(k)' = Counted(k)
    BY <1>2, <1>5, <1>6, <2>1 DEF Counted
  <2>3. Discounting(k)' = Discounting(k)
    BY <1>1, <1>3 DEF Discounting, SubLeft
  <2>4. QED
    BY <2>2, <2>3
<1>8. ASSUME NEW d \in SubCalls
      PROVE  /\ spc'[d] \in {"ask", "count"} =>
                  subject'[d].sub \in Ordinary' /\ sub'[subject'[d].sub].kind = subject'[d].kind
             /\ spc'[d] \in {"purge", "remove"} => sub'[subject'[d].sub].kind = subject'[d].kind
  <2>1. CASE d = c
    BY <1>1, <1>2, <1>5, <2>1
  <2>2. CASE d # c
    BY <1>2, <1>3, <1>4, <1>5, <2>2 DEF SubLeft, CountHolds
  <2>3. QED
    BY <2>1, <2>2
<1>9. ASSUME NEW t \in Ordinary' \ announced' PROVE \E d \in SubCalls : Making(d)' /\ subject'[d].sub = t
  <2>1. CASE t = s
    BY <1>1, <2>1 DEF Making
  <2>2. CASE t # s
    <3>1. PICK d \in SubCalls : Making(d) /\ subject[d].sub = t
      BY <1>3, <1>5, <1>9, <2>2 DEF CountHolds
    <3>2. QED
      BY <1>3, <3>1 DEF Making, SubLeft
  <2>3. QED
    BY <2>1, <2>2
<1>10. QED
  BY <1>3, <1>7, <1>8, <1>9 DEF CountHolds

\* An upload for validation is not counted.
LEMMA UploadCount ==
  ASSUME SubShape, Numbered, CountHolds, NEW k \in Kinds, UploadValidation(k)
  PROVE  CountHolds'
<1>1. PICK s \in Subs \ Made :
         /\ s = Cardinality(Made) + 1 /\ Stores(s, k) /\ sub'[s].validation = TRUE
  BY UploadedRow
<1>2. /\ sub'[s].state = "stored" /\ sub'[s].kind = k /\ sub'[s].validation
      /\ Made' = Made \cup {s} /\ \A t \in Subs \ {s} : sub'[t] = sub[t]
  BY <1>1, RowAdded
<1>3. UNCHANGED <<spc, subject, counter, announced>>
  BY DEF UploadValidation, callsOfSubs
<1>4. \A d \in SubCalls : spc[d] \notin {"idle", "insert"} => subject[d].sub \in Subs \ {s}
  BY DEF SubShape, SubjectFits, Made
<1>5. Ordinary' = Ordinary /\ s \notin Ordinary
  BY <1>1, <1>2 DEF Ordinary, StoredSubs, Made
<1>6. \A t \in Subs : Uncounted(t)' <=> Uncounted(t)
  BY <1>3 DEF Uncounted
<1>7. \A j \in Kinds : Counted(j)' = Counted(j) /\ Discounting(j)' = Discounting(j)
  <2> SUFFICES ASSUME NEW j \in Kinds PROVE Counted(j)' = Counted(j) /\ Discounting(j)' = Discounting(j)
    OBVIOUS
  <2>1. Ordinary \subseteq Subs
    BY DEF Ordinary, StoredSubs
  <2>2. Counted(j)' = Counted(j)
    BY <1>2, <1>5, <1>6, <2>1 DEF Counted
  <2>3. QED
    BY <1>3, <2>2 DEF Discounting
<1>8. QED
  BY <1>2, <1>3, <1>4, <1>5, <1>7 DEF CountHolds, Making

\* The counter is raised.
LEMMA CountedOne ==
  ASSUME SubShape, CountHolds, NEW c \in SubCalls, Count(c), ~failed',
         \A d, e \in SubCalls : Making(d) /\ Making(e) /\ subject[d].sub = subject[e].sub => d = e
  PROVE  CountHolds'
<1>0. spc[c] = "count" /\ subject[c].kind \in Kinds /\ subject[c].sub \in Subs
  BY DEF Count, SubShape, SubjectFits, CountHolds, Ordinary, StoredSubs
<1> PICK k \in Kinds, s \in Subs : k = subject[c].kind /\ s = subject[c].sub
  BY <1>0
<1>1. /\ spc[c] = "count" /\ spc'[c] = "announce" /\ subject'[c] = subject[c] /\ sub' = sub
      /\ UNCHANGED announced /\ counter' = [counter EXCEPT ![k] = @ + 1]
  BY DEF Count, SMishap, SGoto, SubShape
<1>2. \A d \in SubCalls \ {c} : SubLeft(d)
  BY CallMoves DEF CallStep, CreateStep
<1>3. k \in Kinds /\ s \in Ordinary /\ sub[s].kind = k /\ s \in Subs
  BY <1>1 DEF SubShape, SubjectFits, CountHolds, Ordinary, StoredSubs
<1>4. Uncounted(s) /\ ~Uncounted(s)' /\ \A t \in Subs \ {s} : Uncounted(t)' <=> Uncounted(t)
  <2>1. Uncounted(s)
    BY <1>1 DEF Uncounted
  <2>2. \A d \in SubCalls \ {c} : spc[d] \in {"ask", "count"} => subject[d].sub # s
    BY <1>1 DEF Making
  <2>3. ~Uncounted(s)'
    BY <1>1, <1>2, <2>2 DEF Uncounted, SubLeft
  <2>4. QED
    BY <1>1, <1>2, <2>1, <2>3 DEF Uncounted, SubLeft
<1>5. Ordinary' = Ordinary
  BY <1>1 DEF Ordinary, StoredSubs
<1>6. Counted(k)' = Counted(k) \cup {s} /\ s \notin Counted(k)
  <2>1. Ordinary \subseteq Subs
    BY DEF Ordinary, StoredSubs
  <2>2. QED
    BY <1>1, <1>3, <1>4, <1>5, <2>1 DEF Counted
<1>7. \A j \in Kinds \ {k} : Counted(j)' = Counted(j)
  <2> SUFFICES ASSUME NEW j \in Kinds \ {k} PROVE Counted(j)' = Counted(j)
    OBVIOUS
  <2>1. Ordinary \subseteq Subs
    BY DEF Ordinary, StoredSubs
  <2>2. QED
    BY <1>1, <1>3, <1>4, <1>5, <2>1 DEF Counted
<1>8. \A j \in Kinds : Discounting(j)' = Discounting(j)
  BY <1>1, <1>2 DEF Discounting, SubLeft
<1>9. \A j \in Kinds : counter'[j] = Cardinality(Counted(j)') + Cardinality(Discounting(j)')
  <2>0. \A j \in Kinds : /\ counter[j] = Cardinality(Counted(j)) + Cardinality(Discounting(j))
                          /\ counter[j] \in Nat
    BY DEF CountHolds, SubShape
  <2>1. counter'[k] = Cardinality(Counted(k)') + Cardinality(Discounting(k)')
    <3>1. Cardinality(Counted(k)') = Cardinality(Counted(k)) + 1
      BY <1>6, FiniteCounts, FS_AddElement
    <3>2. counter'[k] = counter[k] + 1
      BY <1>1, <1>3 DEF SubShape
    <3>3. QED
      BY <1>3, <1>8, <2>0, <3>1, <3>2, FiniteCounts
  <2>2. ASSUME NEW j \in Kinds \ {k}
        PROVE  counter'[j] = Cardinality(Counted(j)') + Cardinality(Discounting(j)')
    BY <1>1, <1>7, <1>8, <2>0 DEF SubShape
  <2>3. QED
    BY <2>1, <2>2
<1>10. \A d \in SubCalls : Making(d) => Making(d)' /\ subject'[d] = subject[d]
  BY <1>1, <1>2 DEF Making, SubLeft
<1>11. \A t \in Ordinary' \ announced' : \E d \in SubCalls : Making(d)' /\ subject'[d].sub = t
  BY <1>1, <1>5, <1>10 DEF CountHolds
<1>12. \A d \in SubCalls :
         /\ spc'[d] \in {"ask", "count"} =>
              subject'[d].sub \in Ordinary' /\ sub'[subject'[d].sub].kind = subject'[d].kind
         /\ spc'[d] \in {"purge", "remove"} => sub'[subject'[d].sub].kind = subject'[d].kind
  BY <1>1, <1>2, <1>5 DEF CountHolds, SubLeft
<1>13. QED
  BY <1>9, <1>11, <1>12 DEF CountHolds

\* A submission that was counted is deleted; it is counted until the counter is lowered.
LEMMA DeletedOne ==
  ASSUME SubShape, CountHolds, NEW c \in SubCalls, DeleteRow(c), Deletable(subject[c].sub), ~untold',
         spc'[c] = "discount", subject'[c] = subject[c]
  PROVE  CountHolds'
<1>0. spc[c] = "remove" /\ subject[c].kind \in Kinds /\ subject[c].sub \in Subs
  BY DEF DeleteRow, Deletable, StoredSubs, SubShape, SubjectFits
<1> PICK k \in Kinds, s \in Subs : k = subject[c].kind /\ s = subject[c].sub
  BY <1>0
<1>1. /\ spc[c] = "remove" /\ s \in StoredSubs /\ s \in Subs /\ UNCHANGED <<counter, announced>>
      /\ sub' = [sub EXCEPT ![s].state = "gone"] /\ ~sub[s].validation /\ ~Uncounted(s)
  <2>1. spc[c] = "remove" /\ s \in StoredSubs /\ s \in Subs /\ UNCHANGED <<counter, announced>>
    BY DEF DeleteRow, Deletable, StoredSubs
  <2>2. /\ sub' = [sub EXCEPT ![s].state = "gone"]
        /\ untold' = (untold \/ sub[s].validation \/ Uncounted(s))
    BY DEF DeleteRow
  <2>3. QED
    BY <2>1, <2>2
<1>2. /\ \A t \in Subs \ {s} : sub'[t] = sub[t]
      /\ sub'[s].state = "gone" /\ sub'[s].kind = sub[s].kind
  BY <1>1, RowChanged
<1>3. \A d \in SubCalls \ {c} : SubLeft(d)
  BY CallMoves DEF CallStep, DeleteStep
<1>4. k \in Kinds /\ sub[s].kind = k
  BY <1>1 DEF SubShape, SubjectFits, CountHolds
<1>5. Ordinary' = Ordinary \ {s} /\ s \in Ordinary
  BY <1>1, <1>2 DEF Ordinary, StoredSubs
<1>6. \A t \in Subs : Uncounted(t)' <=> Uncounted(t)
  BY <1>1, <1>3 DEF Uncounted, SubLeft
<1>7. Ordinary \subseteq Subs
  BY DEF Ordinary, StoredSubs
<1>8. Counted(k)' = Counted(k) \ {s} /\ s \in Counted(k)
  BY <1>1, <1>2, <1>4, <1>5, <1>6, <1>7 DEF Counted
<1>9. Discounting(k)' = Discounting(k) \cup {c} /\ c \notin Discounting(k)
  BY <1>1, <1>3 DEF Discounting, SubLeft
<1>10. ASSUME NEW j \in Kinds \ {k} PROVE Counted(j)' = Counted(j) /\ Discounting(j)' = Discounting(j)
  <2>1. Counted(j)' = Counted(j)
    BY <1>1, <1>2, <1>4, <1>5, <1>6, <1>7 DEF Counted
  <2>2. Discounting(j)' = Discounting(j)
    BY <1>1, <1>3 DEF Discounting, SubLeft
  <2>3. QED
    BY <2>1, <2>2
<1>11. \A j \in Kinds : counter'[j] = Cardinality(Counted(j)') + Cardinality(Discounting(j)')
  <2>0. \A j \in Kinds : counter[j] = Cardinality(Counted(j)) + Cardinality(Discounting(j))
    BY DEF CountHolds
  <2>1. counter'[k] = Cardinality(Counted(k)') + Cardinality(Discounting(k)')
    <3>1. Cardinality(Counted(k)') = Cardinality(Counted(k)) - 1
      <4>1. IsFiniteSet(Counted(k))
        BY FiniteCounts
      <4>2. Cardinality(Counted(k) \ {s}) = Cardinality(Counted(k)) - 1
        BY <1>8, <4>1, FS_RemoveElement
      <4>3. QED
        BY <1>8, <4>2
    <3>2. Cardinality(Discounting(k)') = Cardinality(Discounting(k)) + 1
      BY <1>9, FiniteCounts, FS_AddElement
    <3>3. QED
      BY <1>1, <1>4, <2>0, <3>1, <3>2, FiniteCounts
  <2>2. ASSUME NEW j \in Kinds \ {k}
        PROVE  counter'[j] = Cardinality(Counted(j)') + Cardinality(Discounting(j)')
    BY <1>1, <1>10, <2>0
  <2>3. QED
    BY <2>1, <2>2
<1>12. \A d \in SubCalls : Making(d) => Making(d)' /\ subject'[d] = subject[d]
  BY <1>1, <1>3 DEF Making, SubLeft
<1>13. \A t \in Ordinary' \ announced' : \E d \in SubCalls : Making(d)' /\ subject'[d].sub = t
  BY <1>1, <1>5, <1>12 DEF CountHolds
<1>14. ASSUME NEW d \in SubCalls
       PROVE  /\ spc'[d] \in {"ask", "count"} =>
                   subject'[d].sub \in Ordinary' /\ sub'[subject'[d].sub].kind = subject'[d].kind
              /\ spc'[d] \in {"purge", "remove"} => sub'[subject'[d].sub].kind = subject'[d].kind
  <2>1. CASE d = c
    BY <2>1
  <2>2. CASE d # c
    <3>1. spc'[d] = spc[d] /\ subject'[d] = subject[d]
      BY <1>3, <2>2 DEF SubLeft
    <3>2. spc[d] \in {"ask", "count"} => subject[d].sub # s
      BY <1>1 DEF Uncounted
    <3>3. spc[d] \in {"purge", "remove"} => subject[d].sub \in Subs
      BY DEF SubShape, SubjectFits, Made
    <3>4. QED
      BY <1>2, <1>5, <1>7, <3>1, <3>2, <3>3 DEF CountHolds
  <2>3. QED
    BY <2>1, <2>2
<1>15. QED
  BY <1>11, <1>13, <1>14 DEF CountHolds

\* The counter is lowered, which is not zero.
LEMMA DiscountedOne ==
  ASSUME SubShape, CountHolds, NEW c \in SubCalls, Discount(c), ~failed'
  PROVE  CountHolds'
<1>0. spc[c] = "discount" /\ subject[c].kind \in Kinds
  BY DEF Discount, SubShape, SubjectFits
<1> PICK k \in Kinds : k = subject[c].kind
  BY <1>0
<1>1. /\ spc[c] = "discount" /\ spc'[c] = "idle" /\ sub' = sub /\ UNCHANGED announced
      /\ counter' = [counter EXCEPT ![k] = IF @ = 0 THEN 0 ELSE @ - 1]
  BY DEF Discount, SMishap, SLeave, SubShape
<1>2. \A d \in SubCalls \ {c} : SubLeft(d)
  BY CallMoves DEF CallStep, DeleteStep
<1>3. k \in Kinds
  BY <1>1 DEF SubShape, SubjectFits
<1>4. Ordinary' = Ordinary /\ \A t \in Subs : Uncounted(t)' <=> Uncounted(t)
  BY <1>1, <1>2 DEF Ordinary, StoredSubs, Uncounted, SubLeft
<1>5. ASSUME NEW j \in Kinds PROVE Counted(j)' = Counted(j)
  <2>1. Ordinary \subseteq Subs
    BY DEF Ordinary, StoredSubs
  <2>2. QED
    BY <1>1, <1>4, <2>1 DEF Counted
<1>6. Discounting(k)' = Discounting(k) \ {c} /\ c \in Discounting(k)
  BY <1>1, <1>2 DEF Discounting, SubLeft
<1>7. ASSUME NEW j \in Kinds \ {k} PROVE Discounting(j)' = Discounting(j)
  BY <1>1, <1>2 DEF Discounting, SubLeft
<1>8. \A j \in Kinds : counter'[j] = Cardinality(Counted(j)') + Cardinality(Discounting(j)')
  <2>0. \A j \in Kinds : /\ counter[j] = Cardinality(Counted(j)) + Cardinality(Discounting(j))
                          /\ counter[j] \in Nat
    BY DEF CountHolds, SubShape
  <2>1. counter'[k] = Cardinality(Counted(k)') + Cardinality(Discounting(k)')
    <3>1. Cardinality(Discounting(k)') = Cardinality(Discounting(k)) - 1
      BY <1>6, FiniteCounts, FS_RemoveElement
    <3>2. Cardinality(Discounting(k)') \in Nat
      BY <1>6, FiniteCounts, FS_RemoveElement, FS_CardinalityType
    <3>3. counter'[k] = IF counter[k] = 0 THEN 0 ELSE counter[k] - 1
      BY <1>1, <1>3 DEF SubShape
    <3>4. Cardinality(Counted(k)') = Cardinality(Counted(k))
      BY <1>3, <1>5
    <3>5. QED
      BY <1>3, <2>0, <3>1, <3>2, <3>3, <3>4, FiniteCounts
  <2>2. ASSUME NEW j \in Kinds \ {k}
        PROVE  counter'[j] = Cardinality(Counted(j)') + Cardinality(Discounting(j)')
    BY <1>1, <1>5, <1>7, <2>0 DEF SubShape
  <2>3. QED
    BY <2>1, <2>2
<1>9. \A d \in SubCalls : Making(d) => Making(d)' /\ subject'[d] = subject[d]
  BY <1>1, <1>2 DEF Making, SubLeft
<1>10. \A t \in Ordinary' \ announced' : \E d \in SubCalls : Making(d)' /\ subject'[d].sub = t
  BY <1>1, <1>4, <1>9 DEF CountHolds
<1>11. \A d \in SubCalls :
         /\ spc'[d] \in {"ask", "count"} =>
              subject'[d].sub \in Ordinary' /\ sub'[subject'[d].sub].kind = subject'[d].kind
         /\ spc'[d] \in {"purge", "remove"} => sub'[subject'[d].sub].kind = subject'[d].kind
  BY <1>1, <1>2, <1>4 DEF CountHolds, SubLeft
<1>12. QED
  BY <1>8, <1>10, <1>11 DEF CountHolds

LEMMA CountStep ==
  ASSUME SubsIInv, SubMoves, ~failed', ~untold'
  PROVE  CountHolds'
<1>0. SubShape /\ Numbered /\ ~failed /\ ~untold /\ CountHolds
  BY FailedStays DEF SubsIInv
<1>1. \A d \in SubCalls : spc[d] \in {"purge", "remove"} =>
        subject[d].sub \in Subs /\ sub[subject[d].sub].kind = subject[d].kind
  BY <1>0 DEF SubShape, SubjectFits, Made, CountHolds
<1>2. \A t \in Ordinary \ announced : \E d \in SubCalls : Making(d) /\ subject[d].sub = t
  BY <1>0 DEF CountHolds
<1>3. CASE OtherStep
  <2>1. RowsKept /\ UNCHANGED <<counter, announced, spc, subject>>
    BY <1>0, <1>3, OtherKeepsRows
  <2>2. \A t \in Ordinary \ announced' : \E d \in SubCalls : Making(d)' /\ subject'[d].sub = t
    BY <1>2, <2>1 DEF Making
  <2>3. QED
    BY <1>0, <1>1, <2>1, <2>2, CountKept
<1>4. CASE \E k \in Kinds : UploadValidation(k)
  BY <1>0, <1>4, UploadCount
<1>5. ASSUME NEW c \in SubCalls, CallStep(c) PROVE CountHolds'
  <2>0. \A d \in SubCalls \ {c} : spc'[d] = spc[d] /\ subject'[d] = subject[d]
    BY <1>0, <1>5, CallMoves DEF SubLeft
  <2>1. CASE Insert(c)
    BY <1>0, <2>1, InsertCount
  <2>2. CASE Count(c)
    BY <1>0, <2>2, CountedOne DEF SubsIInv
  <2>3. CASE Discount(c)
    BY <1>0, <2>3, DiscountedOne
  <2>4. CASE DeleteRow(c) /\ Deletable(subject[c].sub) /\ spc'[c] = "discount" /\ subject'[c] = subject[c]
    BY <1>0, <2>4, DeletedOne
  <2>5. CASE /\ ~Insert(c) /\ ~Count(c) /\ ~Discount(c)
             /\ ~(DeleteRow(c) /\ Deletable(subject[c].sub) /\ spc'[c] = "discount" /\ subject'[c] = subject[c])
    <3>1. /\ spc'[c] \in {"ask", "count"} <=> spc[c] \in {"ask", "count"}
          /\ spc[c] \in {"ask", "count"} => subject'[c] = subject[c]
          /\ spc'[c] # "discount" /\ spc[c] # "discount"
          /\ Making(c) /\ ~AnnounceCreated(c) => Making(c)' /\ subject'[c] = subject[c]
      BY <1>0, <1>5, <2>5, CallGoes DEF Making
    <3>2. sub' = sub /\ counter' = counter
      <4>1. CASE DeleteRow(c)
        <5>1. sub' = sub
          BY <1>0, <1>5, <2>5, <4>1, CallGoes DEF DeleteRow, CallStep
        <5>2. QED
          BY <4>1, <5>1 DEF DeleteRow
      <4>2. CASE ~DeleteRow(c)
        BY <1>5, <2>5, <4>2 DEF CallStep, CreateStep, DeleteStep, CreateCheck, AskScan, AnnounceCreated,
           DeleteRead, Purge
      <4>3. QED
        BY <4>1, <4>2
    <3>3. RowsKept
      BY <1>0, <3>2, RowsUnchanged
    <3>4. spc'[c] \in {"purge", "remove"} =>
            subject'[c].sub \in Subs /\ sub[subject'[c].sub].kind = subject'[c].kind
      BY <1>0, <1>1, <1>5, <2>5, CallGoes
    <3>5. announced' = IF AnnounceCreated(c) THEN announced \cup {subject[c].sub} ELSE announced
      <4>1. CASE AnnounceCreated(c)
        BY <1>0, <4>1 DEF AnnounceCreated, SMishap
      <4>2. CASE ~AnnounceCreated(c)
        BY <1>5, <2>5, <4>2 DEF CallStep, CreateStep, DeleteStep, CreateCheck, AskScan, DeleteRead, Purge,
           DeleteRow
      <4>3. QED
        BY <4>1, <4>2
    <3>6. ASSUME NEW t \in Ordinary \ announced' PROVE \E d \in SubCalls : Making(d)' /\ subject'[d].sub = t
      <4>1. t \notin announced /\ (AnnounceCreated(c) => t # subject[c].sub)
        BY <3>5, <3>6
      <4>2. PICK d \in SubCalls : Making(d) /\ subject[d].sub = t
        BY <1>2, <3>6, <4>1
      <4>3. CASE d = c
        BY <3>1, <4>1, <4>2, <4>3
      <4>4. CASE d # c
        BY <2>0, <4>2, <4>4 DEF Making
      <4>5. QED
        BY <4>3, <4>4
    <3>7. \A d \in SubCalls :
           /\ spc'[d] \in {"ask", "count"} <=> spc[d] \in {"ask", "count"}
           /\ spc[d] \in {"ask", "count"} => subject'[d] = subject[d]
           /\ spc'[d] = "discount" <=> spc[d] = "discount"
           /\ spc[d] = "discount" => subject'[d] = subject[d]
           /\ spc'[d] \in {"purge", "remove"} =>
                subject'[d].sub \in Subs /\ sub[subject'[d].sub].kind = subject'[d].kind
      BY <1>1, <2>0, <3>1, <3>4
    <3>8. QED
      BY <1>0, <3>2, <3>3, <3>6, <3>7, CountKept
  <2>6. QED
    BY <2>1, <2>2, <2>3, <2>4, <2>5
<1>6. QED
  BY <1>0, <1>3, <1>4, <1>5, SubCases, FailedStays

LEMMA SubsStep == SubsIInv /\ [SubmissionsNext]_submissionsVars => SubsIInv'
<1> SUFFICES ASSUME SubsIInv, [SubmissionsNext]_submissionsVars PROVE SubsIInv'
  OBVIOUS
<1>1. SubMoves
  BY DEF SubmissionsNext, submissionsVars, subVars, SubMoves
<1>2. SubShape' /\ Numbered' /\ PurgeFollows'
  BY <1>1, SubShapeStep, NumberedStep, PurgeStep DEF SubsIInv
<1>3. \A c, d \in SubCalls : Making(c)' /\ Making(d)' /\ subject'[c].sub = subject'[d].sub => c = d
  BY <1>1, MakingStep DEF SubsIInv
<1>4. ~failed' /\ ~untold' => CountHolds'
  BY <1>1, CountStep
<1>5. QED
  BY <1>2, <1>3, <1>4 DEF SubsIInv

LEMMA SubsInitIInv ==
  ASSUME SubmissionsInit
  PROVE  SubsIInv
<1> PICK b \in SumStarts : Given(b.given, b.file) /\ failed = FALSE
  BY DEF SubmissionsInit
<1> PICK k \in Kinds : k = CHOOSE kind \in Kinds : TRUE
  BY SubmissionsAssumption
<1>0. b.given \in 0..MaxSubs /\ MaxSubs \in Nat
  BY SummationsAssumption, SubmissionsAssumption
<1>1. /\ sub = [s \in Subs |-> IF s <= b.given THEN NewRow(k, b.file) ELSE Blank]
      /\ counter = [kind \in Kinds |-> IF kind = k THEN b.given ELSE 0]
      /\ spc = [c \in SubCalls |-> "idle"] /\ announced = 1..b.given
      /\ run = [s \in Subs |-> "none"] /\ subject = [c \in SubCalls |-> Nobody]
      /\ taken = {} /\ untold = FALSE
  BY DEF Given
<1>2. RowParts(Blank) /\ Blank.state = "none"
  BY DEF RowParts, Blank
<1>3. /\ RowParts(NewRow(k, b.file)) /\ NewRow(k, b.file).state = "stored"
      /\ NewRow(k, b.file).kind = k /\ NewRow(k, b.file).validation = FALSE
  BY NewRowParts DEF NewRow
<1>4. Made = 1..b.given /\ Ordinary = 1..b.given /\ \A s \in 1..b.given : s \in Subs /\ sub[s].kind = k
  BY <1>0, <1>1, <1>2, <1>3 DEF Made, Ordinary, StoredSubs, Subs
<1>5. Cardinality(1..b.given) = b.given
  BY <1>0, FS_Interval
<1>6. SubShape
  <2>1. \A s \in Subs : RowParts(sub[s])
    BY <1>1, <1>2, <1>3
  <2>2. counter \in [Kinds -> Nat]
    BY <1>0, <1>1
  <2>3. QED
    BY <1>1, <1>4, <2>1, <2>2 DEF SubShape, CallStates
<1>7. Numbered
  <2>1. Inserting = {}
    BY <1>1 DEF Inserting
  <2>2. QED
    BY <1>0, <1>4, <1>5, <2>1, FS_EmptySet DEF Numbered
<1>8. CountHolds
  <2>1. ASSUME NEW j \in Kinds
        PROVE  Discounting(j) = {} /\ Counted(j) = (IF j = k THEN 1..b.given ELSE {})
    BY <1>1, <1>4 DEF Discounting, Counted, Uncounted
  <2>2. ASSUME NEW j \in Kinds PROVE counter[j] = Cardinality(Counted(j)) + Cardinality(Discounting(j))
    <3>1. Cardinality(Discounting(j)) = 0
      BY <2>1, FS_EmptySet
    <3>2. CASE j = k
      <4>1. Cardinality(Counted(j)) = b.given /\ counter[j] = b.given
        BY <1>1, <1>5, <2>1, <3>2
      <4>2. QED
        BY <1>0, <3>1, <4>1
    <3>3. CASE j # k
      <4>1. Counted(j) = {} /\ counter[j] = 0
        BY <1>1, <2>1, <3>3
      <4>2. QED
        BY <3>1, <4>1, FS_EmptySet
    <3>4. QED
      BY <3>2, <3>3
  <2>3. QED
    BY <1>1, <1>4, <2>2 DEF CountHolds
<1>9. QED
  BY <1>1, <1>6, <1>7, <1>8 DEF SubsIInv, PurgeFollows, Making

LEMMA SubmissionsInvariance == SubmissionsSpec => []SubsIInv
  BY SubsInitIInv, SubsStep, PTL DEF SubmissionsSpec

\* In every state SubmissionService reaches, with any submissions and calls,
\* whatever the scanner, the workflow runs and the summations do: between calls
\* the challenge's counters are the numbers of its submissions, and each is
\* announced, but for calls that failed and what was deleted uncounted.
THEOREM CountersAreRight == SubmissionsSpec => []CountersFollow
<1>1. SubsIInv => CountersFollow
  <2> SUFFICES ASSUME SubsIInv, \A c \in SubCalls : spc[c] = "idle", ~failed, ~untold
               PROVE  /\ \A k \in Kinds : counter[k] = Cardinality({s \in Ordinary : sub[s].kind = k})
                      /\ Ordinary \subseteq announced
    BY DEF CountersFollow, Ordinary
  <2>1. CountHolds
    BY DEF SubsIInv
  <2>2. ASSUME NEW k \in Kinds PROVE counter[k] = Cardinality({s \in Ordinary : sub[s].kind = k})
    <3>1. Discounting(k) = {} /\ Counted(k) = {s \in Ordinary : sub[s].kind = k}
      BY DEF Discounting, Counted, Uncounted
    <3>2. counter[k] = Cardinality(Counted(k)) + 0
      BY <2>1, <3>1, FS_EmptySet DEF CountHolds
    <3>3. QED
      BY <3>1, <3>2, FiniteCounts
  <2>3. QED
    BY <2>1, <2>2 DEF CountHolds, Making
<1>2. QED
  BY <1>1, SubmissionsInvariance, PTL

\* However a deletion and the starts of runs interleave: the purge takes an
\* active run only if it was started after deleteSubmission had checked.
THEOREM ActiveRunsAreKept == SubmissionsSpec => []ActiveRunsStay
<1>1. SubsIInv => ActiveRunsStay
  BY DEF SubsIInv, PurgeFollows, ActiveRunsStay
<1>2. QED
  BY <1>1, SubmissionsInvariance, PTL

-----------------------------------------------------------------------------
(* Summations                                                              *)

OneEach(S) == \A x, y \in S : x.sub = y.sub => x = y

\* What a generation that is about to write has read of its submissions is all
\* there is, as long as no other one is under way.
SumIInv ==
    /\ gpc \in [Gens -> {"idle", "read", "write"}]
    /\ stage = [g \in Gens |-> stage[g]] /\ readSubs = [g \in Gens |-> readSubs[g]]
    /\ readScores = [g \in Gens |-> readScores[g]] /\ readRows = [g \in Gens |-> readRows[g]]
    /\ overlapped \in BOOLEAN /\ byHand \in BOOLEAN
    /\ ~overlapped => \A g, h \in Gens : gpc[g] # "idle" /\ gpc[h] # "idle" => g = h
    /\ ~overlapped /\ ~byHand =>
         /\ OneEach(summation)
         /\ \A g \in Gens : gpc[g] = "write" =>
              /\ OneEach(readRows[g])
              /\ \A x \in summation : x.sub \in readSubs[g] => x \in readRows[g]

LEMMA SumInitIInv ==
  ASSUME SubmissionsInit
  PROVE  SumIInv
BY DEF SubmissionsInit, SumInit, SumIInv, OneEach

\* The rows only become fewer.
LEMMA FewerSums ==
  ASSUME SumIInv, UNCHANGED <<genVars, overlapped, byHand>>, summation' \subseteq summation
  PROVE  SumIInv'
BY DEF SumIInv, OneEach, genVars

LEMMA GenerateStartStep ==
  ASSUME SumIInv, NEW g \in Gens, NEW st \in Stages, GenerateStart(g, st)
  PROVE  SumIInv'
<1>1. /\ gpc[g] = "idle" /\ gpc' = [gpc EXCEPT ![g] = "read"]
      /\ stage' = [stage EXCEPT ![g] = st] /\ readSubs' = [readSubs EXCEPT ![g] = StoredSubs]
      /\ UNCHANGED <<summation, readScores, readRows, byHand>>
  BY DEF GenerateStart
<1>2. overlapped' = (overlapped \/ \E h \in Gens : gpc[h] # "idle")
  BY DEF GenerateStart
<1>3. ~overlapped' => ~overlapped /\ \A h \in Gens \ {g} : gpc'[h] = "idle"
  BY <1>1, <1>2 DEF SumIInv
<1>4. overlapped' \in BOOLEAN
  BY <1>2 DEF SumIInv
<1>5. \A h \in Gens : gpc'[h] = "write" => gpc[h] = "write" /\ readSubs'[h] = readSubs[h]
  BY <1>1 DEF SumIInv
<1>6. QED
  BY <1>1, <1>3, <1>4, <1>5 DEF SumIInv

\* A generation that is over leaves no other, unless some overlapped.
LEMMA GenerationLeaves ==
  ASSUME SumIInv, NEW g \in Gens, gpc[g] # "idle", GLeave(g), UNCHANGED <<overlapped, byHand>>,
         ~overlapped /\ ~byHand => OneEach(summation')
  PROVE  SumIInv'
<1>1. /\ gpc' = [gpc EXCEPT ![g] = "idle"]
      /\ stage' = [stage EXCEPT ![g] = "INITIAL"] /\ readSubs' = [readSubs EXCEPT ![g] = {}]
      /\ readScores' = [readScores EXCEPT ![g] = NoReviews] /\ readRows' = [readRows EXCEPT ![g] = {}]
  BY DEF GLeave
<1>2. ~overlapped => \A h \in Gens : gpc'[h] = "idle"
  BY <1>1 DEF SumIInv
<1>3. QED
  BY <1>1, <1>2 DEF SumIInv

LEMMA GenerateReadStep ==
  ASSUME SumIInv, NEW g \in Gens, GenerateRead(g)
  PROVE  SumIInv'
<1>1. gpc[g] = "read" /\ UNCHANGED <<summation, overlapped, byHand>>
  BY DEF GenerateRead
<1>2. CASE GLeave(g)
  BY <1>1, <1>2, GenerationLeaves DEF SumIInv
<1>3. CASE ~GLeave(g)
  <2>1. /\ gpc' = [gpc EXCEPT ![g] = "write"] /\ UNCHANGED <<stage, readSubs>>
        /\ readRows' = [readRows EXCEPT ![g] = {x \in summation : x.sub \in readSubs[g]}]
        /\ \E seen : readScores' = [readScores EXCEPT ![g] = seen]
    BY <1>3 DEF GenerateRead
  <2>2. readRows'[g] = {x \in summation : x.sub \in readSubs[g]}
    BY <2>1 DEF SumIInv
  <2>3. \A h \in Gens \ {g} : gpc'[h] = gpc[h] /\ readRows'[h] = readRows[h]
    BY <2>1 DEF SumIInv
  <2>4. ~overlapped /\ ~byHand =>
         \A h \in Gens : gpc'[h] = "write" =>
              /\ OneEach(readRows'[h])
              /\ \A x \in summation : x.sub \in readSubs[h] => x \in readRows'[h]
    BY <2>2, <2>3 DEF SumIInv, OneEach
  <2>5. ~overlapped => \A h, k \in Gens : gpc'[h] # "idle" /\ gpc'[k] # "idle" => h = k
    BY <1>1, <2>1 DEF SumIInv
  <2>6. QED
    BY <1>1, <2>1, <2>4, <2>5 DEF SumIInv
<1>4. QED
  BY <1>2, <1>3

\* A generation replaces the row of each of its submissions, or makes its first.
LEMMA GenerateWriteStep ==
  ASSUME SumIInv, NEW g \in Gens, GenerateWrite(g)
  PROVE  SumIInv'
<1>1. PICK target :
        /\ \A s \in Ready(g) :
             IF Existing(g, s) = {} THEN target[s] = NewId(g, s)
             ELSE \E x \in Existing(g, s) : target[s] = x.id
        /\ summation' = {x \in summation : \A s \in Ready(g) : x.id # target[s]}
                           \cup {Computed(g, s, target[s]) : s \in Ready(g)}
  BY DEF GenerateWrite
<1>2. gpc[g] = "write" /\ GLeave(g) /\ UNCHANGED <<overlapped, byHand>>
  BY DEF GenerateWrite
<1>3. \A s \in Ready(g) : s \in readSubs[g] /\ Computed(g, s, target[s]).sub = s
  BY DEF Ready, Computed
<1>4. ASSUME ~overlapped, ~byHand PROVE OneEach(summation')
  <2>1. /\ OneEach(summation) /\ OneEach(readRows[g])
        /\ \A x \in summation : x.sub \in readSubs[g] => x \in readRows[g]
    BY <1>2, <1>4 DEF SumIInv
  <2>2. ASSUME NEW x \in summation, x.sub \in Ready(g) PROVE x.id = target[x.sub]
    <3>1. x \in Existing(g, x.sub)
      BY <1>3, <2>1, <2>2 DEF Existing
    <3>2. PICK z \in Existing(g, x.sub) : target[x.sub] = z.id
      BY <1>1, <2>2, <3>1
    <3>3. z = x
      BY <2>1, <3>1, <3>2 DEF Existing, OneEach
    <3>4. QED
      BY <3>2, <3>3
  <2>3. ASSUME NEW x \in summation', NEW y \in summation', x.sub = y.sub PROVE x = y
    <3>1. \A z \in summation' :
             \/ z \in summation /\ z.sub \notin Ready(g)
             \/ z.sub \in Ready(g) /\ z = Computed(g, z.sub, target[z.sub])
      BY <1>1, <1>3, <2>2
    <3>2. QED
      BY <2>1, <2>3, <3>1 DEF OneEach
  <2>4. QED
    BY <2>3 DEF OneEach
<1>5. QED
  BY <1>2, <1>4, GenerationLeaves

LEMMA SumStep == SumIInv /\ [SubmissionsNext]_submissionsVars => SumIInv'
<1> SUFFICES ASSUME SumIInv, [SubmissionsNext]_submissionsVars PROVE SumIInv'
  OBVIOUS
<1>1. CASE SubNext /\ CascadeSums
  <2>1. summation' \subseteq summation /\ UNCHANGED <<genVars, overlapped, byHand>>
    BY <1>1 DEF CascadeSums
  <2>2. QED
    BY <2>1, FewerSums
<1>2. CASE (\E s \in Subs, r \in Reviewers, v \in ReviewValues : Score(s, r, v)) \/ UNCHANGED sumVars
  <2>1. summation' \subseteq summation /\ UNCHANGED <<genVars, overlapped, byHand>>
    BY <1>2 DEF Score, sumVars
  <2>2. QED
    BY <2>1, FewerSums
<1>3. ASSUME NEW g \in Gens, NEW st \in Stages, GenerateStart(g, st) PROVE SumIInv'
  BY <1>3, GenerateStartStep
<1>4. ASSUME NEW g \in Gens, GenerateRead(g) PROVE SumIInv'
  BY <1>4, GenerateReadStep
<1>5. ASSUME NEW g \in Gens, GenerateWrite(g) PROVE SumIInv'
  BY <1>5, GenerateWriteStep
<1>6. ASSUME NEW g \in Gens, GenerateFails(g) PROVE SumIInv'
  <2>1. gpc[g] = "write" /\ GLeave(g) /\ UNCHANGED <<summation, overlapped, byHand>>
    BY <1>6 DEF GenerateFails
  <2>2. QED
    BY <2>1, GenerationLeaves DEF SumIInv
<1>7. CASE \/ \E s \in Subs, v \in Scores, final \in BOOLEAN : CreateSummation(s, v, final)
           \/ \E x \in summation : DeleteSummation(x) \/ \E v \in Scores : UpdateSummation(x, v)
  <2>1. byHand' = TRUE /\ UNCHANGED <<genVars, overlapped>>
    BY <1>7 DEF CreateSummation, DeleteSummation, UpdateSummation, ByHand
  <2>2. QED
    BY <2>1 DEF SumIInv, genVars
<1>8. QED
  BY <1>1, <1>2, <1>3, <1>4, <1>5, <1>6, <1>7 DEF SubmissionsNext, SumNext, submissionsVars

\* Whatever stages of whatever challenge are generated, in any order and again,
\* while submissions and reviews come and go: a submission has one summation at
\* most, unless generations overlapped or rows were made by hand.
THEOREM OneSummationKept == SubmissionsSpec => []OneSummationEach
<1>1. SumIInv => OneSummationEach
  BY DEF SumIInv, OneEach, OneSummationEach
<1>2. QED
  BY <1>1, SumInitIInv, SumStep, PTL DEF SubmissionsSpec

-----------------------------------------------------------------------------
(* Averages                                                                *)

\* The sum of a function over a set is one of SetSums.
LEMMA SumOfFunction ==
  ASSUME NEW w, IsFiniteSet(DOMAIN w)
  PROVE  \E it : Sums(it, DOMAIN w, w) /\ SumOf(w) = it[DOMAIN w]
<1> DEFINE it == CHOOSE it : Sums(it, DOMAIN w, w)
<1>1. SumOf(w) = it[DOMAIN w]
  BY DEF SumOf, MapThenSumSet, MapThenFoldSet, Sums, SumsOver, AnyOf, Without
<1>2. Sums(it, DOMAIN w, w)
  BY SumsExist
<1>3. QED
  BY <1>1, <1>2

\* An average is such a sum, divided and rounded.
LEMMA AverageIsSum ==
  ASSUME NEW st, NEW reviews, IsFiniteSet(Valid(st, reviews))
  PROVE  \E it : /\ Sums(it, Valid(st, reviews), [r \in Valid(st, reviews) |-> ScoreAt(st, reviews[r])])
                 /\ Average(st, reviews) =
                      (2 * it[Valid(st, reviews)] + Cardinality(Valid(st, reviews)))
                          \div (2 * Cardinality(Valid(st, reviews)))
<1> DEFINE V == Valid(st, reviews)
           f == [r \in V |-> ScoreAt(st, reviews[r])]
           Over(it) == it = [s \in SUBSET V |->
                               IF s = {} THEN 0 ELSE ScoreAt(st, reviews[AnyOf(s)]) + it[Without(s)]]
           it == CHOOSE it : Over(it)
<1>1. Average(st, reviews) = (2 * it[V] + Cardinality(V)) \div (2 * Cardinality(V))
  BY DEF Average, MapThenSumSet, MapThenFoldSet, AnyOf, Without
<1> HIDE DEF V
<1>2. ASSUME NEW jt, NEW s \in SUBSET V
      PROVE  (IF s = {} THEN 0 ELSE ScoreAt(st, reviews[AnyOf(s)]) + jt[Without(s)])
               = (IF s = {} THEN 0 ELSE f[AnyOf(s)] + jt[Without(s)])
  <2>1. s # {} => AnyOf(s) \in V
    BY DEF AnyOf
  <2>2. QED
    BY <2>1
<1>3. \A jt : Over(jt) <=> Sums(jt, V, f)
  BY <1>2, Zenon DEF Sums, SumsOver
<1>4. \E jt : Sums(jt, V, f)
  BY SumsExist DEF V
<1>5. \E jt : Over(jt)
  BY <1>3, <1>4
<1>6. Over(it)
  BY <1>5
<1> HIDE DEF it, Over, f
<1>7. Sums(it, V, f)
  BY <1>3, <1>6
<1>8. QED
  BY <1>1, <1>7 DEF V, f

\* A quotient rounded is the nearest, or the greater of the two nearest.
LEMMA Rounded ==
  ASSUME NEW a \in Int, NEW n \in Nat, n > 0
  PROVE  LET d == (2 * a + n) \div (2 * n)
         IN  2 * a - n < 2 * n * d /\ 2 * n * d <= 2 * a + n
<1> DEFINE m == 2 * n
           b == 2 * a + n
           d == b \div m
<1>1. m \in Nat /\ m > 0 /\ b \in Int
  OBVIOUS
<1> HIDE DEF m, b
<1>2. d \in Int /\ m * d <= b /\ b < m * d + m
  BY <1>1
<1> HIDE DEF d
<1>3. m * d \in Int
  BY <1>1, <1>2
<1>4. b - m < m * d
  BY <1>1, <1>2, <1>3
<1>5. b - m = 2 * a - n
  BY DEF b, m
<1>6. QED
  BY <1>2, <1>4, <1>5 DEF d, b, m

\* A row follows the reviews of its submission.
FollowsReviews(x, reviews) ==
    LET of == StageScores(reviews, x.isFinal)
        count == Cardinality(DOMAIN of)
    IN  /\ count > 0
        /\ 2 * SumOf(of) - count < 2 * count * x.score
        /\ 2 * count * x.score <= 2 * SumOf(of) + count
        /\ x.isPassing = (x.score >= MinScore)

\* The scores of a stage are those that count in its average.
LEMMA StageScoresValid ==
  ASSUME NEW st \in Stages, NEW reviews
  PROVE  StageScores(reviews, st = "FINAL")
           = [r \in Valid(st, reviews) |-> ScoreAt(st, reviews[r])]
<1> DEFINE given == {q \in Reviewers : reviews[q] # Nobody}
           of == [r \in given |-> IF (st = "FINAL") /\ reviews[r].final # Nobody
                                  THEN reviews[r].final ELSE reviews[r].initial]
<1>1. StageScores(reviews, st = "FINAL") = [r \in {q \in given : of[q] # Nobody} |-> of[r]]
  BY DEF StageScores
<1>2. \A r \in given : of[r] = ScoreAt(st, reviews[r])
  BY DEF ScoreAt
<1>3. {q \in given : of[q] # Nobody} = Valid(st, reviews) /\ Valid(st, reviews) \subseteq given
  BY <1>2 DEF Valid
<1> HIDE DEF of, given
<1>4. QED
  BY <1>1, <1>2, <1>3

\* What a generation computes of the reviews as they still are follows them.
LEMMA ComputedFollows ==
  ASSUME NEW g, stage[g] \in Stages, NEW s, NEW id,
         readScores[g][s] \in [Reviewers -> ReviewScore \cup {Nobody}],
         Valid(stage[g], readScores[g][s]) # {}
  PROVE  FollowsReviews(Computed(g, s, id), readScores[g][s])
<1> DEFINE reviews == readScores[g][s]
           st == stage[g]
           x == Computed(g, s, id)
           average == Average(st, reviews)
           V == Valid(st, reviews)
           f == [r \in V |-> ScoreAt(st, reviews[r])]
           of == StageScores(reviews, x.isFinal)
           n == Cardinality(V)
<1>1. x.score = average /\ x.isPassing = (average >= MinScore) /\ x.isFinal = (st = "FINAL")
  BY DEF Computed
<1>2. of = f /\ DOMAIN f = V
  BY <1>1, StageScoresValid
<1>3. IsFiniteSet(V)
  <2>1. V \subseteq Reviewers
    BY DEF Valid
  <2>2. IsFiniteSet(Reviewers)
    BY SummationsAssumption
  <2>3. QED
    BY <2>1, <2>2, FS_Subset
<1>4. n \in Nat /\ n > 0
  BY <1>3, FS_CardinalityType, FS_EmptySet
<1>5. \A r \in V : f[r] \in Int
  <2>1. ASSUME NEW r \in V PROVE ScoreAt(st, reviews[r]) \in Scores
    <3>1. reviews[r] \in ReviewScore
      BY DEF Valid
    <3>2. QED
      BY <3>1 DEF Valid, ScoreAt, ReviewScore
  <2>2. Scores \subseteq Int
    BY SummationsAssumption DEF Points
  <2>3. QED
    BY <2>1, <2>2
<1>6. PICK it : Sums(it, V, f) /\ average = (2 * it[V] + n) \div (2 * n)
  BY <1>3, AverageIsSum
<1> HIDE DEF f, V, n, average
<1>7. PICK jt : Sums(jt, V, f) /\ SumOf(f) = jt[V]
  BY <1>2, <1>3, SumOfFunction
<1>8. it[V] \in Int /\ it[V] = jt[V]
  <2>1. \A r \in V : f[r] \in Int /\ f[r] \in Int /\ -0 <= f[r] - f[r] /\ f[r] - f[r] <= 0
    BY <1>5
  <2>2. /\ it[V] \in Int /\ jt[V] \in Int
        /\ -(0 * Cardinality(V)) <= it[V] - jt[V] /\ it[V] - jt[V] <= 0 * Cardinality(V)
    BY <1>3, <1>6, <1>7, <2>1, SumsApart
  <2>3. QED
    BY <1>4, <2>2 DEF n
<1>9. 2 * it[V] - n < 2 * n * average /\ 2 * n * average <= 2 * it[V] + n
  BY <1>4, <1>6, <1>8, Rounded
<1>10. SumOf(of) = it[V] /\ Cardinality(DOMAIN of) = n
  BY <1>2, <1>7, <1>8 DEF n
<1> HIDE DEF x, reviews, st, of
<1>11. QED
  BY <1>1, <1>4, <1>9, <1>10 DEF FollowsReviews, x, reviews, of

\* The rows there are follow the reviews, unless these have changed since.
SumRowsFit ==
    /\ score \in [Subs -> [Reviewers -> ReviewScore \cup {Nobody}]]
    /\ \A x \in summation : x.sub \in Subs
    /\ \A g \in Gens : stage[g] \in Stages /\ readSubs[g] \subseteq Subs
    /\ ~byHand /\ ~overlapped =>
         \A x \in summation : x.sub \notin aside => FollowsReviews(x, score[x.sub])

LEMMA SumRowsInit ==
  ASSUME SubmissionsInit
  PROVE  SumRowsFit
<1>1. SumInit
  BY DEF SubmissionsInit
<1>2. QED
  BY <1>1 DEF SumInit, SumRowsFit, NoReviews, Stages

\* Generations write nothing unless they write.
LEMMA SumRowsStay ==
  ASSUME SumRowsFit, UNCHANGED <<score, summation, byHand, aside>>, overlapped => overlapped',
         \A g \in Gens : stage'[g] \in Stages /\ readSubs'[g] \subseteq Subs
  PROVE  SumRowsFit'
BY DEF SumRowsFit

LEMMA GenerationFits ==
  ASSUME SumIInv, SumRowsFit, NEW g \in Gens, GLeave(g)
  PROVE  \A h \in Gens : stage'[h] \in Stages /\ readSubs'[h] \subseteq Subs
BY DEF SumIInv, SumRowsFit, GLeave, Stages

\* The old rows of the submissions it has computed are gone.
LEMMA GenerateWriteRows ==
  ASSUME SumIInv, SumRowsFit, NEW g \in Gens, GenerateWrite(g)
  PROVE  SumRowsFit'
<1>1. PICK target :
        /\ \A s \in Ready(g) :
             IF Existing(g, s) = {} THEN target[s] = NewId(g, s)
             ELSE \E x \in Existing(g, s) : target[s] = x.id
        /\ summation' = {x \in summation : \A s \in Ready(g) : x.id # target[s]}
                           \cup {Computed(g, s, target[s]) : s \in Ready(g)}
  BY DEF GenerateWrite
<1>2. /\ gpc[g] = "write" /\ GLeave(g) /\ UNCHANGED <<overlapped, byHand, score>>
      /\ aside' = (aside \ Ready(g)) \cup {s \in Ready(g) : score[s] # readScores[g][s]}
  BY DEF GenerateWrite
<1>3. \A s \in Ready(g) : s \in readSubs[g] /\ Computed(g, s, target[s]).sub = s
  BY DEF Ready, Computed
<1>4. \A h \in Gens : stage'[h] \in Stages /\ readSubs'[h] \subseteq Subs
  BY <1>2, GenerationFits
<1>5. \A x \in summation' : x.sub \in Subs
  BY <1>1, <1>3 DEF SumRowsFit
<1>6. ASSUME ~overlapped, ~byHand, NEW x \in summation', x.sub \notin aside'
      PROVE  FollowsReviews(x, score[x.sub])
  <2>1. /\ OneEach(summation) /\ OneEach(readRows[g])
        /\ \A y \in summation : y.sub \in readSubs[g] => y \in readRows[g]
    BY <1>2, <1>6 DEF SumIInv
  <2>2. CASE x \in summation /\ \A s \in Ready(g) : x.id # target[s]
    <3>1. x.sub \notin Ready(g)
      <4>1. SUFFICES ASSUME x.sub \in Ready(g)
                     PROVE  x.id = target[x.sub]
        BY <2>2
      <4>2. x \in Existing(g, x.sub)
        BY <1>3, <2>1, <2>2, <4>1 DEF Existing
      <4>3. PICK z \in Existing(g, x.sub) : target[x.sub] = z.id
        BY <1>1, <4>1, <4>2
      <4>4. z = x
        BY <2>1, <4>2, <4>3 DEF Existing, OneEach
      <4>5. QED
        BY <4>3, <4>4
    <3>2. x.sub \notin aside
      BY <1>2, <1>6, <3>1
    <3>3. QED
      BY <1>6, <2>2, <3>2 DEF SumRowsFit
  <2>3. CASE \E s \in Ready(g) : x = Computed(g, s, target[s])
    <3>1. PICK s \in Ready(g) : x = Computed(g, s, target[s])
      BY <2>3
    <3>2. x.sub = s /\ s \in Subs /\ score[s] = readScores[g][s]
      BY <1>2, <1>3, <1>6, <3>1 DEF SumRowsFit
    <3>3. readScores[g][s] \in [Reviewers -> ReviewScore \cup {Nobody}]
      BY <3>2 DEF SumRowsFit
    <3>4. Valid(stage[g], readScores[g][s]) # {} /\ stage[g] \in Stages
      BY <3>1 DEF Ready, SumRowsFit
    <3>5. FollowsReviews(Computed(g, s, target[s]), readScores[g][s])
      BY <3>3, <3>4, ComputedFollows
    <3>6. QED
      BY <3>1, <3>2, <3>5
  <2>4. QED
    BY <1>1, <1>6, <2>2, <2>3
<1>7. QED
  BY <1>2, <1>4, <1>5, <1>6 DEF SumRowsFit

\* Reviews and summations go with their submission.
LEMMA CascadeRows ==
  ASSUME SumRowsFit, CascadeSums
  PROVE  SumRowsFit'
<1>1. /\ summation' = {x \in summation : sub'[x.sub].state = "stored"}
      /\ score' = [s \in Subs |-> IF sub'[s].state = "gone" THEN NoReviews[s] ELSE score[s]]
      /\ UNCHANGED <<stage, readSubs, byHand, overlapped, aside>>
  BY DEF CascadeSums, genVars
<1>2. score' \in [Subs -> [Reviewers -> ReviewScore \cup {Nobody}]]
  <2>1. \A s \in Subs : NoReviews[s] \in [Reviewers -> ReviewScore \cup {Nobody}]
    BY DEF NoReviews
  <2>2. QED
    BY <1>1, <2>1 DEF SumRowsFit
<1>3. \A x \in summation' : x \in summation /\ x.sub \in Subs /\ score'[x.sub] = score[x.sub]
  BY <1>1 DEF SumRowsFit
<1>4. QED
  BY <1>1, <1>2, <1>3 DEF SumRowsFit

LEMMA ScoreRows ==
  ASSUME SumRowsFit, NEW s \in Subs, NEW r \in Reviewers, NEW v \in ReviewValues, Score(s, r, v)
  PROVE  SumRowsFit'
<1>1. /\ score' = [score EXCEPT ![s][r] = v] /\ aside' = aside \cup {s}
      /\ UNCHANGED <<summation, stage, readSubs, byHand, overlapped>>
  BY DEF Score, genVars
<1>2. v \in ReviewScore
  BY SummationsAssumption
<1>3. score' \in [Subs -> [Reviewers -> ReviewScore \cup {Nobody}]]
  BY <1>1, <1>2 DEF SumRowsFit
<1>4. \A u \in Subs \ {s} : score'[u] = score[u]
  BY <1>1 DEF SumRowsFit
<1>5. QED
  BY <1>1, <1>3, <1>4 DEF SumRowsFit

LEMMA SumRowsStep == SumIInv /\ SumRowsFit /\ [SubmissionsNext]_submissionsVars => SumRowsFit'
<1> SUFFICES ASSUME SumIInv, SumRowsFit, [SubmissionsNext]_submissionsVars PROVE SumRowsFit'
  OBVIOUS
<1>1. CASE SubNext /\ CascadeSums
  BY <1>1, CascadeRows
<1>2. CASE UNCHANGED sumVars
  BY <1>2 DEF SumRowsFit, sumVars, genVars
<1>3. ASSUME NEW s \in Subs, NEW r \in Reviewers, NEW v \in ReviewValues, Score(s, r, v)
      PROVE  SumRowsFit'
  BY <1>3, ScoreRows
<1>4. ASSUME NEW g \in Gens, NEW st \in Stages, GenerateStart(g, st)
      PROVE  SumRowsFit'
  <2>1. /\ stage' = [stage EXCEPT ![g] = st] /\ readSubs' = [readSubs EXCEPT ![g] = StoredSubs]
        /\ UNCHANGED <<score, summation, byHand, aside>> /\ (overlapped => overlapped')
    BY <1>4 DEF GenerateStart
  <2>2. \A h \in Gens : stage'[h] \in Stages /\ readSubs'[h] \subseteq Subs
    BY <2>1 DEF SumRowsFit, SumIInv, StoredSubs
  <2>3. QED
    BY <2>1, <2>2, SumRowsStay
<1>5. ASSUME NEW g \in Gens, GenerateRead(g)
      PROVE  SumRowsFit'
  <2>1. UNCHANGED <<score, summation, byHand, aside>> /\ (overlapped => overlapped')
    BY <1>5 DEF GenerateRead
  <2>2. GLeave(g) \/ UNCHANGED <<stage, readSubs>>
    BY <1>5 DEF GenerateRead
  <2>3. \A h \in Gens : stage'[h] \in Stages /\ readSubs'[h] \subseteq Subs
    BY <2>2, GenerationFits DEF SumRowsFit
  <2>4. QED
    BY <2>1, <2>3, SumRowsStay
<1>6. ASSUME NEW g \in Gens, GenerateWrite(g)
      PROVE  SumRowsFit'
  BY <1>6, GenerateWriteRows
<1>7. ASSUME NEW g \in Gens, GenerateFails(g)
      PROVE  SumRowsFit'
  <2>1. GLeave(g) /\ UNCHANGED <<score, summation, byHand, aside, overlapped>>
    BY <1>7 DEF GenerateFails
  <2>2. QED
    BY <2>1, GenerationFits, SumRowsStay
<1>8. CASE \/ \E s \in Subs, v \in Scores, final \in BOOLEAN : CreateSummation(s, v, final)
           \/ \E x \in summation : DeleteSummation(x) \/ \E v \in Scores : UpdateSummation(x, v)
  <2>1. byHand' = TRUE /\ UNCHANGED <<score, stage, readSubs>>
    BY <1>8 DEF CreateSummation, DeleteSummation, UpdateSummation, ByHand, genVars
  <2>2. \A x \in summation' : x.sub \in Subs
    <3>1. ASSUME NEW s \in Subs, NEW v \in Scores, NEW final \in BOOLEAN,
                 CreateSummation(s, v, final)
          PROVE  \A x \in summation' : x.sub \in Subs
      BY <3>1 DEF CreateSummation, SumRowsFit
    <3>2. ASSUME NEW y \in summation, DeleteSummation(y)
          PROVE  \A x \in summation' : x.sub \in Subs
      BY <3>2 DEF DeleteSummation, SumRowsFit
    <3>3. ASSUME NEW y \in summation, NEW v \in Scores, UpdateSummation(y, v)
          PROVE  \A x \in summation' : x.sub \in Subs
      <4>1. [y EXCEPT !.score = v].sub = y.sub
        OBVIOUS
      <4>2. QED
        BY <3>3, <4>1 DEF UpdateSummation, SumRowsFit
    <3>4. QED
      BY <1>8, <3>1, <3>2, <3>3
  <2>3. QED
    BY <2>1, <2>2 DEF SumRowsFit
<1>9. QED
  BY <1>1, <1>2, <1>3, <1>4, <1>5, <1>6, <1>7, <1>8 DEF SubmissionsNext, SumNext, submissionsVars

\* A generated summation is the average of the scores of its stage in the
\* reviews of its submission, to the nearest hundredth, and passes or fails by
\* it, until a review is changed after the generation has read it: for any
\* number of reviewers, generations and stages (generateSummationsForChallenge).
THEOREM SummationsFollow == SubmissionsSpec => []SummationFollowsReviews
<1>1. SumIInv /\ SumRowsFit => SummationFollowsReviews
  BY DEF SumRowsFit, SummationFollowsReviews, FollowsReviews
<1>2. SubmissionsInit => SumIInv /\ SumRowsFit
  BY SumInitIInv, SumRowsInit
<1>3. SumIInv /\ SumRowsFit /\ [SubmissionsNext]_submissionsVars => (SumIInv /\ SumRowsFit)'
  BY SumStep, SumRowsStep
<1>4. QED
  BY <1>1, <1>2, <1>3, PTL DEF SubmissionsSpec

=============================================================================
