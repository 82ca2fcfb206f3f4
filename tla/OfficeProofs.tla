---------------------------- MODULE OfficeProofs ----------------------------
(* Proofs about the modules of the office: Applications, ReviewAdmission,   *)
(* PendingReviews, RunItems, LegacyImport and AiConfigs, for any members,   *)
(* submissions, rows, workflows and calls in flight.                        *)
EXTENDS Applications, PendingReviews, RunItems, LegacyImport, ReviewAdmission, AiConfigs, SetSums,
        FiniteSetTheorems, WellFoundedInduction, TLAPS

-----------------------------------------------------------------------------
(* Applications: what a call has done so far, by where it is.              *)

Asks(c, kind) == apc[c] # "idle" /\ job[c].kind = kind

\* A call approves or rejects one application, or rejects those of a type.
JobFits(c) ==
    /\ Asks(c, "approve") =>
         \E a \in Apps : /\ job[c].scope = {a} /\ job[c].apps = {a}
                         /\ job[c].role \in {Iterative, ResourceRoleOf[a[2]]}
    /\ Asks(c, "reject") => apc[c] = "mail" /\ \E a \in Apps : job[c].scope = {a} /\ job[c].apps = {a}
    /\ Asks(c, "rejectAll") => apc[c] \in {"sweep", "mail"} /\ job[c].apps \subseteq job[c].scope
    /\ apc[c] = "sweep" => job[c].kind = "rejectAll"

\* The resource of an approval, once it is looked for.
IsFor(x, c) == x.member = Member(c) /\ x.role = job[c].role

ResourceFits(c) ==
    /\ apc[c] = "make" => \A x \in resource : IsFor(x, c) => Member(c) \in approvedTwice
    /\ apc[c] = "publish" => \E x \in resource : IsFor(x, c) /\ x.id = job[c].id
    /\ apc[c] = "approve" => \E x \in resource : IsFor(x, c) /\ x.id \in told

Meets(c, d) == Asks(c, "approve") /\ Asks(d, "approve") /\ Member(c) = Member(d)

\* The mail about an application says how it stands.
Settled(a) == mail[a] = IF application[a] \in {"none", "PENDING"} THEN "none" ELSE application[a]

Outcome(c) == IF job[c].kind = "approve" THEN "APPROVED" ELSE "REJECTED"

\* How an application stands that a call is about, and no other.
StandsIn(c, a) ==
    CASE apc[c] = "mail" -> IF a \in job[c].apps THEN application[a] = Outcome(c) ELSE Settled(a)
      [] apc[c] = "sweep" -> Settled(a) /\ (a \in job[c].apps <=> application[a] = "PENDING")
      [] OTHER -> Settled(a)

AppIInv ==
    /\ AppTypeOK /\ IsFiniteSet(resource)
    /\ \A c \in Working : job[c] \in Job /\ JobFits(c) /\ ResourceFits(c)
    /\ \A c, d \in AppCalls : c # d /\ Meets(c, d) => Member(c) \in approvedTwice
    /\ \A c, d \in Working : c # d => job[c].scope \cap job[d].scope \subseteq mixed
    /\ \A c \in Working : \A a \in job[c].scope \ mixed : StandsIn(c, a)
    /\ ApprovedIsAnnounced /\ OneResourceEach /\ MailTellsStatus

\* The member of a call about one application.
LEMMA MemberOf ==
  ASSUME NEW c, NEW a, job[c].apps = {a}
  PROVE  Member(c) = a[1]
BY DEF Member

\* The initial state satisfies the invariant.
LEMMA AppInitIInv ==
  ASSUME NEW budget \in [AppBudget -> Nat], AppInit(budget)
  PROVE  AppIInv
<1>1. AppTypeOK
  BY DEF AppInit, AppTypeOK
<1>2. Working = {} /\ IsFiniteSet(resource)
  BY FS_EmptySet DEF AppInit, Working
<1>3. \A c \in AppCalls : ~Asks(c, "approve")
  BY DEF AppInit, Asks
<1>4. ApprovedIsAnnounced /\ OneResourceEach /\ MailTellsStatus
  BY DEF AppInit, ApprovedIsAnnounced, OneResourceEach, MailTellsStatus
<1>5. QED
  BY <1>1, <1>2, <1>3, <1>4 DEF AppIInv, Meets

\* Every step keeps the types, and the resources finitely many.
LEMMA AppTypeStep ==
  ASSUME AppIInv, [AppNext]_appVars
  PROVE  AppTypeOK' /\ IsFiniteSet(resource')
<1>0. AppTypeOK /\ IsFiniteSet(resource) /\ \A c \in Working : job[c] \in Job /\ JobFits(c)
  BY DEF AppIInv
<1> USE <1>0, ApplicationsAssumption DEF AppTypeOK, AppBudget, AppSpend, AppGoto, AppLeave
<1>1. ASSUME NEW t \in Types, Post(t) PROVE AppTypeOK' /\ IsFiniteSet(resource')
  BY <1>1 DEF Post
<1>2. ASSUME NEW m \in Members, NEW r \in AppRoles, Apply(m, r) PROVE AppTypeOK' /\ IsFiniteSet(resource')
  BY <1>2 DEF Apply, Apps
<1>3. ASSUME Reconfigure PROVE AppTypeOK' /\ IsFiniteSet(resource')
  BY <1>3 DEF Reconfigure
<1>4. ASSUME NEW c \in AppCalls, NEW a \in Apps, ApproveStart(c, a)
      PROVE  AppTypeOK' /\ IsFiniteSet(resource')
  <2>1. ApprovalRole(a) \in ResourceRoles /\ a[1] \in Members
    BY DEF ApprovalRole, ResourceRoles, Apps
  <2>2. job' \in [AppCalls -> Job \cup {NoApp}]
    BY <1>4, <2>1 DEF ApproveStart, Decide, Job
  <2>3. QED
    BY <1>4, <2>1, <2>2 DEF ApproveStart, Decide, appData
<1>5. ASSUME NEW c \in AppCalls, NEW a \in Apps, Reject(c, a) PROVE AppTypeOK' /\ IsFiniteSet(resource')
  <2>1. job' \in [AppCalls -> Job \cup {NoApp}]
    BY <1>5 DEF Reject, Decide, Job
  <2>2. QED
    BY <1>5, <2>1 DEF Reject, Decide
<1>6. ASSUME NEW c \in AppCalls, NEW t \in Types, RejectAllRead(c, t)
      PROVE  AppTypeOK' /\ IsFiniteSet(resource')
  <2>1. job' \in [AppCalls -> Job \cup {NoApp}]
    BY <1>6 DEF RejectAllRead, Decide, Job, OfType, PendingOf
  <2>2. QED
    BY <1>6, <2>1 DEF RejectAllRead, Decide, appData, OfType
<1>7. ASSUME NEW c \in AppCalls, Look(c) PROVE AppTypeOK' /\ IsFiniteSet(resource')
  <2>1. job' \in [AppCalls -> Job \cup {NoApp}]
    BY <1>7 DEF Look, Held, Working, Job
  <2>2. QED
    BY <1>7, <2>1 DEF Look, AfterLook, appData
<1>8. ASSUME NEW c \in AppCalls, Make(c) PROVE AppTypeOK' /\ IsFiniteSet(resource')
  <2> DEFINE id == Cardinality(resource) + 1
  <2>1. job[c] \in Job /\ Asks(c, "approve") /\ id \in Nat
    BY <1>8, FS_CardinalityType DEF Make, Working, JobFits, Asks, Job
  <2>2. PICK a \in Apps : job[c].apps = {a}
    BY <1>8, <2>1 DEF JobFits, Asks, Make, Working
  <2>3. Member(c) \in Members /\ job[c].role \in ResourceRoles
    BY <1>8, <2>1, <2>2, MemberOf DEF JobFits, Asks, Make, Working, Apps, ResourceRoles
  <2>4. job' \in [AppCalls -> Job \cup {NoApp}]
    BY <1>8, <2>1 DEF Make, Job
  <2>5. resource' \subseteq [id : Nat, member : Members, role : ResourceRoles]
    BY <1>8, <2>1, <2>3 DEF Make
  <2>6. IsFiniteSet(resource')
    BY <1>8, FS_AddElement DEF Make
  <2>7. QED
    BY <1>8, <2>4, <2>5, <2>6 DEF Make
<1>9. ASSUME NEW c \in AppCalls, Publish(c) PROVE AppTypeOK' /\ IsFiniteSet(resource')
  <2>1. told' \subseteq {x.id : x \in resource}
    BY <1>9 DEF Publish, AppIInv, ResourceFits, Working
  <2>2. QED
    BY <1>9, <2>1 DEF Publish
<1>10. ASSUME NEW c \in AppCalls, SetApproved(c) PROVE AppTypeOK' /\ IsFiniteSet(resource')
  BY <1>10 DEF SetApproved
<1>11. ASSUME NEW c \in AppCalls, ApproveFails(c) PROVE AppTypeOK' /\ IsFiniteSet(resource')
  <2>1. told' \subseteq {x.id : x \in resource}
    BY <1>11 DEF ApproveFails, AppIInv, ResourceFits, Working
  <2>2. QED
    BY <1>11, <2>1 DEF ApproveFails
<1>12. ASSUME NEW c \in AppCalls, Sweep(c) PROVE AppTypeOK' /\ IsFiniteSet(resource')
  BY <1>12 DEF Sweep
<1>13. ASSUME NEW c \in AppCalls, Mail(c) PROVE AppTypeOK' /\ IsFiniteSet(resource')
  <2>1. job[c].apps \subseteq Apps
    BY <1>13 DEF Mail, Working, Job
  <2>2. QED
    BY <1>13, <2>1 DEF Mail
<1>14. CASE UNCHANGED appVars
  BY <1>14 DEF appVars, appData
<1>15. QED
  BY <1>1, <1>2, <1>3, <1>4, <1>5, <1>6, <1>7, <1>8, <1>9, <1>10, <1>11, <1>12, <1>13, <1>14
     DEF AppNext

\* A call another call's step leaves where it is and with its job.
Left(c) == apc'[c] = apc[c] /\ job'[c] = job[c]

\* The steps of a call leave the others alone.
LEMMA OthersLeft ==
  ASSUME AppTypeOK, NEW c \in AppCalls, NEW d \in AppCalls \ {c},
         \/ \E a \in Apps : ApproveStart(c, a) \/ Reject(c, a)
         \/ \E t \in Types : RejectAllRead(c, t)
         \/ Look(c) \/ Make(c) \/ Publish(c) \/ SetApproved(c) \/ ApproveFails(c)
         \/ Sweep(c) \/ Mail(c)
  PROVE  Left(d)
<1> USE DEF AppTypeOK, Left
<1>1. CASE Look(c)
  BY <1>1 DEF Look, AppGoto
<1>2. CASE ApproveFails(c)
  BY <1>2 DEF ApproveFails, AppLeave, AppGoto
<1>3. CASE Mail(c)
  BY <1>3 DEF Mail, AppLeave, AppGoto
<1>4. QED
  BY <1>1, <1>2, <1>3 DEF ApproveStart, Reject, RejectAllRead, Decide, AppGoto, Make, Publish,
     SetApproved, Sweep

\* A step leaves the jobs fitting.
LEMMA AppJobsStep ==
  ASSUME AppIInv, [AppNext]_appVars
  PROVE  \A c \in Working' : (job[c] \in Job)' /\ JobFits(c)'
<1>0. AppTypeOK /\ \A c \in Working : job[c] \in Job /\ JobFits(c)
  BY DEF AppIInv
<1> SUFFICES ASSUME NEW c \in AppCalls, apc'[c] # "idle"
             PROVE  (job[c] \in Job)' /\ JobFits(c)'
  BY DEF Working
<1>a. CASE Left(c)
  BY <1>0, <1>a DEF Left, Working, JobFits, Asks
<1> USE <1>0, ApplicationsAssumption DEF AppTypeOK, AppGoto, AppLeave
<1>1. ASSUME NEW a \in Apps, ApproveStart(c, a) PROVE (job[c] \in Job)' /\ JobFits(c)'
  <2>1. ApprovalRole(a) \in ResourceRoles /\ ApprovalRole(a) \in {Iterative, ResourceRoleOf[a[2]]}
    BY DEF ApprovalRole, ResourceRoles, Apps
  <2>2. apc'[c] = "look"
        /\ job'[c] = [kind |-> "approve", scope |-> {a}, apps |-> {a}, role |-> ApprovalRole(a), id |-> 0]
    BY <1>1 DEF ApproveStart, Decide
  <2>3. QED
    BY <2>1, <2>2 DEF Job, JobFits, Asks
<1>2. ASSUME NEW a \in Apps, Reject(c, a) PROVE (job[c] \in Job)' /\ JobFits(c)'
  <2>1. apc'[c] = "mail"
        /\ job'[c] = [kind |-> "reject", scope |-> {a}, apps |-> {a}, role |-> NoApp, id |-> 0]
    BY <1>2 DEF Reject, Decide
  <2>2. QED
    BY <2>1 DEF Job, JobFits, Asks
<1>3. ASSUME NEW t \in Types, RejectAllRead(c, t) PROVE (job[c] \in Job)' /\ JobFits(c)'
  <2>1. apc'[c] = "sweep"
        /\ job'[c] = [kind |-> "rejectAll", scope |-> OfType(t), apps |-> PendingOf(t),
                      role |-> NoApp, id |-> 0]
    BY <1>3 DEF RejectAllRead, Decide
  <2>2. QED
    BY <2>1 DEF Job, JobFits, Asks, PendingOf, OfType
<1>4. CASE Look(c)
  <2>1. apc[c] = "look" /\ apc'[c] \in {"make", "publish"} /\ job[c] \in Job /\ JobFits(c)
    BY <1>4 DEF Look, AfterLook, Working
  <2>2. job'[c] = job[c] \/ \E n \in Nat : job'[c] = [job[c] EXCEPT !.id = n]
    BY <1>4 DEF Look, Held
  <2>3. job[c].kind = "approve"
    BY <2>1 DEF Job, JobFits, Asks
  <2>4. job'[c] \in Job /\ job'[c].kind = "approve" /\ job'[c].scope = job[c].scope
        /\ job'[c].apps = job[c].apps /\ job'[c].role = job[c].role
    BY <2>1, <2>2, <2>3 DEF Job
  <2>5. QED
    BY <2>1, <2>3, <2>4 DEF JobFits, Asks
<1>5. CASE Make(c)
  <2>1. apc[c] = "make" /\ apc'[c] = "publish" /\ job[c] \in Job /\ JobFits(c)
    BY <1>5 DEF Make, Working
  <2>2. job'[c] = [job[c] EXCEPT !.id = Cardinality(resource) + 1] /\ Cardinality(resource) \in Nat
    BY <1>5, FS_CardinalityType DEF Make, AppIInv
  <2>3. QED
    BY <2>1, <2>2 DEF Job, JobFits, Asks
<1>6. CASE Publish(c) \/ SetApproved(c) \/ Sweep(c)
  <2>1. apc[c] \in {"publish", "approve", "sweep"} /\ apc'[c] \in {"approve", "mail"}
        /\ (apc[c] = "sweep" => apc'[c] = "mail") /\ job'[c] = job[c]
    BY <1>6 DEF Publish, SetApproved, Sweep
  <2>2. job[c] \in Job /\ JobFits(c)
    BY <2>1 DEF Working
  <2>3. QED
    BY <2>1, <2>2 DEF JobFits, Asks
<1>7. CASE ApproveFails(c) \/ Mail(c)
  BY <1>7 DEF ApproveFails, Mail
<1>8. CASE \E t \in Types : Post(t)
  BY <1>8, <1>a DEF Post, Left
<1>9. CASE \E m \in Members, r \in AppRoles : Apply(m, r)
  BY <1>9, <1>a DEF Apply, Left
<1>10. CASE Reconfigure \/ UNCHANGED appVars
  BY <1>10, <1>a DEF Reconfigure, Left, appVars
<1>11. QED
  BY <1>1, <1>2, <1>3, <1>4, <1>5, <1>6, <1>7, <1>8, <1>9, <1>10, <1>a, OthersLeft DEF AppNext

\* Resources, what was told and who was approved twice only grow.
LEMMA ResourcesGrow ==
  ASSUME [AppNext]_appVars
  PROVE  resource \subseteq resource' /\ told \subseteq told' /\ approvedTwice \subseteq approvedTwice'
<1>1. CASE \E c \in AppCalls : ApproveFails(c)
  BY <1>1 DEF ApproveFails
<1>2. CASE UNCHANGED appVars
  BY <1>2 DEF appVars, appData
<1>3. QED
  BY <1>1, <1>2 DEF AppNext, Post, Apply, Reconfigure, ApproveStart, Reject, RejectAllRead, Look, Make,
     Publish, SetApproved, Sweep, Mail, appData

LEMMA SameMember ==
  ASSUME NEW c, job'[c].apps = job[c].apps
  PROVE  Member(c)' = Member(c)
BY DEF Member

\* A call begins.
Starts(c) ==
    \/ \E a \in Apps : ApproveStart(c, a) \/ Reject(c, a)
    \/ \E t \in Types : RejectAllRead(c, t)

\* A call keeps from its start what it asks and which applications it is about.
LEMMA SameJob ==
  ASSUME AppIInv, [AppNext]_appVars, NEW c \in AppCalls, apc'[c] # "idle", ~Starts(c)
  PROVE  /\ c \in Working /\ Member(c)' = Member(c)
         /\ job'[c].kind = job[c].kind /\ job'[c].role = job[c].role
         /\ job'[c].apps = job[c].apps /\ job'[c].scope = job[c].scope
<1>0. AppTypeOK /\ \A d \in Working : job[d] \in Job
  BY DEF AppIInv
<1> SUFFICES /\ apc[c] # "idle"
             /\ job'[c].kind = job[c].kind /\ job'[c].role = job[c].role
             /\ job'[c].apps = job[c].apps /\ job'[c].scope = job[c].scope
  BY SameMember DEF Working
<1>a. CASE Left(c)
  BY <1>a DEF Left
<1> USE <1>0 DEF AppTypeOK, AppGoto, AppLeave
<1>1. CASE Look(c)
  <2>1. job[c] \in Job /\ apc[c] # "idle"
    BY <1>1 DEF Look, Working
  <2>2. job'[c] = job[c] \/ \E n \in Nat : job'[c] = [job[c] EXCEPT !.id = n]
    BY <1>1 DEF Look, Held
  <2>3. QED
    BY <2>1, <2>2 DEF Job
<1>2. CASE Make(c)
  <2>1. job[c] \in Job /\ apc[c] # "idle"
    BY <1>2 DEF Make, Working
  <2>2. job'[c] = [job[c] EXCEPT !.id = Cardinality(resource) + 1]
    BY <1>2 DEF Make
  <2>3. QED
    BY <2>1, <2>2 DEF Job
<1>3. CASE Publish(c) \/ SetApproved(c) \/ Sweep(c)
  BY <1>3 DEF Publish, SetApproved, Sweep
<1>4. CASE ApproveFails(c) \/ Mail(c)
  BY <1>4 DEF ApproveFails, Mail
<1>5. CASE \E t \in Types : Post(t)
  BY <1>5, <1>a DEF Post, Left
<1>6. CASE \E m \in Members, r \in AppRoles : Apply(m, r)
  BY <1>6, <1>a DEF Apply, Left
<1>7. CASE Reconfigure \/ UNCHANGED appVars
  BY <1>7, <1>a DEF Reconfigure, Left, appVars
<1>8. QED
  BY <1>1, <1>2, <1>3, <1>4, <1>5, <1>6, <1>7, <1>a, OthersLeft DEF AppNext, Starts

\* So does an approval.
LEMMA SameApproval ==
  ASSUME AppIInv, [AppNext]_appVars, NEW c \in AppCalls, Asks(c, "approve")',
         ~\E a \in Apps : ApproveStart(c, a)
  PROVE  Asks(c, "approve") /\ Member(c)' = Member(c)
<1>0. AppTypeOK
  BY DEF AppIInv
<1>1. ASSUME NEW a \in Apps, Reject(c, a) PROVE FALSE
  BY <1>0, <1>1 DEF Reject, Decide, Asks, AppTypeOK, AppGoto
<1>2. ASSUME NEW t \in Types, RejectAllRead(c, t) PROVE FALSE
  BY <1>0, <1>2 DEF RejectAllRead, Decide, Asks, AppTypeOK, AppGoto
<1>3. QED
  BY <1>1, <1>2, SameJob DEF Starts, Asks, Working

\* Two approvals of a member that meet are noted.
LEMMA AppMeetStep ==
  ASSUME AppIInv, [AppNext]_appVars
  PROVE  \A c, d \in AppCalls : c # d /\ Meets(c, d)' => Member(c)' \in approvedTwice'
<1>0. AppTypeOK /\ \A c, d \in AppCalls : c # d /\ Meets(c, d) => Member(c) \in approvedTwice
  BY DEF AppIInv
<1>1. ASSUME NEW c \in AppCalls, NEW d \in AppCalls, c # d, NEW a \in Apps, ApproveStart(c, a), Meets(c, d)'
      PROVE  Member(c)' \in approvedTwice'
  <2>1. Left(d)
    BY <1>0, <1>1, OthersLeft
  <2>2. Asks(d, "approve") /\ Member(d)' = Member(d)
    BY <1>1, <2>1, SameMember DEF Left, Asks, Meets
  <2>3. Member(c)' = a[1]
    <3>1. job'[c].apps = {a}
      BY <1>0, <1>1 DEF ApproveStart, Decide, AppTypeOK
    <3>2. QED
      BY <3>1 DEF Member
  <2>4. PICK b \in Apps : job[d].apps = {b}
    BY <2>2 DEF AppIInv, JobFits, Working, Asks
  <2>5. b[1] = a[1]
    BY <1>1, <2>2, <2>3, <2>4, MemberOf DEF Meets
  <2>6. QED
    BY <1>1, <2>2, <2>3, <2>4, <2>5 DEF ApproveStart, Working, Asks
<1>2. ASSUME NEW c \in AppCalls, NEW d \in AppCalls, c # d, Meets(c, d)',
             ~\E a \in Apps : ApproveStart(c, a) \/ ApproveStart(d, a)
      PROVE  Member(c)' \in approvedTwice'
  <2>1. Asks(c, "approve") /\ Member(c)' = Member(c) /\ Asks(d, "approve") /\ Member(d)' = Member(d)
    BY <1>2, SameApproval DEF Meets
  <2>2. QED
    BY <1>0, <1>2, <2>1, ResourcesGrow DEF Meets
<1>3. QED
  BY <1>1, <1>2 DEF Meets

\* Resources are made by an approval that looked for them.
LEMMA NewResource ==
  ASSUME AppIInv, [AppNext]_appVars, NEW x \in resource', x \notin resource
  PROVE  \E c \in AppCalls : Make(c) /\ Asks(c, "approve") /\ IsFor(x, c)
<1>0. \A d \in Working : job[d] \in Job /\ JobFits(d)
  BY DEF AppIInv
<1>1. PICK c \in AppCalls : Make(c)
  BY DEF AppNext, Post, Apply, Reconfigure, ApproveStart, Reject, RejectAllRead, Look,
     Publish, SetApproved, ApproveFails, Sweep, Mail, appVars, appData
<1>2. Asks(c, "approve")
  BY <1>0, <1>1 DEF Make, Working, JobFits, Asks, Job
<1>3. IsFor(x, c)
  BY <1>1 DEF Make, IsFor
<1>4. QED
  BY <1>1, <1>2, <1>3

\* A step leaves each approval with its resource.
LEMMA AppResourcesStep ==
  ASSUME AppIInv, [AppNext]_appVars
  PROVE  \A c \in Working' : ResourceFits(c)'
<1>0. AppTypeOK /\ \A c \in Working : job[c] \in Job /\ JobFits(c) /\ ResourceFits(c)
  BY DEF AppIInv
<1> SUFFICES ASSUME NEW c \in AppCalls, apc'[c] # "idle"
             PROVE  ResourceFits(c)'
  BY DEF Working
<1>a. CASE Left(c)
  <2>1. c \in Working /\ ResourceFits(c) /\ Member(c)' = Member(c) /\ job'[c] = job[c]
    BY <1>0, <1>a, SameMember DEF Left, Working
  <2>2. \A x : IsFor(x, c)' <=> IsFor(x, c)
    BY <2>1 DEF IsFor
  <2>3. ASSUME apc[c] = "make", NEW x \in resource', IsFor(x, c) PROVE Member(c) \in approvedTwice'
    <3>1. CASE x \in resource
      BY <2>1, <2>3, <3>1, ResourcesGrow DEF ResourceFits
    <3>2. CASE x \notin resource
      <4>1. PICK d \in AppCalls : Make(d) /\ Asks(d, "approve") /\ IsFor(x, d)
        BY <3>2, NewResource
      <4>2. c # d
        BY <1>a, <4>1, <2>3, <1>0 DEF Make, Left, AppGoto, AppTypeOK
      <4>3. Asks(c, "approve")
        BY <1>0, <2>1, <2>3 DEF Asks, JobFits, Job, Working
      <4>4. Meets(c, d)
        BY <2>3, <4>1, <4>3 DEF Meets, IsFor
      <4>5. QED
        BY <4>2, <4>4, ResourcesGrow DEF AppIInv
    <3>3. QED
      BY <3>1, <3>2
  <2>4. QED
    BY <1>a, <2>1, <2>2, <2>3, ResourcesGrow DEF ResourceFits, Left
<1> USE <1>0 DEF AppTypeOK, AppGoto, AppLeave
<1>1. ASSUME NEW a \in Apps, ApproveStart(c, a) \/ Reject(c, a) PROVE ResourceFits(c)'
  BY <1>1 DEF ApproveStart, Reject, Decide, ResourceFits
<1>2. ASSUME NEW t \in Types, RejectAllRead(c, t) PROVE ResourceFits(c)'
  BY <1>2 DEF RejectAllRead, Decide, ResourceFits
<1>3. CASE Look(c)
  <2>1. job[c] \in Job /\ UNCHANGED <<resource, approvedTwice>>
    BY <1>3 DEF Look, Working, appData
  <2>2. CASE Held(c) = {} /\ UNCHANGED job
    <3>1. apc'[c] = "make" /\ Member(c)' = Member(c)
      BY <1>3, <2>2, SameMember DEF Look, AfterLook
    <3>2. QED
      BY <2>1, <2>2, <3>1 DEF ResourceFits, IsFor, Held
  <2>3. ASSUME NEW x \in Held(c), job' = [job EXCEPT ![c].id = x.id] PROVE ResourceFits(c)'
    <3>1. apc'[c] = "publish"
      BY <1>3, <2>3 DEF Look, AfterLook
    <3>2. job'[c] = [job[c] EXCEPT !.id = x.id]
      BY <2>3
    <3>3. job'[c].apps = job[c].apps /\ job'[c].role = job[c].role /\ job'[c].id = x.id
      BY <2>1, <3>2 DEF Job
    <3>4. x \in resource /\ x.member = Member(c) /\ x.role = job[c].role
      BY <2>3 DEF Held
    <3>5. QED
      BY <2>1, <3>1, <3>3, <3>4, SameMember DEF ResourceFits, IsFor
  <2>4. QED
    BY <1>3, <2>2, <2>3 DEF Look
<1>4. CASE Make(c)
  <2> DEFINE x == [id |-> Cardinality(resource) + 1, member |-> Member(c), role |-> job[c].role]
  <2>1. job[c] \in Job /\ apc'[c] = "publish" /\ x \in resource'
    BY <1>4 DEF Make, Working
  <2>2. job'[c] = [job[c] EXCEPT !.id = x.id]
    BY <1>4 DEF Make
  <2>3. job'[c].apps = job[c].apps /\ job'[c].role = job[c].role /\ job'[c].id = x.id
    BY <2>1, <2>2 DEF Job
  <2>4. x.member = Member(c)' /\ x.role = job'[c].role /\ x.id = job'[c].id
    BY <2>3, SameMember
  <2> HIDE DEF x
  <2>5. QED
    BY <2>1, <2>4 DEF ResourceFits, IsFor
<1>5. CASE Publish(c)
  <2>1. apc[c] = "publish" /\ apc'[c] = "approve" /\ job' = job /\ resource' = resource
        /\ told' = told \cup {job[c].id}
    BY <1>5 DEF Publish
  <2>2. PICK x \in resource : IsFor(x, c) /\ x.id = job[c].id
    BY <2>1 DEF ResourceFits, Working
  <2>3. IsFor(x, c)'
    BY <2>1, <2>2, SameMember DEF IsFor
  <2>4. QED
    BY <2>1, <2>2, <2>3 DEF ResourceFits
<1>6. CASE SetApproved(c) \/ Sweep(c) \/ ApproveFails(c) \/ Mail(c)
  BY <1>6 DEF SetApproved, Sweep, ApproveFails, Mail, ResourceFits
<1>7. CASE \E t \in Types : Post(t)
  BY <1>7, <1>a DEF Post, Left
<1>8. CASE \E m \in Members, r \in AppRoles : Apply(m, r)
  BY <1>8, <1>a DEF Apply, Left
<1>9. CASE Reconfigure \/ UNCHANGED appVars
  BY <1>9, <1>a DEF Reconfigure, Left, appVars
<1>10. QED
  BY <1>1, <1>2, <1>3, <1>4, <1>5, <1>6, <1>7, <1>8, <1>9, <1>a, OthersLeft DEF AppNext

\* A member holds a role once, unless two approvals of the member have met.
LEMMA OneResourceStep ==
  ASSUME AppIInv, [AppNext]_appVars
  PROVE  OneResourceEach'
<1>0. AppTypeOK /\ OneResourceEach /\ \A c \in Working : ResourceFits(c)
  BY DEF AppIInv
<1>1. ASSUME NEW x \in resource', NEW y \in resource', x \notin resource, y \in resource,
             x.member = y.member, x.role = y.role
      PROVE  x.member \in approvedTwice'
  <2>1. PICK c \in AppCalls : Make(c) /\ IsFor(x, c)
    BY <1>1, NewResource
  <2>2. QED
    BY <1>0, <1>1, <2>1, ResourcesGrow DEF Make, IsFor, ResourceFits, Working
<1>2. ASSUME NEW x \in resource', NEW y \in resource', x \notin resource, y \notin resource
      PROVE  x = y
  <2>1. PICK c \in AppCalls : Make(c)
    BY <1>2, NewResource
  <2>2. QED
    BY <1>2, <2>1 DEF Make
<1>3. QED
  BY <1>0, <1>1, <1>2, ResourcesGrow DEF OneResourceEach

\* An application becomes approved with its resource there and told of.
LEMMA AnnouncedStep ==
  ASSUME AppIInv, [AppNext]_appVars
  PROVE  ApprovedIsAnnounced'
<1>0. AppTypeOK /\ ApprovedIsAnnounced /\ \A c \in Working : job[c] \in Job /\ JobFits(c) /\ ResourceFits(c)
  BY DEF AppIInv
<1>1. ASSUME NEW a \in Apps, application'[a] = "APPROVED", application[a] # "APPROVED"
      PROVE  \E x \in resource : /\ x.member = a[1] /\ x.id \in told
                                 /\ x.role \in {Iterative, ResourceRoleOf[a[2]]}
  <2>1. PICK c \in AppCalls : SetApproved(c)
    <3>1. ASSUME NEW m \in Members, NEW r \in AppRoles, Apply(m, r) PROVE FALSE
      BY <1>0, <1>1, <3>1 DEF Apply, AppTypeOK
    <3>2. ASSUME NEW c \in AppCalls, NEW b \in Apps, Reject(c, b) PROVE FALSE
      BY <1>0, <1>1, <3>2 DEF Reject, AppTypeOK
    <3>3. ASSUME NEW c \in AppCalls, Sweep(c) PROVE FALSE
      BY <1>1, <3>3 DEF Sweep
    <3>4. application' # application
      BY <1>1
    <3>5. QED
      BY <3>1, <3>2, <3>3, <3>4 DEF AppNext, Post, Reconfigure, ApproveStart, RejectAllRead,
         Look, Make, Publish, ApproveFails, Mail, appVars, appData
  <2>2. a \in job[c].apps /\ apc[c] = "approve" /\ Asks(c, "approve")
    BY <1>0, <1>1, <2>1 DEF SetApproved, Working, JobFits, Asks, Job
  <2>3. job[c].apps = {a} /\ job[c].role \in {Iterative, ResourceRoleOf[a[2]]}
    BY <1>0, <2>2 DEF JobFits, Working
  <2>4. QED
    BY <1>0, <2>2, <2>3, MemberOf DEF ResourceFits, IsFor, Working
<1>2. QED
  BY <1>0, <1>1, ResourcesGrow DEF ApprovedIsAnnounced

\* What a call that begins makes of the calls there are.
LEMMA StartMeets ==
  ASSUME AppIInv, NEW c \in AppCalls, Starts(c)
  PROVE  \A a \in job'[c].scope : Busy(a) => a \in mixed'
BY DEF AppIInv, AppTypeOK, Starts, ApproveStart, Reject, RejectAllRead, Decide

\* Applications two calls meet on are noted.
LEMMA AppScopeStep ==
  ASSUME AppIInv, [AppNext]_appVars
  PROVE  /\ mixed \subseteq mixed'
         /\ \A c, d \in Working' : c # d => (job[c].scope \cap job[d].scope)' \subseteq mixed'
<1>0. AppTypeOK /\ \A c, d \in Working : c # d => job[c].scope \cap job[d].scope \subseteq mixed
  BY DEF AppIInv
<1>1. mixed \subseteq mixed'
  BY DEF AppNext, Post, Apply, Reconfigure, ApproveStart, Reject, RejectAllRead, Decide, Look, Make,
     Publish, SetApproved, ApproveFails, Sweep, Mail, appVars
<1>2. ASSUME NEW c \in Working', NEW d \in Working', c # d, Starts(c)
      PROVE  (job[c].scope \cap job[d].scope)' \subseteq mixed'
  <2>1. Left(d)
    BY <1>0, <1>2, OthersLeft DEF Starts, Working
  <2>2. QED
    BY <1>2, <2>1, StartMeets DEF Left, Busy, Working
<1>3. ASSUME NEW c \in Working', NEW d \in Working', c # d, ~Starts(c), ~Starts(d)
      PROVE  (job[c].scope \cap job[d].scope)' \subseteq mixed'
  <2>1. /\ c \in Working /\ job'[c].scope = job[c].scope
        /\ d \in Working /\ job'[d].scope = job[d].scope
    BY <1>3, SameJob DEF Working
  <2>2. QED
    BY <1>0, <1>1, <1>3, <2>1
<1>4. QED
  BY <1>1, <1>2, <1>3

\* An application, or its mail, changes by an application, or by a call about it.
LEMMA Touched ==
  ASSUME AppIInv, [AppNext]_appVars, NEW a \in Apps,
         application'[a] # application[a] \/ mail'[a] # mail[a]
  PROVE  \/ \E m \in Members, r \in AppRoles : a = <<m, r>> /\ Apply(m, r)
         \/ \E c \in AppCalls : Reject(c, a)
         \/ \E c \in AppCalls : a \in job[c].scope /\ (SetApproved(c) \/ Sweep(c) \/ Mail(c))
<1>0. AppTypeOK /\ \A c \in Working : job[c] \in Job /\ JobFits(c)
  BY DEF AppIInv
<1>1. \A c \in Working : job[c].apps \subseteq job[c].scope
  BY <1>0 DEF JobFits, Asks, Working, Job
<1>2. ASSUME NEW m \in Members, NEW r \in AppRoles, Apply(m, r) PROVE a = <<m, r>>
  BY <1>0, <1>2 DEF Apply, AppTypeOK
<1>3. ASSUME NEW c \in AppCalls, NEW b \in Apps, Reject(c, b) PROVE a = b
  BY <1>0, <1>3 DEF Reject, AppTypeOK
<1>4. ASSUME NEW c \in AppCalls, SetApproved(c) PROVE a \in job[c].scope
  BY <1>0, <1>1, <1>4 DEF SetApproved, AppTypeOK, Working
<1>5. ASSUME NEW c \in AppCalls, Sweep(c) PROVE a \in job[c].scope
  BY <1>0, <1>5 DEF Sweep, AppTypeOK, Swept
<1>6. ASSUME NEW c \in AppCalls, Mail(c) PROVE a \in job[c].scope
  BY <1>0, <1>1, <1>6 DEF Mail, AppTypeOK, Working
<1>7. application' # application \/ mail' # mail
  OBVIOUS
<1>8. QED
  BY <1>2, <1>3, <1>4, <1>5, <1>6, <1>7 DEF AppNext, Post, Reconfigure, ApproveStart, RejectAllRead,
     Look, Make, Publish, ApproveFails, appVars, appData

\* Nobody touches an application but the one call about it.
LEMMA Untouched ==
  ASSUME AppIInv, [AppNext]_appVars, NEW c \in Working, Left(c),
         NEW a \in job[c].scope, a \notin mixed'
  PROVE  application'[a] = application[a] /\ mail'[a] = mail[a]
<1>0. AppTypeOK /\ job[c] \in Job
  BY DEF AppIInv
<1>1. Busy(a) /\ a \in Apps /\ a \notin mixed
  BY <1>0, AppScopeStep DEF Busy, Job
<1>2. ASSUME NEW m \in Members, NEW r \in AppRoles, Apply(m, r), a = <<m, r>> PROVE FALSE
  BY <1>1, <1>2 DEF Apply
<1>3. ASSUME NEW d \in AppCalls, Reject(d, a) PROVE FALSE
  BY <1>1, <1>3 DEF Reject, Decide
<1>4. ASSUME NEW d \in AppCalls, a \in job[d].scope, SetApproved(d) \/ Sweep(d) \/ Mail(d) PROVE FALSE
  <2>1. d \in Working
    BY <1>4 DEF SetApproved, Sweep, Mail, Working
  <2>2. d # c
    BY <1>0, <1>4 DEF SetApproved, Sweep, Mail, Left, AppLeave, AppGoto, AppTypeOK
  <2>3. QED
    BY <1>1, <1>4, <2>1, <2>2 DEF AppIInv
<1>5. QED
  BY <1>1, <1>2, <1>3, <1>4, Touched

\* How an application stands follows the call about it.
LEMMA AppStandStep ==
  ASSUME AppIInv, [AppNext]_appVars
  PROVE  \A c \in Working' : \A a \in (job[c].scope \ mixed)' : StandsIn(c, a)'
<1>0. AppTypeOK /\ MailTellsStatus /\ \A c \in Working : job[c] \in Job /\ JobFits(c)
  BY DEF AppIInv
<1> SUFFICES ASSUME NEW c \in Working', NEW a \in job'[c].scope, a \notin mixed'
             PROVE  StandsIn(c, a)'
  OBVIOUS
<1>b. c \in AppCalls /\ apc'[c] # "idle" /\ a \notin mixed
  BY AppScopeStep DEF Working
<1>c. a \in Apps
  BY AppJobsStep DEF Job
<1>a. CASE Left(c)
  <2>1. c \in Working /\ a \in job[c].scope /\ job'[c] = job[c] /\ apc'[c] = apc[c]
    BY <1>a, <1>b DEF Left, Working
  <2>2. application'[a] = application[a] /\ mail'[a] = mail[a] /\ StandsIn(c, a)
    BY <1>b, <1>a, <2>1, Untouched DEF AppIInv
  <2>3. QED
    BY <2>1, <2>2 DEF StandsIn, Settled, Outcome
<1> USE <1>0 DEF AppTypeOK, AppGoto, AppLeave
<1>1. CASE Starts(c)
  <2>0. ~Busy(a) /\ Settled(a)
    BY <1>1, <1>b, <1>c, StartMeets DEF MailTellsStatus, Settled
  <2>1. ASSUME NEW b \in Apps, ApproveStart(c, b) PROVE StandsIn(c, a)'
    BY <2>0, <2>1, <1>b DEF ApproveStart, Decide, StandsIn, Settled, appData
  <2>2. ASSUME NEW b \in Apps, Reject(c, b) PROVE StandsIn(c, a)'
    <3>1. a = b /\ job'[c].apps = {b} /\ job'[c].kind = "reject" /\ apc'[c] = "mail"
      BY <2>2, <1>b DEF Reject, Decide
    <3>2. application'[a] = "REJECTED"
      BY <2>2, <3>1 DEF Reject
    <3>3. QED
      BY <3>1, <3>2 DEF StandsIn, Outcome
  <2>3. ASSUME NEW t \in Types, RejectAllRead(c, t) PROVE StandsIn(c, a)'
    <3>1. job'[c].scope = OfType(t) /\ job'[c].apps = PendingOf(t) /\ apc'[c] = "sweep"
          /\ UNCHANGED <<application, mail>>
      BY <2>3, <1>b DEF RejectAllRead, Decide, appData
    <3>2. QED
      BY <2>0, <3>1 DEF StandsIn, Settled, PendingOf
  <2>4. QED
    BY <1>1, <2>1, <2>2, <2>3 DEF Starts
<1>2. CASE ~Starts(c) /\ ~Left(c)
  <2>0. /\ c \in Working /\ a \in job[c].scope
        /\ job'[c].kind = job[c].kind /\ job'[c].apps = job[c].apps
    BY <1>2, <1>b, SameJob
  <2>1. StandsIn(c, a) /\ JobFits(c) /\ job[c] \in Job
    BY <1>b, <2>0 DEF AppIInv
  <2>2. CASE Look(c) \/ Make(c) \/ Publish(c)
    <3>1. UNCHANGED <<application, mail>> /\ apc[c] \in {"look", "make", "publish"}
          /\ apc'[c] \in {"make", "publish", "approve"}
      BY <2>2, <1>b DEF Look, AfterLook, Make, Publish, appData
    <3>2. QED
      BY <2>1, <3>1 DEF StandsIn, Settled
  <2>3. CASE SetApproved(c)
    <3>1. apc[c] = "approve" /\ apc'[c] = "mail" /\ job[c].kind = "approve" /\ a \in job[c].apps
      BY <2>3, <1>b, <2>0, <2>1 DEF SetApproved, JobFits, Asks, Job
    <3>2. application'[a] = "APPROVED"
      BY <2>3, <3>1, <1>c DEF SetApproved
    <3>3. QED
      BY <2>0, <3>1, <3>2 DEF StandsIn, Outcome
  <2>4. CASE Sweep(c)
    <3>1. apc[c] = "sweep" /\ apc'[c] = "mail" /\ job[c].kind = "rejectAll" /\ mail' = mail
      BY <2>4, <1>b, <2>1 DEF Sweep, JobFits
    <3>2. Settled(a) /\ (a \in job[c].apps <=> application[a] = "PENDING")
      BY <2>1, <3>1 DEF StandsIn
    <3>3. application'[a] = IF a \in job[c].apps THEN "REJECTED" ELSE application[a]
      BY <2>0, <2>4, <3>2, <1>c DEF Sweep, Swept
    <3>4. QED
      BY <2>0, <3>1, <3>2, <3>3 DEF StandsIn, Settled, Outcome
  <2>5. CASE ApproveFails(c) \/ Mail(c)
    BY <2>5, <1>b DEF ApproveFails, Mail
  <2>6. CASE \E t \in Types : Post(t)
    BY <2>6, <1>2 DEF Post, Left
  <2>7. CASE \E m \in Members, r \in AppRoles : Apply(m, r)
    BY <2>7, <1>2 DEF Apply, Left
  <2>8. CASE Reconfigure \/ UNCHANGED appVars
    BY <2>8, <1>2 DEF Reconfigure, Left, appVars
  <2>9. QED
    BY <1>2, <1>b, <2>2, <2>3, <2>4, <2>5, <2>6, <2>7, <2>8, OthersLeft DEF AppNext, Starts
<1>3. QED
  BY <1>a, <1>1, <1>2

\* A call leaves an application with the mail that says how it stands.
LEMMA MailStep ==
  ASSUME AppIInv, [AppNext]_appVars
  PROVE  MailTellsStatus'
<1>0. AppTypeOK /\ MailTellsStatus /\ \A c \in Working : job[c] \in Job /\ JobFits(c)
  BY DEF AppIInv
<1> SUFFICES ASSUME NEW a \in Apps, a \notin mixed', ~Busy(a)'
             PROVE  Settled(a)'
  BY DEF MailTellsStatus, Settled
<1>1. a \notin mixed
  BY AppScopeStep
<1>2. CASE ~Busy(a)
  <2>1. Settled(a)
    BY <1>0, <1>1, <1>2 DEF MailTellsStatus, Settled
  <2>2. ASSUME NEW m \in Members, NEW r \in AppRoles, Apply(m, r), a = <<m, r>> PROVE Settled(a)'
    BY <1>0, <2>1, <2>2 DEF Apply, Settled, Existing, AppTypeOK
  <2>3. ASSUME NEW c \in AppCalls, Reject(c, a) PROVE FALSE
    BY <1>0, <2>3 DEF Reject, Decide, AppGoto, AppTypeOK, Busy, Working
  <2>4. ASSUME NEW c \in AppCalls, a \in job[c].scope, SetApproved(c) \/ Sweep(c) \/ Mail(c) PROVE FALSE
    BY <1>2, <2>4 DEF SetApproved, Sweep, Mail, Busy, Working
  <2>5. CASE application'[a] = application[a] /\ mail'[a] = mail[a]
    BY <2>1, <2>5 DEF Settled
  <2>6. QED
    BY <2>2, <2>3, <2>4, <2>5, Touched
<1>3. ASSUME NEW c \in Working, a \in job[c].scope PROVE Settled(a)'
  <2>0. StandsIn(c, a) /\ c \in AppCalls /\ apc[c] # "idle"
    BY <1>1, <1>3 DEF AppIInv, Working
  <2>1. ~Left(c)
    BY <1>3, <2>0 DEF Left, Busy, Working
  <2>2. apc'[c] = "idle"
    <3>1. CASE Starts(c)
      BY <2>0, <3>1 DEF Starts, ApproveStart, Reject, RejectAllRead, Decide
    <3>2. CASE ~Starts(c) /\ apc'[c] # "idle"
      BY <2>0, <3>2, <1>3, SameJob DEF Busy, Working
    <3>3. QED
      BY <3>1, <3>2
  <2>3. CASE ApproveFails(c)
    BY <2>0, <2>3 DEF ApproveFails, StandsIn, Settled
  <2>4. CASE Mail(c)
    <3>1. apc[c] = "mail" /\ UNCHANGED application
      BY <2>4 DEF Mail
    <3>2. CASE UNCHANGED mixed
      <4>1. mail'[a] = IF a \in job[c].apps THEN Outcome(c) ELSE mail[a]
        <5>1. CASE mail' = [b \in Apps |-> IF b \in job[c].apps THEN Outcome(c) ELSE mail[b]]
          BY <5>1
        <5>2. CASE mixed' = mixed \cup job[c].apps /\ UNCHANGED mail
          BY <1>1, <3>2, <5>2
        <5>3. QED
          BY <2>4, <5>1, <5>2 DEF Mail, Outcome
      <4>2. QED
        BY <2>0, <3>1, <4>1 DEF StandsIn, Settled, Outcome
    <3>3. CASE mixed' = mixed \cup job[c].apps /\ UNCHANGED mail
      BY <2>0, <3>1, <3>3 DEF StandsIn, Settled
    <3>4. QED
      BY <2>4, <3>2, <3>3 DEF Mail
  <2>5. CASE Starts(c)
    BY <2>0, <2>5 DEF Starts, ApproveStart, Reject, RejectAllRead, Decide
  <2>6. CASE Look(c) \/ Make(c) \/ Publish(c) \/ SetApproved(c) \/ Sweep(c)
    BY <1>0, <2>0, <2>2, <2>6 DEF Look, Make, Publish, SetApproved, Sweep, AppGoto, AfterLook, AppTypeOK
  <2>7. CASE \E t \in Types : Post(t)
    BY <2>7, <2>1 DEF Post, Left
  <2>8. CASE \E m \in Members, r \in AppRoles : Apply(m, r)
    BY <2>8, <2>1 DEF Apply, Left
  <2>9. CASE Reconfigure \/ UNCHANGED appVars
    BY <2>9, <2>1 DEF Reconfigure, Left, appVars
  <2>10. QED
    BY <1>0, <2>0, <2>1, <2>3, <2>4, <2>5, <2>6, <2>7, <2>8, <2>9, OthersLeft DEF AppNext, Starts
<1>4. QED
  BY <1>2, <1>3 DEF Busy

\* Every step keeps the invariant.
LEMMA AppStep == AppIInv /\ [AppNext]_appVars => AppIInv'
<1> SUFFICES ASSUME AppIInv, [AppNext]_appVars PROVE AppIInv'
  OBVIOUS
<1>1. AppTypeOK' /\ IsFiniteSet(resource')
  BY AppTypeStep
<1>2. \A c \in Working' : (job[c] \in Job)' /\ JobFits(c)' /\ ResourceFits(c)'
  BY AppJobsStep, AppResourcesStep
<1>3. \A c, d \in AppCalls : c # d /\ Meets(c, d)' => Member(c)' \in approvedTwice'
  BY AppMeetStep
<1>4. \A c, d \in Working' : c # d => (job[c].scope \cap job[d].scope)' \subseteq mixed'
  BY AppScopeStep
<1>5. \A c \in Working' : \A a \in (job[c].scope \ mixed)' : StandsIn(c, a)'
  BY AppStandStep
<1>6. ApprovedIsAnnounced' /\ OneResourceEach' /\ MailTellsStatus'
  BY AnnouncedStep, OneResourceStep, MailStep
<1>7. QED
  BY <1>1, <1>2, <1>3, <1>4, <1>5, <1>6 DEF AppIInv

LEMMA AppInvariance == AppSpec => []AppIInv
<1>1. (\E budget \in [AppBudget -> Nat] : AppInit(budget)) => AppIInv
  BY AppInitIInv
<1>2. QED
  BY <1>1, AppStep, PTL DEF AppSpec

\* A member is approved only with a resource that autopilot was told of, and the
\* last mail says how an application stands, unless calls met on it or a mail
\* failed: applications.service.ts, for any number of calls.
THEOREM DecisionsAreFollowed == AppSpec => []DecisionsFollow
<1>1. AppIInv => DecisionsFollow
  BY DEF AppIInv, DecisionsFollow
<1>2. QED
  BY <1>1, AppInvariance, PTL

\* A member holds a resource role once, unless two approvals of the member met.
THEOREM OneResourceHeld == AppSpec => []OneResourceEach
<1>1. AppIInv => OneResourceEach
  BY DEF AppIInv
<1>2. QED
  BY <1>1, AppInvariance, PTL

-----------------------------------------------------------------------------
(* Pending reviews: until an unlock commits, what it owes is built or made  *)
(* already.                                                                 *)

PendingIInv ==
    /\ PendingTypeOK
    /\ \A c \in Unlockers : place[c] = "insert" => owed[c] \subseteq Keys(built[c]) \cup Keys(made)
    /\ UnlockedIsReviewed

\* What either service builds are rows for the phases of the challenge.
LEMMA RowsOfPhases ==
  ASSUME of \in Challenge
  PROVE  /\ EnsuredRows \subseteq PendingRow /\ OverrideRows \subseteq PendingRow
         /\ \A r \in EnsuredRows : /\ TakenByEnsure(r.stage) /\ r.stage \in Stages
                                   /\ r.assignee \in EnsureAssignees(r.stage)
                                   /\ r.card \in of.cards[r.stage]
<1>1. \A p \in Stages : EnsureAssignees(p) \subseteq Assignees /\ OverrideAssignees(p) \subseteq Assignees
                        /\ of.cards[p] \subseteq Cards
  BY DEF Challenge, EnsureAssignees, OverrideAssignees
<1>2. QED
  BY <1>1 DEF EnsuredRows, OverrideRows, PendingRow

\* An unlock builds what passing would have given, for the phases it knows: it
\* goes by role, and so do resources made for a phase.
LEMMA OverrideCovers ==
  ASSUME of \in Challenges
  PROVE  EnsuredInstead \subseteq OverrideRows
<1>0. of \in Challenge
  BY ChallengesAssumption
<1> SUFFICES ASSUME NEW r \in EnsuredRows, of.name[r.stage] \notin {"approval", "checkpoint review"}
             PROVE  r \in OverrideRows
  BY DEF EnsuredInstead
<1>1. /\ r \in PendingRow /\ TakenByEnsure(r.stage) /\ r.stage \in Stages
      /\ r.assignee \in EnsureAssignees(r.stage) /\ r.card \in of.cards[r.stage]
  BY <1>0, RowsOfPhases
<1>2. TakenByOverride(r.stage)
  BY <1>0, <1>1 DEF TakenByEnsure, TakenByOverride, OverrideNames, ReviewerOf, StageNames, Challenge
<1>3. r.assignee \in OverrideAssignees(r.stage)
  <2>1. \A a \in Assignees : of.madeFor[a] = r.stage => of.role[a] = ReviewerOf[of.name[r.stage]]
    BY <1>1, ChallengesAssumption, StagesAssumption
  <2>2. QED
    BY <1>1, <2>1 DEF EnsureAssignees, OverrideAssignees
<1>4. r \in [assignee : OverrideAssignees(r.stage), card : of.cards[r.stage], stage : {r.stage}]
  BY <1>1, <1>3 DEF PendingRow
<1>5. QED
  BY <1>1, <1>2, <1>4 DEF OverrideRows

\* After an insert the keys of the rows are there.
LEMMA InsertsKeys ==
  ASSUME NEW rs, Insert(rs)
  PROVE  Keys(made') = Keys(made) \cup Keys(rs) /\ made' \subseteq made \cup rs
BY DEF Insert, Keys

LEMMA PendingInitIInv ==
  ASSUME NEW calls, PendingInit(calls)
  PROVE  PendingIInv
BY DEF PendingInit, PendingIInv, PendingTypeOK, PendingCalls, UnlockedIsReviewed

\* Every step keeps the invariant.
LEMMA PendingStep == PendingIInv /\ [PendingNext]_pendingVars => PendingIInv'
<1> SUFFICES ASSUME PendingIInv, [PendingNext]_pendingVars PROVE PendingIInv'
  OBVIOUS
<1> USE DEF PendingIInv, PendingTypeOK, UnlockedIsReviewed, PendingCalls
<1>0. of \in Challenge
  BY ChallengesAssumption
<1>1. ASSUME NEW p \in Stages, StageMoves(p) PROVE PendingIInv'
  BY <1>1 DEF StageMoves
<1>2. ASSUME NEW c \in Ensurers, EnsureRead(c) PROVE PendingIInv'
  <2>1. c \notin Unlockers /\ EnsuredRows \subseteq PendingRow
    BY <1>0, PendingCallsAssumption, RowsOfPhases
  <2>2. QED
    BY <1>2, <2>1 DEF EnsureRead
<1>3. ASSUME NEW c \in Ensurers, EnsureInsert(c) PROVE PendingIInv'
  <2>1. Keys(made') = Keys(made) \cup Keys(built[c]) /\ made' \subseteq made \cup built[c]
    BY <1>3, InsertsKeys DEF EnsureInsert
  <2>2. QED
    BY <1>3, <2>1 DEF EnsureInsert
<1>4. ASSUME NEW c \in Unlockers, UnlockRead(c) PROVE PendingIInv'
  <2>1. EnsuredInstead \subseteq OverrideRows
    BY OverrideCovers
  <2>2. Keys(EnsuredInstead) \subseteq Assignees \X Cards
    <3>1. EnsuredInstead \subseteq PendingRow
      BY <1>0, RowsOfPhases DEF EnsuredInstead
    <3>2. QED
      BY <3>1 DEF Keys, PendingRow
  <2>3. owed'[c] \subseteq Keys(built'[c]) \cup Keys(made)
    BY <1>4, <2>1 DEF UnlockRead, Keys
  <2>4. QED
    BY <1>0, <1>4, <2>2, <2>3, RowsOfPhases DEF UnlockRead
<1>5. ASSUME NEW c \in Unlockers, UnlockCommit(c) PROVE PendingIInv'
  <2>1. Keys(made') = Keys(made) \cup Keys(built[c]) /\ made' \subseteq made \cup built[c]
    BY <1>5, InsertsKeys DEF UnlockCommit
  <2>2. QED
    BY <1>5, <2>1 DEF UnlockCommit
<1>6. ASSUME NEW c \in Unlockers, UnlockFails(c) PROVE PendingIInv'
  BY <1>6 DEF UnlockFails
<1>7. CASE UNCHANGED pendingVars
  BY <1>7 DEF pendingVars
<1>8. QED
  BY <1>1, <1>2, <1>3, <1>4, <1>5, <1>6, <1>7 DEF PendingNext

\* A submission an escalation has unlocked gets at least the reviews passing
\* would have given it, for any challenge, phases and calls:
\* buildPendingReviewsForUnlockedSubmission beside ensurePendingReviewsForSubmission.
THEOREM UnlockedAreReviewed == PendingSpec => []UnlockedIsReviewed
<1>1. (\E calls \in SUBSET PendingCalls : PendingInit(calls)) => PendingIInv
  BY PendingInitIInv
<1>2. PendingIInv => UnlockedIsReviewed
  BY DEF PendingIInv
<1>3. QED
  BY <1>1, <1>2, PendingStep, PTL DEF PendingSpec

-----------------------------------------------------------------------------
(* Items of a run: what a call has read and still holds, unless calls met.  *)

\* A call goes on with an edit of these parts.
EditParts(e) ==
    /\ e = [target |-> e.target, by |-> e.by, vote |-> e.vote, score |-> e.score, seen |-> e.seen,
            run |-> e.run, total |-> e.total]
    /\ e.target \in Targets /\ e.by \in Authors /\ e.vote \in Votes \cup {NoScore} /\ e.score \in Scored

\* What it asks by where it is: to vote, or to correct an item.
EditFits(c) ==
    /\ ipc[c] \in {"unvote", "vote"} => edit[c].vote # NoScore /\ edit[c].by \in Managers
    /\ ipc[c] \in {"phase", "total", "write"} => edit[c].score # NoScore
    /\ edit[c].score # NoScore => edit[c].target \in Present /\ edit[c].seen \in Item

\* Without another edit, or a post, it has read what is there.
EditCurrent(c) ==
    /\ edit[c].seen = item[edit[c].target]
    /\ edit[c].run = [score |-> score, initial |-> initial]
    /\ ipc[c] = "write" => edit[c].total = TotalOf(WithScore(c))

\* Between taking the user's old vote and casting the new one there is none.
Voting(c, t, u) == Same(c, t, u) /\ ipc[c] \in {"unvote", "vote"}

VoteFollows(t, u) ==
    /\ \A c \in ItemCalls : Voting(c, t, u) =>
         /\ edit[c].vote = asked[t][u]
         /\ ipc[c] = "vote" => vote[t][u] = "none"
         /\ \A d \in ItemCalls : Voting(d, t, u) => c = d
    /\ (\A c \in ItemCalls : ~Voting(c, t, u)) => vote[t][u] = asked[t][u]

ItemsShape ==
    /\ item \in [Items -> Item \cup {NoScore}]
    /\ remarked \subseteq Remarks
    /\ vote \in [Targets -> [Managers -> Votes]] /\ asked \in [Targets -> [Managers -> Votes]]
    /\ ipc \in [ItemCalls -> {"idle", "unvote", "vote", "phase", "total", "write"}]
    /\ edit = [c \in ItemCalls |-> edit[c]]
    /\ corrected = [x \in Items \cup {"run"} |-> corrected[x]]
    /\ met \in BOOLEAN /\ edited \in BOOLEAN
    /\ \A c \in ItemCalls : ipc[c] # "idle" => EditParts(edit[c]) /\ EditFits(c)

ItemsIInv ==
    /\ ItemsShape
    /\ ~met => /\ \A c, d \in Editing : c = d
               /\ \A c \in Editing : EditCurrent(c)
    /\ \A i \in Items \ Present : corrected[i] = NoScore
    /\ \A t \in Targets, u \in Managers : <<t, u>> \notin unclear => VoteFollows(t, u)
    /\ RunScoreFollowsItems /\ FirstScoresKept

LEMMA ItemsInitIInv ==
  ASSUME NEW budget, ItemsInit(budget)
  PROVE  ItemsIInv
<1>1. ItemsShape /\ Present = {} /\ Editing = {}
  BY DEF ItemsInit, ItemsShape, Votes, Present, Editing
<1>2. \A t \in Targets, u \in Managers : VoteFollows(t, u)
  BY DEF ItemsInit, VoteFollows, Voting
<1>3. RunScoreFollowsItems /\ FirstScoresKept /\ \A i \in Items : corrected[i] = NoScore
  BY <1>1 DEF ItemsInit, RunScoreFollowsItems, FirstScoresKept
<1>4. QED
  BY <1>1, <1>2, <1>3 DEF ItemsIInv

ILeft(c) == ipc'[c] = ipc[c] /\ edit'[c] = edit[c]

\* The steps of a call that has begun
EditStep(c) == Unvote(c) \/ CastVote(c) \/ CheckPhase(c) \/ ComputeTotal(c) \/ Write(c) \/ Abandon(c)

\* A call begins.
Begins(c) == \E t \in Targets, u \in Authors, v \in Votes \cup {NoScore}, s \in Scored : Begin(c, t, u, v, s)

LEMMA ItemOthersLeft ==
  ASSUME ItemsShape, NEW c \in ItemCalls, NEW d \in ItemCalls \ {c}, Begins(c) \/ EditStep(c)
  PROVE  ILeft(d)
<1> USE DEF ItemsShape, ILeft, IGoto, ILeave
<1>1. CASE Begins(c)
  BY <1>1 DEF Begins, Begin
<1>2. CASE Unvote(c) \/ CheckPhase(c) \/ Write(c) \/ Abandon(c)
  BY <1>2 DEF Unvote, CheckPhase, Write, Abandon
<1>3. CASE CastVote(c)
  BY <1>3 DEF CastVote
<1>4. CASE ComputeTotal(c)
  BY <1>4 DEF ComputeTotal
<1>5. QED
  BY <1>1, <1>2, <1>3, <1>4 DEF EditStep

\* What a call is when it has begun.
LEMMA Begun ==
  ASSUME ItemsShape, NEW c \in ItemCalls, NEW t \in Targets, NEW u \in Authors,
         NEW v \in Votes \cup {NoScore}, NEW s \in Scored, Begin(c, t, u, v, s)
  PROVE  /\ ipc[c] = "idle"
         /\ ipc'[c] = IF v # NoScore THEN "unvote" ELSE IF u = Machine THEN "total" ELSE "phase"
         /\ edit'[c].target = t /\ edit'[c].by = u /\ edit'[c].vote = v /\ edit'[c].score = s
         /\ edit'[c].seen = (IF t \in Items THEN item[t] ELSE NoScore)
         /\ edit'[c].run = [score |-> score, initial |-> initial]
         /\ EditParts(edit'[c])
<1>1. edit'[c] = [target |-> t, by |-> u, vote |-> v, score |-> s,
                  seen |-> IF t \in Items THEN item[t] ELSE NoScore,
                  run |-> [score |-> score, initial |-> initial], total |-> NoScore]
  BY DEF Begin, ItemsShape
<1>2. ipc[c] = "idle"
      /\ ipc'[c] = IF v # NoScore THEN "unvote" ELSE IF u = Machine THEN "total" ELSE "phase"
  BY DEF Begin, ItemsShape
<1>3. QED
  BY <1>1, <1>2 DEF EditParts

\* A call that has begun goes on with its edit, but for the total.
LEMMA SameEdit ==
  ASSUME ItemsShape, NEW c \in ItemCalls, ipc[c] # "idle", EditStep(c), ipc'[c] # "idle"
  PROVE  /\ EditParts(edit'[c])
         /\ edit'[c].target = edit[c].target /\ edit'[c].by = edit[c].by
         /\ edit'[c].vote = edit[c].vote /\ edit'[c].score = edit[c].score
         /\ edit'[c].seen = edit[c].seen /\ edit'[c].run = edit[c].run
         /\ \/ edit'[c] = edit[c]
            \/ edit'[c].total = TotalOf(WithScore(c)) /\ ComputeTotal(c)
<1>0. EditParts(edit[c])
  BY DEF ItemsShape
<1>1. CASE Unvote(c) \/ CheckPhase(c)
  BY <1>0, <1>1 DEF Unvote, CheckPhase, IGoto, ILeave, ItemsShape
<1>2. CASE CastVote(c)
  BY <1>0, <1>2 DEF CastVote, IGoto, ILeave, ItemsShape
<1>3. CASE ComputeTotal(c)
  <2>1. edit'[c] = [edit[c] EXCEPT !.total = TotalOf(WithScore(c))]
    BY <1>3 DEF ComputeTotal, ItemsShape
  <2>2. QED
    BY <1>0, <1>3, <2>1 DEF EditParts
<1>4. CASE Write(c) \/ Abandon(c)
  BY <1>4 DEF Write, Abandon, ILeave, ItemsShape
<1>5. QED
  BY <1>1, <1>2, <1>3, <1>4 DEF EditStep

\* What a step does to the items: nothing, new ones, or one of them corrected.
LEMMA ItemsFate ==
  ASSUME ItemsShape, [ItemsNext]_itemVars
  PROVE  /\ item' \in [Items -> Item \cup {NoScore}] /\ Present \subseteq Present'
         /\ \/ item' = item
            \/ \E S \in SUBSET Items, s \in Scored : PostItems(S, s)
            \/ \E c \in ItemCalls : Write(c) /\ c \in Editing /\ edit[c].target \in Present
<1>1. ASSUME NEW S \in SUBSET Items, NEW s \in Scored, PostItems(S, s)
      PROVE  item' \in [Items -> Item \cup {NoScore}] /\ Present \subseteq Present'
  <2>1. [score |-> s, original |-> NoScore] \in Item
    BY DEF Item, Scored
  <2>2. QED
    BY <1>1, <2>1 DEF PostItems, ItemsShape, Present
<1>2. ASSUME NEW c \in ItemCalls, Write(c)
      PROVE  /\ item' \in [Items -> Item \cup {NoScore}] /\ Present \subseteq Present'
             /\ c \in Editing /\ edit[c].target \in Present
  <2>1. ipc[c] = "write" /\ c \in Editing /\ edit[c].target \in Present /\ edit[c].seen \in Item
        /\ EditParts(edit[c])
    BY <1>2 DEF Write, ItemsShape, EditFits, Editing
  <2>2. item[edit[c].target] \in Item
    BY <2>1 DEF ItemsShape, Present
  <2>3. FirstOfItem(c) \in Scored
    BY <2>1, <2>2 DEF FirstOfItem, Item
  <2>4. [score |-> edit[c].score, original |-> FirstOfItem(c)] \in Item
    BY <2>1, <2>3 DEF EditParts, Item
  <2>5. item' = [item EXCEPT ![edit[c].target] = [score |-> edit[c].score, original |-> FirstOfItem(c)]]
    BY <1>2 DEF Write
  <2>6. QED
    BY <2>1, <2>4, <2>5, NoScoreAssumption DEF ItemsShape, Present
<1>3. CASE item' = item
  BY <1>3 DEF ItemsShape, Present
<1>4. ASSUME item' # item
      PROVE  (\E S \in SUBSET Items, s \in Scored : PostItems(S, s)) \/ \E c \in ItemCalls : Write(c)
  <2>1. \A c \in ItemCalls : Begins(c) \/ EditStep(c) => Write(c)
    BY <1>4 DEF Begins, EditStep, Begin, Unvote, CastVote, CheckPhase, ComputeTotal, Abandon, itemRows
  <2>2. ~(\E s \in ItemScores : PostScore(s)) /\ ~TurnApproval /\ ~(\E r \in Remarks : Remark(r))
        /\ ~UNCHANGED itemVars
    BY <1>4 DEF PostScore, TurnApproval, Remark, itemRows, itemVars
  <2>3. QED
    BY <2>1, <2>2 DEF ItemsNext, Begins, EditStep
<1>5. QED
  BY <1>1, <1>2, <1>3, <1>4

\* A call that goes on is one that has begun now, or has gone on.
LEMMA EditGoesOn ==
  ASSUME ItemsShape, [ItemsNext]_itemVars, NEW c \in ItemCalls, ipc'[c] # "idle"
  PROVE  Begins(c) \/ (ipc[c] # "idle" /\ (ILeft(c) \/ EditStep(c)))
<1>1. ASSUME NEW d \in ItemCalls, Begins(d) \/ EditStep(d)
      PROVE  Begins(c) \/ EditStep(c) \/ ILeft(c)
  BY <1>1, ItemOthersLeft
<1>2. CASE \/ \E S \in SUBSET Items, s \in Scored : PostItems(S, s)
           \/ \E s \in ItemScores : PostScore(s)
           \/ TurnApproval \/ (\E r \in Remarks : Remark(r)) \/ UNCHANGED itemVars
  BY <1>2 DEF PostItems, PostScore, TurnApproval, Remark, itemVars, ILeft
<1>3. Begins(c) \/ EditStep(c) \/ ILeft(c)
  BY <1>1, <1>2 DEF ItemsNext, Begins, EditStep
<1>4. EditStep(c) => ipc[c] # "idle"
  BY DEF EditStep, Unvote, CastVote, CheckPhase, ComputeTotal, Write, Abandon
<1>5. QED
  BY <1>3, <1>4 DEF ILeft

\* One vote of one user changed.
LEMMA VotesExcept ==
  ASSUME NEW f \in [Targets -> [Managers -> Votes]], NEW t \in Targets, NEW u \in Managers, NEW v \in Votes
  PROVE  [f EXCEPT ![t][u] = v] \in [Targets -> [Managers -> Votes]]
<1>1. [f[t] EXCEPT ![u] = v] \in [Managers -> Votes]
  OBVIOUS
<1>2. [f EXCEPT ![t][u] = v] = [f EXCEPT ![t] = [f[t] EXCEPT ![u] = v]]
  OBVIOUS
<1>3. QED
  BY <1>1, <1>2

\* Every step keeps the shape of the rows, the votes and the calls.
LEMMA ItemsShapeStep ==
  ASSUME ItemsShape, [ItemsNext]_itemVars
  PROVE  ItemsShape'
<1>1. item' \in [Items -> Item \cup {NoScore}] /\ Present \subseteq Present'
  BY ItemsFate
<1>2. /\ remarked' \subseteq Remarks
      /\ vote' \in [Targets -> [Managers -> Votes]] /\ asked' \in [Targets -> [Managers -> Votes]]
  <2> USE DEF ItemsShape
  <2>1. CASE \E r \in Remarks : Remark(r)
    BY <2>1 DEF Remark
  <2>2. CASE \E c \in ItemCalls : Unvote(c)
    <3>1. PICK c \in ItemCalls : Unvote(c)
      BY <2>2
    <3>2. \A t \in Targets : [u \in Managers |-> IF u \in Unvoted(c) THEN "none" ELSE vote[t][u]]
                             \in [Managers -> Votes]
      BY DEF Votes
    <3>3. vote' = [vote EXCEPT ![edit[c].target] =
                     [u \in Managers |-> IF u \in Unvoted(c) THEN "none" ELSE vote[edit[c].target][u]]]
      BY <3>1 DEF Unvote
    <3>4. edit[c].target \in Targets
      BY <3>1 DEF Unvote, EditParts
    <3>5. QED
      BY <3>1, <3>2, <3>3, <3>4 DEF Unvote
  <2>3. CASE \E c \in ItemCalls : CastVote(c)
    <3>1. PICK c \in ItemCalls : CastVote(c)
      BY <2>3
    <3>2. ipc[c] = "vote" /\ EditParts(edit[c]) /\ EditFits(c)
      BY <3>1 DEF CastVote
    <3>3. edit[c].target \in Targets /\ edit[c].vote \in Votes /\ edit[c].by \in Managers
      BY <3>2 DEF EditParts, EditFits
    <3>4. vote' = vote \/ \E v \in Votes : vote' = [vote EXCEPT ![edit[c].target][edit[c].by] = v]
      <4>1. CASE edit[c].vote = "none"
        <5>1. \/ vote' = [vote EXCEPT ![edit[c].target][edit[c].by] =
                                         vote[edit[c].target][edit[c].by]]
              \/ vote' = vote
          BY <3>1, <4>1 DEF CastVote
        <5>2. vote[edit[c].target][edit[c].by] \in Votes
          BY <3>3
        <5>3. QED
          BY <5>1, <5>2
      <4>2. CASE edit[c].vote # "none"
        <5>1. vote' = [vote EXCEPT ![edit[c].target][edit[c].by] = edit[c].vote] \/ vote' = vote
          BY <3>1, <4>2 DEF CastVote
        <5>2. QED
          BY <3>3, <5>1
      <4>3. QED
        BY <4>1, <4>2
    <3>5. vote' \in [Targets -> [Managers -> Votes]]
      <4>1. vote \in [Targets -> [Managers -> Votes]]
        OBVIOUS
      <4>2. ASSUME NEW v \in Votes
            PROVE  [vote EXCEPT ![edit[c].target][edit[c].by] = v] \in [Targets -> [Managers -> Votes]]
        BY <3>3, <4>1, VotesExcept
      <4>3. QED
        BY <3>4, <4>1, <4>2
    <3>6. QED
      BY <3>1, <3>5 DEF CastVote
  <2>4. CASE \E c \in ItemCalls : Begins(c)
    <3>1. PICK c \in ItemCalls, t \in Targets, u \in Authors, v \in Votes \cup {NoScore}, s \in Scored :
                 Begin(c, t, u, v, s)
      BY <2>4 DEF Begins
    <3>2. v # NoScore => v \in Votes /\ u \in Managers
      BY <3>1 DEF Begin, Authors
    <3>3. asked' \in [Targets -> [Managers -> Votes]]
      BY <3>1, <3>2 DEF Begin
    <3>4. QED
      BY <3>1, <3>3 DEF Begin
  <2>5. CASE UNCHANGED <<remarked, vote, asked>>
    BY <2>5
  <2>6. QED
    BY <2>1, <2>2, <2>3, <2>4, <2>5 DEF ItemsNext, Begins, PostItems, PostScore, TurnApproval, CheckPhase,
       ComputeTotal, Write, Abandon, voteRows, itemVars
<1>3. /\ ipc' \in [ItemCalls -> {"idle", "unvote", "vote", "phase", "total", "write"}]
      /\ edit' = [c \in ItemCalls |-> edit'[c]]
  <2> USE DEF ItemsShape, IGoto, ILeave
  <2>1. CASE \E c \in ItemCalls : Begins(c)
    <3>1. PICK c \in ItemCalls, t \in Targets, u \in Authors, v \in Votes \cup {NoScore}, s \in Scored :
                 Begin(c, t, u, v, s)
      BY <2>1 DEF Begins
    <3>2. ipc' = [ipc EXCEPT ![c] = IF v # NoScore THEN "unvote" ELSE IF u = Machine THEN "total"
                                    ELSE "phase"]
      BY <3>1 DEF Begin
    <3>3. \E e : edit' = [edit EXCEPT ![c] = e]
      BY <3>1 DEF Begin
    <3>4. QED
      BY <3>2, <3>3
  <2>2. CASE \E c \in ItemCalls : CastVote(c)
    BY <2>2 DEF CastVote
  <2>3. CASE \E c \in ItemCalls : Unvote(c) \/ CheckPhase(c) \/ Write(c) \/ Abandon(c)
    BY <2>3 DEF Unvote, CheckPhase, Write, Abandon
  <2>4. CASE \E c \in ItemCalls : ComputeTotal(c)
    BY <2>4 DEF ComputeTotal
  <2>5. CASE UNCHANGED <<ipc, edit>>
    BY <2>5
  <2>6. QED
    BY <2>1, <2>2, <2>3, <2>4, <2>5 DEF ItemsNext, Begins, PostItems, PostScore, TurnApproval, Remark, itemVars
<1>4. corrected' = [x \in Items \cup {"run"} |-> corrected'[x]] /\ met' \in BOOLEAN /\ edited' \in BOOLEAN
  <2> USE DEF ItemsShape
  <2>1. CASE \E c \in ItemCalls : Write(c)
    BY <2>1 DEF Write
  <2>2. CASE \E c \in ItemCalls : Begins(c)
    BY <2>2 DEF Begins, Begin
  <2>3. CASE (\E S \in SUBSET Items, s \in Scored : PostItems(S, s)) \/ \E s \in ItemScores : PostScore(s)
    BY <2>3 DEF PostItems, PostScore, MeetsEdits
  <2>4. CASE UNCHANGED <<corrected, met, edited>>
    BY <2>4
  <2>5. QED
    BY <2>1, <2>2, <2>3, <2>4 DEF ItemsNext, Begins, TurnApproval, Remark, Unvote, CastVote, CheckPhase,
       ComputeTotal, Abandon, itemVars
<1>5. ASSUME NEW c \in ItemCalls, ipc'[c] # "idle" PROVE EditParts(edit'[c]) /\ EditFits(c)'
  <2>1. CASE Begins(c)
    <3>1. PICK t \in Targets, u \in Authors, v \in Votes \cup {NoScore}, s \in Scored : Begin(c, t, u, v, s)
      BY <2>1 DEF Begins
    <3>2. /\ v # NoScore \/ s # NoScore
          /\ v # NoScore => u \in Managers
          /\ s # NoScore => t \in Present
      BY <3>1 DEF Begin, Authors, ItemsShape
    <3>3. t \in Present => t \in Items /\ item[t] \in Item /\ t \in Present'
      BY <1>1 DEF Present, ItemsShape
    <3>4. QED
      BY <3>1, <3>2, <3>3, Begun DEF EditFits
  <2>2. CASE ipc[c] # "idle" /\ ILeft(c)
    BY <1>1, <2>2 DEF ItemsShape, ILeft, EditFits
  <2>3. CASE ipc[c] # "idle" /\ EditStep(c)
    <3>1. /\ EditParts(edit'[c]) /\ EditFits(c)
          /\ edit'[c].target = edit[c].target /\ edit'[c].by = edit[c].by
          /\ edit'[c].vote = edit[c].vote /\ edit'[c].score = edit[c].score
          /\ edit'[c].seen = edit[c].seen
      BY <1>5, <2>3, SameEdit DEF ItemsShape
    <3>2. \/ ipc[c] = "unvote" /\ ipc'[c] = "vote"
          \/ ipc[c] = "vote" /\ ipc'[c] \in {"phase", "total"} /\ edit[c].score # NoScore
          \/ ipc[c] = "phase" /\ ipc'[c] = "total"
          \/ ipc[c] = "total" /\ ipc'[c] = "write"
      BY <1>5, <2>3 DEF EditStep, Unvote, CastVote, CheckPhase, ComputeTotal, Write, Abandon, IGoto, ILeave,
         ItemsShape
    <3>3. QED
      BY <1>1, <3>1, <3>2 DEF EditFits
  <2>4. QED
    BY <1>5, <2>1, <2>2, <2>3, EditGoesOn
<1>6. QED
  BY <1>1, <1>2, <1>3, <1>4, <1>5 DEF ItemsShape

\* What posts and what corrects meets the edits under way; nothing else changes the rows.
LEMMA RowsFate ==
  ASSUME ItemsShape, [ItemsNext]_itemVars, ~met'
  PROVE  /\ ~met
         /\ \/ UNCHANGED <<item, score, initial, edited, corrected>>
            \/ Editing = {} /\ \E S \in SUBSET Items, s \in Scored : PostItems(S, s)
            \/ Editing = {} /\ \E s \in ItemScores : PostScore(s)
            \/ \E c \in Editing : Write(c)
<1>1. \A c \in ItemCalls : Write(c) => c \in Editing
  BY DEF Write, ItemsShape, EditFits, Editing
<1>2. ~met
  <2>1. CASE \E c \in ItemCalls : Begins(c)
    <3>1. PICK c \in ItemCalls, t \in Targets, u \in Authors, v \in Votes \cup {NoScore}, s \in Scored :
                 Begin(c, t, u, v, s)
      BY <2>1 DEF Begins
    <3>2. met' = (met \/ (s # NoScore /\ Editing # {}))
      BY <3>1 DEF Begin
    <3>3. QED
      BY <3>2
  <2>2. CASE \E c \in ItemCalls : EditStep(c)
    BY <2>2 DEF EditStep, Unvote, CastVote, CheckPhase, ComputeTotal, Write, Abandon
  <2>3. QED
    BY <2>1, <2>2 DEF ItemsNext, Begins, EditStep, PostItems, PostScore, MeetsEdits, TurnApproval, Remark,
       itemVars
<1>3. ASSUME NEW c \in ItemCalls, Begins(c) PROVE UNCHANGED <<item, score, initial, edited, corrected>>
  BY <1>3 DEF Begins, Begin, itemRows
<1>4. ASSUME NEW c \in ItemCalls, EditStep(c), ~Write(c)
      PROVE  UNCHANGED <<item, score, initial, edited, corrected>>
  BY <1>4 DEF EditStep, Unvote, CastVote, CheckPhase, ComputeTotal, Abandon, itemRows
<1>5. CASE \/ \E S \in SUBSET Items, s \in Scored : PostItems(S, s)
           \/ \E s \in ItemScores : PostScore(s)
  BY <1>2, <1>5 DEF PostItems, PostScore, MeetsEdits
<1>6. CASE TurnApproval \/ (\E r \in Remarks : Remark(r)) \/ UNCHANGED itemVars
  BY <1>2, <1>6 DEF TurnApproval, Remark, itemVars, itemRows
<1>7. QED
  BY <1>1, <1>2, <1>3, <1>4, <1>5, <1>6 DEF ItemsNext, Begins, EditStep

LEMMA SameAnswers ==
  ASSUME item' = item
  PROVE  Answers' = Answers
BY DEF Answers, Present

\* Without another edit or a post, one call holds what is there.
LEMMA EditCurrentStep ==
  ASSUME ItemsIInv, [ItemsNext]_itemVars, ~met'
  PROVE  /\ \A c, d \in Editing' : c = d
         /\ \A c \in Editing' : EditCurrent(c)'
<1>0. ItemsShape /\ ~met /\ (\A c, d \in Editing : c = d) /\ \A c \in Editing : EditCurrent(c)
  BY RowsFate DEF ItemsIInv
<1>1. ASSUME NEW c \in Editing'
      PROVE  \/ Begins(c) /\ Editing = {}
             \/ c \in Editing /\ (ILeft(c) \/ EditStep(c))
  <2>1. c \in ItemCalls /\ ipc'[c] # "idle" /\ edit'[c].score # NoScore
    BY DEF Editing
  <2>2. CASE Begins(c)
    <3>1. PICK t \in Targets, u \in Authors, v \in Votes \cup {NoScore}, s \in Scored : Begin(c, t, u, v, s)
      BY <2>2 DEF Begins
    <3>2. s # NoScore
      BY <1>0, <2>1, <3>1, Begun
    <3>3. QED
      BY <2>2, <3>1, <3>2 DEF Begin
  <2>3. CASE ipc[c] # "idle" /\ ILeft(c)
    BY <2>1, <2>3 DEF ILeft, Editing
  <2>4. CASE ipc[c] # "idle" /\ EditStep(c)
    BY <1>0, <2>1, <2>4, SameEdit DEF Editing
  <2>5. QED
    BY <1>0, <2>1, <2>2, <2>3, <2>4, EditGoesOn
<1>2. ASSUME NEW c \in Editing', NEW d \in Editing' PROVE c = d
  <2>1. CASE Begins(c) /\ Begins(d) /\ c # d
    <3>1. ILeft(d) /\ ipc[d] = "idle" /\ ipc'[d] # "idle"
      BY <1>0, <2>1, ItemOthersLeft DEF Editing, Begins, Begin
    <3>2. QED
      BY <3>1 DEF ILeft
  <2>2. QED
    BY <1>0, <1>1, <2>1
<1>3. ASSUME NEW c \in Editing', Begins(c) PROVE EditCurrent(c)'
  <2>1. PICK t \in Targets, u \in Authors, v \in Votes \cup {NoScore}, s \in Scored : Begin(c, t, u, v, s)
    BY <1>3 DEF Begins
  <2>2. UNCHANGED <<item, score, initial>> /\ c \in ItemCalls
    BY <2>1 DEF Begin, itemRows, Editing
  <2>3. /\ ipc'[c] # "write" /\ edit'[c].target = t /\ edit'[c].score = s
        /\ edit'[c].seen = (IF t \in Items THEN item[t] ELSE NoScore)
        /\ edit'[c].run = [score |-> score, initial |-> initial]
    BY <1>0, <2>1, <2>2, Begun
  <2>4. s # NoScore
    BY <2>3 DEF Editing
  <2>5. t \in Items
    BY <1>0, <2>1, <2>4 DEF Begin, Present, ItemsShape
  <2>6. QED
    BY <2>2, <2>3, <2>5 DEF EditCurrent
<1>4. ASSUME NEW c \in Editing', c \in Editing, ILeft(c) \/ EditStep(c) PROVE EditCurrent(c)'
  <2>0. EditCurrent(c) /\ c \in ItemCalls /\ ipc'[c] # "idle" /\ ipc[c] # "idle"
    BY <1>0, <1>4 DEF Editing
  <2>1. ~Write(c)
    BY <1>0, <2>0 DEF Write, ILeave, ItemsShape
  <2>2. UNCHANGED <<item, score, initial>>
    BY <1>0, <1>4, <2>1, RowsFate
  <2>3. /\ edit'[c].target = edit[c].target /\ edit'[c].score = edit[c].score
        /\ edit'[c].seen = edit[c].seen /\ edit'[c].run = edit[c].run
    BY <1>0, <1>4, <2>0, SameEdit DEF ILeft
  <2>4. WithScore(c)' = WithScore(c)
    BY <2>2, <2>3, SameAnswers DEF WithScore
  <2>5. ipc'[c] = "write" => edit'[c].total = TotalOf(WithScore(c))
    <3>1. CASE ILeft(c)
      BY <2>0, <3>1 DEF ILeft, EditCurrent
    <3>2. CASE EditStep(c)
      <4>1. CASE ComputeTotal(c)
        <5>1. edit'[c] = [edit[c] EXCEPT !.total = TotalOf(WithScore(c))] /\ EditParts(edit[c])
          BY <1>0, <2>0, <4>1 DEF ComputeTotal, ItemsShape
        <5>2. QED
          BY <5>1 DEF EditParts
      <4>2. CASE ~ComputeTotal(c)
        BY <1>0, <2>0, <2>1, <3>2, <4>2 DEF EditStep, Unvote, CastVote, CheckPhase, Abandon, IGoto, ILeave,
           ItemsShape
      <4>3. QED
        BY <4>1, <4>2
    <3>3. QED
      BY <1>4, <3>1, <3>2
  <2>6. QED
    BY <2>0, <2>2, <2>3, <2>4, <2>5 DEF EditCurrent
<1>5. QED
  BY <1>1, <1>2, <1>3, <1>4

\* What a correction makes of the items, without another edit or post.
LEMMA Corrected ==
  ASSUME ItemsIInv, ~met, NEW c \in Editing, Write(c)
  PROVE  /\ edit[c].target \in Items /\ Present' = Present
         /\ item' = [item EXCEPT ![edit[c].target] = [score |-> edit[c].score, original |-> FirstOfItem(c)]]
         /\ Answers' = WithScore(c) /\ score' = TotalOf(WithScore(c))
<1>1. ItemsShape /\ EditCurrent(c) /\ c \in ItemCalls /\ ipc[c] = "write"
  BY DEF ItemsIInv, Write, Editing
<1>2. EditParts(edit[c]) /\ EditFits(c)
  BY <1>1 DEF ItemsShape
<1>3. edit[c].target \in Items /\ edit[c].target \in Present
  BY <1>2 DEF EditFits, Editing, Present
<1>4. item' = [item EXCEPT ![edit[c].target] = [score |-> edit[c].score, original |-> FirstOfItem(c)]]
      /\ score' = edit[c].total
  BY DEF Write
<1>5. [score |-> edit[c].score, original |-> FirstOfItem(c)] # NoScore
  <2>1. edit[c].seen \in Item /\ item[edit[c].target] \in Item /\ edit[c].score \in Scored
    BY <1>1, <1>2, <1>3 DEF EditFits, EditParts, Editing, ItemsShape, Present
  <2>2. FirstOfItem(c) \in Scored
    BY <2>1 DEF FirstOfItem, Item
  <2>3. QED
    BY <2>1, <2>2, NoScoreAssumption DEF Item
<1>6. Present' = Present
  BY <1>1, <1>3, <1>4, <1>5 DEF Present, ItemsShape
<1>7. Answers' = WithScore(c)
  BY <1>1, <1>3, <1>4, <1>6 DEF Answers, WithScore, ItemsShape
<1>8. QED
  BY <1>1, <1>3, <1>4, <1>6, <1>7 DEF EditCurrent

LEMMA RunScoreStep ==
  ASSUME ItemsIInv, [ItemsNext]_itemVars
  PROVE  RunScoreFollowsItems'
<1> SUFFICES ASSUME edited', ~met' PROVE score' = TotalOf(Answers')
  BY DEF RunScoreFollowsItems
<1>1. ItemsShape /\ ~met
  BY RowsFate DEF ItemsIInv
<1>2. CASE UNCHANGED <<item, score, initial, edited, corrected>>
  BY <1>1, <1>2, SameAnswers DEF ItemsIInv, RunScoreFollowsItems
<1>3. CASE \/ \E S \in SUBSET Items, s \in Scored : PostItems(S, s)
           \/ \E s \in ItemScores : PostScore(s)
  BY <1>3 DEF PostItems, PostScore
<1>4. CASE \E c \in Editing : Write(c)
  BY <1>1, <1>4, Corrected
<1>5. QED
  BY <1>1, <1>2, <1>3, <1>4, RowsFate

LEMMA FirstScoresStep ==
  ASSUME ItemsIInv, [ItemsNext]_itemVars
  PROVE  FirstScoresKept' /\ \A i \in Items \ Present' : corrected'[i] = NoScore
<1>0. ItemsShape /\ \A i \in Items \ Present : corrected[i] = NoScore
  BY DEF ItemsIInv
<1>1. \A i \in Items \ Present' : corrected'[i] = NoScore
  <2>1. CASE UNCHANGED corrected
    BY <1>0, <2>1, ItemsFate
  <2>2. ASSUME NEW c \in ItemCalls, Write(c)
        PROVE  \A i \in Items \ Present' : corrected'[i] = NoScore
    <3>1. edit[c].target \in Present /\ Present \subseteq Present'
      BY <1>0, <2>2, ItemsFate DEF Write, ItemsShape, EditFits
    <3>2. corrected' = [x \in DOMAIN corrected |->
            IF corrected[x] # NoScore THEN corrected[x]
            ELSE IF x = "run" THEN IF score # edit[c].total THEN score ELSE NoScore
            ELSE IF x = edit[c].target /\ edit[c].by \in Managers THEN item[x].score ELSE NoScore]
      BY <2>2 DEF Write
    <3>3. QED
      BY <1>0, <3>1, <3>2, RunItemsAssumption DEF ItemsShape
  <2>3. UNCHANGED corrected \/ \E c \in ItemCalls : Write(c)
    <3>1. ASSUME NEW c \in ItemCalls, Begins(c) \/ (EditStep(c) /\ ~Write(c)) PROVE UNCHANGED corrected
      BY <3>1 DEF Begins, Begin, EditStep, Unvote, CastVote, CheckPhase, ComputeTotal, Abandon
    <3>2. CASE \/ \E S \in SUBSET Items, s \in Scored : PostItems(S, s)
               \/ \E s \in ItemScores : PostScore(s)
               \/ TurnApproval \/ (\E r \in Remarks : Remark(r)) \/ UNCHANGED itemVars
      BY <3>2 DEF PostItems, PostScore, TurnApproval, Remark, itemVars
    <3>3. QED
      BY <3>1, <3>2 DEF ItemsNext, Begins, EditStep
  <2>4. QED
    BY <2>1, <2>2, <2>3
<1>2. ASSUME ~met'
      PROVE  initial' = corrected'["run"] /\ \A i \in Present' : item'[i].original = corrected'[i]
  <2>0. ~met /\ initial = corrected["run"] /\ \A i \in Present : item[i].original = corrected[i]
    BY <1>0, <1>2, RowsFate DEF ItemsIInv, FirstScoresKept
  <2>1. CASE UNCHANGED <<item, score, initial, edited, corrected>>
    BY <2>0, <2>1 DEF Present
  <2>2. CASE \E S \in SUBSET Items, s \in Scored : PostItems(S, s)
    <3>1. PICK S \in SUBSET Items, s \in Scored : PostItems(S, s)
      BY <2>2
    <3>2. item' = [i \in Items |-> IF i \in S THEN [score |-> s, original |-> NoScore] ELSE item[i]]
          /\ S \cap Present = {} /\ UNCHANGED <<initial, corrected>>
      BY <3>1 DEF PostItems
    <3>3. \A i \in Present' : i \in Items /\ (i \in S \/ i \in Present)
      BY <3>2 DEF Present
    <3>4. QED
      BY <1>0, <2>0, <3>2, <3>3
  <2>3. CASE \E s \in ItemScores : PostScore(s)
    BY <2>0, <2>3 DEF PostScore, Present
  <2>4. ASSUME NEW c \in Editing, Write(c)
        PROVE  initial' = corrected'["run"] /\ \A i \in Present' : item'[i].original = corrected'[i]
    <3>1. /\ edit[c].target \in Items /\ Present' = Present
          /\ item' = [item EXCEPT ![edit[c].target] =
                        [score |-> edit[c].score, original |-> FirstOfItem(c)]]
      BY <2>0, <2>4, Corrected
    <3>2. edit[c].seen = item[edit[c].target] /\ edit[c].run = [score |-> score, initial |-> initial]
      BY <2>0 DEF ItemsIInv, EditCurrent
    <3>3. /\ corrected' = [x \in DOMAIN corrected |->
                IF corrected[x] # NoScore THEN corrected[x]
                ELSE IF x = "run" THEN IF score # edit[c].total THEN score ELSE NoScore
                ELSE IF x = edit[c].target /\ edit[c].by \in Managers THEN item[x].score ELSE NoScore]
          /\ initial' = FirstOfRun(c)
      BY <2>4 DEF Write
    <3>4. initial' = corrected'["run"]
      BY <1>0, <2>0, <3>2, <3>3 DEF FirstOfRun, ItemsShape
    <3>5. ASSUME NEW i \in Present PROVE item'[i].original = corrected'[i]
      <4>1. i \in Items /\ i # "run" /\ item[i].original = corrected[i]
        BY <2>0, RunItemsAssumption DEF Present
      <4>2. CASE i # edit[c].target
        BY <1>0, <3>1, <3>3, <4>1, <4>2 DEF ItemsShape
      <4>3. CASE i = edit[c].target
        <5>1. item'[i].original = FirstOfItem(c)
          BY <1>0, <3>1, <4>3 DEF ItemsShape
        <5>2. corrected'[i] = IF corrected[i] # NoScore THEN corrected[i]
                              ELSE IF edit[c].by \in Managers THEN item[i].score ELSE NoScore
          BY <1>0, <3>3, <4>1, <4>3 DEF ItemsShape
        <5>3. FirstOfItem(c) =
                IF edit[c].by \in Managers /\ item[i].score # NoScore /\ item[i].original = NoScore
                THEN item[i].score ELSE item[i].original
          BY <3>2, <4>3 DEF FirstOfItem
        <5>4. QED
          BY <4>1, <5>1, <5>2, <5>3
      <4>4. QED
        BY <4>2, <4>3
    <3>6. QED
      BY <3>1, <3>4, <3>5
  <2>5. QED
    BY <1>0, <1>2, <2>1, <2>2, <2>3, <2>4, RowsFate
<1>3. QED
  BY <1>1, <1>2 DEF FirstScoresKept

\* A step that leaves the vote, and those who are voting, leaves what is to be voted.
LEMMA VoteLeft ==
  ASSUME NEW t \in Targets, NEW u \in Managers, VoteFollows(t, u),
         vote'[t][u] = vote[t][u], asked'[t][u] = asked[t][u],
         \A c \in ItemCalls : (Voting(c, t, u) \/ Voting(c, t, u)') => ILeft(c)
  PROVE  VoteFollows(t, u)'
<1>1. \A c \in ItemCalls : Voting(c, t, u)' <=> Voting(c, t, u)
  BY DEF Voting, Same, ILeft
<1>2. \A c \in ItemCalls : Voting(c, t, u) => ipc'[c] = ipc[c] /\ edit'[c].vote = edit[c].vote
  BY DEF ILeft
<1>3. QED
  BY <1>1, <1>2 DEF VoteFollows

\* A call begins to vote where no other of the user is under way, or the vote is unclear.
LEMMA BeginVoteStep ==
  ASSUME ItemsShape, NEW t \in Targets, NEW u \in Managers, VoteFollows(t, u),
         NEW c \in ItemCalls, Begins(c), <<t, u>> \notin unclear'
  PROVE  VoteFollows(t, u)'
<1>1. PICK t1 \in Targets, u1 \in Authors, v \in Votes \cup {NoScore}, s \in Scored : Begin(c, t1, u1, v, s)
  BY DEF Begins
<1>2. /\ ipc[c] = "idle" /\ edit'[c].target = t1 /\ edit'[c].by = u1 /\ edit'[c].vote = v
      /\ ipc'[c] = IF v # NoScore THEN "unvote" ELSE IF u1 = Machine THEN "total" ELSE "phase"
  BY <1>1, Begun
<1>3. \A d \in ItemCalls \ {c} : ILeft(d)
  BY ItemOthersLeft
<1>4. vote' = vote /\ asked' = IF v = NoScore THEN asked ELSE [asked EXCEPT ![t1][u1] = v]
  BY <1>1 DEF Begin
<1>5. CASE v = NoScore
  <2>1. ~Voting(c, t, u) /\ ~Voting(c, t, u)'
    BY <1>2, <1>5 DEF Voting, Same
  <2>2. QED
    BY <1>3, <1>4, <1>5, <2>1, VoteLeft
<1>6. CASE v # NoScore /\ (t1 # t \/ u1 # u)
  <2>1. ~Voting(c, t, u) /\ ~Voting(c, t, u)'
    BY <1>2, <1>6 DEF Voting, Same
  <2>2. asked'[t][u] = asked[t][u]
    BY <1>4, <1>6 DEF ItemsShape
  <2>3. QED
    BY <1>3, <1>4, <2>1, <2>2, VoteLeft
<1>7. CASE v # NoScore /\ t1 = t /\ u1 = u
  <2>1. \A d \in ItemCalls : ~Same(d, t, u)
    BY <1>1, <1>7 DEF Begin
  <2>2. \A d \in ItemCalls \ {c} : ~Voting(d, t, u)'
    BY <1>3, <2>1 DEF Voting, Same, ILeft
  <2>3. asked'[t][u] = v
    BY <1>4, <1>7 DEF ItemsShape
  <2>4. Voting(c, t, u)' /\ ipc'[c] = "unvote"
    BY <1>2, <1>7 DEF Voting, Same
  <2>5. QED
    BY <1>2, <2>2, <2>3, <2>4 DEF VoteFollows
<1>8. QED
  BY <1>5, <1>6, <1>7

\* A call takes the old vote, and casts the new one.
LEMMA CastVoteStep ==
  ASSUME ItemsShape, NEW t \in Targets, NEW u \in Managers, VoteFollows(t, u),
         NEW c \in ItemCalls, Unvote(c) \/ CastVote(c)
  PROVE  VoteFollows(t, u)'
<1>1. /\ ipc[c] \in {"unvote", "vote"} /\ EditParts(edit[c]) /\ edit[c].vote \in Votes
      /\ edit[c].target \in Targets /\ edit[c].by \in Managers /\ asked' = asked
  BY DEF Unvote, CastVote, ItemsShape, EditFits, EditParts
<1>2. \A d \in ItemCalls \ {c} : ILeft(d)
  BY ItemOthersLeft DEF EditStep
<1>3. CASE edit[c].target # t \/ edit[c].by # u
  <2>1. ~Voting(c, t, u)
    BY <1>3 DEF Voting, Same
  <2>2. ipc'[c] = "idle" \/ (edit'[c].target = edit[c].target /\ edit'[c].by = edit[c].by)
    BY <1>1, SameEdit DEF EditStep
  <2>3. ~Voting(c, t, u)'
    BY <1>3, <2>2 DEF Voting, Same
  <2>4. vote'[t][u] = vote[t][u]
    <3>1. CASE Unvote(c)
      <4>1. vote' = [vote EXCEPT ![edit[c].target] =
                       [x \in Managers |-> IF x \in Unvoted(c) THEN "none" ELSE vote[edit[c].target][x]]]
        BY <3>1 DEF Unvote
      <4>2. u \in Unvoted(c) => edit[c].target # t
        BY <1>3 DEF Unvoted
      <4>3. QED
        BY <4>1, <4>2 DEF ItemsShape
    <3>2. CASE CastVote(c)
      <4>1. vote' = vote \/ vote' = [vote EXCEPT ![edit[c].target][edit[c].by] = edit[c].vote]
            \/ vote' = [vote EXCEPT ![edit[c].target][edit[c].by] = @]
        BY <3>2 DEF CastVote
      <4>2. QED
        BY <1>1, <1>3, <4>1 DEF ItemsShape
    <3>3. QED
      BY <3>1, <3>2
  <2>5. QED
    BY <1>1, <1>2, <2>1, <2>3, <2>4, VoteLeft
<1>4. CASE edit[c].target = t /\ edit[c].by = u
  <2>1. Voting(c, t, u)
    BY <1>1, <1>4 DEF Voting, Same
  <2>2. /\ edit[c].vote = asked[t][u] /\ (ipc[c] = "vote" => vote[t][u] = "none")
        /\ \A d \in ItemCalls \ {c} : ~Voting(d, t, u)'
    BY <1>2, <2>1 DEF VoteFollows, Voting, Same, ILeft
  <2>3. CASE Unvote(c)
    <3>1. ipc'[c] = "vote" /\ edit' = edit
      BY <2>3 DEF Unvote, IGoto, ItemsShape
    <3>2. vote'[t][u] = "none"
      <4>1. vote' = [vote EXCEPT ![t] = [x \in Managers |-> IF x \in {u} THEN "none" ELSE vote[t][x]]]
        BY <1>4, <2>3 DEF Unvote, Unvoted
      <4>2. QED
        BY <4>1 DEF ItemsShape
    <3>3. Voting(c, t, u)'
      BY <1>4, <3>1 DEF Voting, Same
    <3>4. QED
      BY <1>1, <2>2, <3>1, <3>2, <3>3 DEF VoteFollows
  <2>4. CASE CastVote(c)
    <3>1. ipc'[c] \in {"idle", "phase", "total"}
      BY <2>4 DEF CastVote, ILeave, IGoto, ItemsShape
    <3>2. ~Voting(c, t, u)'
      BY <3>1 DEF Voting
    <3>3. vote'[t][u] = asked[t][u]
      <4>1. vote[t][u] = "none"
        BY <2>2, <2>4 DEF CastVote
      <4>2. CASE edit[c].vote = "none"
        <5>1. vote' = vote \/ vote' = [vote EXCEPT ![edit[c].target][edit[c].by] = @]
          BY <2>4, <4>2 DEF CastVote
        <5>2. vote' = vote
          BY <1>1, <5>1 DEF ItemsShape
        <5>3. QED
          BY <2>2, <4>1, <4>2, <5>2
      <4>3. CASE edit[c].vote # "none"
        <5>1. vote' = [vote EXCEPT ![edit[c].target][edit[c].by] = edit[c].vote]
          BY <1>4, <2>4, <4>1, <4>3 DEF CastVote
        <5>2. QED
          BY <1>4, <2>2, <5>1 DEF ItemsShape
      <4>4. QED
        BY <4>2, <4>3
    <3>4. QED
      BY <1>1, <2>2, <3>2, <3>3 DEF VoteFollows
  <2>5. QED
    BY <2>3, <2>4
<1>5. QED
  BY <1>3, <1>4

LEMMA VoteFollowsStep ==
  ASSUME ItemsIInv, [ItemsNext]_itemVars, NEW t \in Targets, NEW u \in Managers, <<t, u>> \notin unclear'
  PROVE  VoteFollows(t, u)'
<1>0. ItemsShape
  BY DEF ItemsIInv
<1>1. CASE \/ \E S \in SUBSET Items, s \in Scored : PostItems(S, s)
           \/ \E s \in ItemScores : PostScore(s)
           \/ TurnApproval \/ (\E r \in Remarks : Remark(r)) \/ UNCHANGED itemVars
  <2>1. UNCHANGED <<vote, asked, unclear, ipc, edit>>
    BY <1>1 DEF PostItems, PostScore, TurnApproval, Remark, itemVars, voteRows
  <2>2. QED
    BY <2>1 DEF ItemsIInv, VoteFollows, Voting, Same
<1>2. ASSUME NEW c \in ItemCalls, Begins(c) PROVE VoteFollows(t, u)'
  <2>1. unclear \subseteq unclear'
    <3>1. PICK t1 \in Targets, u1 \in Authors, v \in Votes \cup {NoScore}, s \in Scored :
                 Begin(c, t1, u1, v, s)
      BY <1>2 DEF Begins
    <3>2. unclear' = IF v # NoScore /\ \E d \in ItemCalls : Same(d, t1, u1)
                     THEN unclear \cup {<<t1, u1>>} ELSE unclear
      BY <3>1 DEF Begin
    <3>3. QED
      BY <3>2
  <2>2. VoteFollows(t, u)
    BY <2>1 DEF ItemsIInv
  <2>3. QED
    BY <1>0, <1>2, <2>2, BeginVoteStep
<1>3. ASSUME NEW c \in ItemCalls, Unvote(c) \/ CastVote(c) PROVE VoteFollows(t, u)'
  <2>1. unclear' = unclear
    BY <1>3 DEF Unvote, CastVote
  <2>2. VoteFollows(t, u)
    BY <2>1 DEF ItemsIInv
  <2>3. QED
    BY <1>0, <1>3, <2>2, CastVoteStep
<1>4. ASSUME NEW c \in ItemCalls, CheckPhase(c) \/ ComputeTotal(c) \/ Write(c) \/ Abandon(c)
      PROVE  VoteFollows(t, u)'
  <2>1. UNCHANGED <<vote, asked>> /\ \A d \in ItemCalls \ {c} : ILeft(d)
    BY <1>0, <1>4, ItemOthersLeft DEF EditStep, CheckPhase, ComputeTotal, Write, Abandon, voteRows
  <2>2. ipc'[c] \in {"idle", "total", "write"}
    BY <1>0, <1>4 DEF CheckPhase, ComputeTotal, Write, Abandon, IGoto, ILeave, ItemsShape
  <2>3. unclear \subseteq unclear' /\ ~Voting(c, t, u)
    <3>1. CASE CheckPhase(c) \/ ComputeTotal(c) \/ Write(c)
      BY <3>1 DEF CheckPhase, ComputeTotal, Write, voteRows, Voting
    <3>2. CASE Abandon(c)
      <4>1. unclear' = IF edit[c].vote = NoScore THEN unclear
                       ELSE unclear \cup {<<edit[c].target, edit[c].by>>}
        BY <3>2 DEF Abandon
      <4>2. Voting(c, t, u) => edit[c].vote # NoScore /\ edit[c].target = t /\ edit[c].by = u
        BY <1>0 DEF Voting, Same, ItemsShape, EditFits
      <4>3. QED
        BY <4>1, <4>2
    <3>3. QED
      BY <1>4, <3>1, <3>2
  <2>4. VoteFollows(t, u)
    BY <2>3 DEF ItemsIInv
  <2>5. QED
    BY <2>1, <2>2, <2>3, <2>4, VoteLeft DEF Voting
<1>5. QED
  BY <1>1, <1>2, <1>3, <1>4 DEF ItemsNext, Begins

LEMMA ItemsStep == ItemsIInv /\ [ItemsNext]_itemVars => ItemsIInv'
<1> SUFFICES ASSUME ItemsIInv, [ItemsNext]_itemVars PROVE ItemsIInv'
  OBVIOUS
<1>1. ItemsShape'
  BY ItemsShapeStep DEF ItemsIInv
<1>2. ~met' => /\ \A c, d \in Editing' : c = d
               /\ \A c \in Editing' : EditCurrent(c)'
  BY EditCurrentStep
<1>3. RunScoreFollowsItems' /\ FirstScoresKept' /\ \A i \in Items \ Present' : corrected'[i] = NoScore
  BY RunScoreStep, FirstScoresStep
<1>4. \A t \in Targets, u \in Managers : <<t, u>> \notin unclear' => VoteFollows(t, u)'
  BY VoteFollowsStep
<1>5. QED
  BY <1>1, <1>2, <1>3, <1>4 DEF ItemsIInv

\* In every state the code of AiWorkflowService reaches, with any items, users
\* and calls: the score of a run an edit made is the total of its items, first
\* scores are kept, and a user's vote is the last one asked for, unless edits
\* (or votes of one user on one thing) met or a vote failed.
THEOREM EditsAreKept == ItemsSpec => []EditsHold
<1>1. ASSUME NEW budget \in [ItemBudget -> Nat] PROVE ItemsInit(budget) => ItemsIInv
  BY ItemsInitIInv
<1>2. (\E budget \in [ItemBudget -> Nat] : ItemsInit(budget)) => ItemsIInv
  BY <1>1
<1>3. ItemsIInv => EditsHold
  BY DEF ItemsIInv, EditsHold, VoteStands, VoteFollows, Voting
<1>4. QED
  BY <1>2, <1>3, ItemsStep, PTL DEF ItemsSpec

-----------------------------------------------------------------------------
(* Admission of reviews (ReviewAdmission)                                  *)

\* The rows, and the place among the phases
RowsFit ==
    /\ entries \in [Ids -> Row] /\ Ids \subseteq RowIds /\ clock \in Date
    /\ lineup \in Lineups /\ lineup \in Seq(STRING) /\ openPhase \in 0..Len(lineup)

\* Each write to the submissions keeps them rows, and no phase is past the last.
LEMMA AdmissionInvariant == AdmissionSpec => []RowsFit
<1>1. ASSUME NEW ticks \in Date, AdmissionInit(ticks)
      PROVE  RowsFit
  <2>1. clock \in Date
    BY <1>1, AdmissionAssumption DEF AdmissionInit, Date
  <2>2. QED
    BY <1>1, <2>1, AdmissionAssumption DEF AdmissionInit, RowsFit, Ids
<1>2. RowsFit /\ [AdmissionNext]_admissionVars => RowsFit'
  <2> SUFFICES ASSUME RowsFit, [AdmissionNext]_admissionVars PROVE RowsFit'
    OBVIOUS
  <2> USE DEF RowsFit
  <2>1. CASE OpenNext
    BY <2>1 DEF OpenNext, Ids
  <2>2. Tick => clock' \in Date /\ 0..clock' \subseteq Date
    BY AdmissionAssumption DEF Tick, Date
  <2>3. CASE HandIn
    <3>1. PICK i \in RowIds \ Ids, m \in Owners \cup {Absent}, k \in Kinds, d \in 0..clock' \cup {Absent} :
            entries' = [j \in Ids \cup {i} |->
                         IF j \in Ids THEN entries[j]
                         ELSE [member |-> m, kind |-> k, submitted |-> d,
                               created |-> clock', updated |-> clock']]
      BY <2>3 DEF HandIn
    <3>2. [member |-> m, kind |-> k, submitted |-> d, created |-> clock', updated |-> clock'] \in Row
      BY <2>2, <2>3 DEF HandIn, Row
    <3>3. entries' \in [Ids \cup {i} -> Row] /\ Ids' = Ids \cup {i}
      BY <3>1, <3>2 DEF Ids
    <3>4. QED
      BY <2>2, <2>3, <3>3 DEF HandIn
  <2>4. CASE Amend
    <3>1. PICK i \in Ids, d \in 0..clock' :
            entries' = [entries EXCEPT ![i].updated = clock',
                                       ![i].submitted = IF d = 0 THEN @ ELSE d]
      BY <2>4 DEF Amend
    <3>2. entries' = [entries EXCEPT ![i] = [entries[i] EXCEPT !.updated = clock',
                            !.submitted = IF d = 0 THEN entries[i].submitted ELSE d]]
      BY <3>1
    <3>3. [entries[i] EXCEPT !.updated = clock',
                            !.submitted = IF d = 0 THEN entries[i].submitted ELSE d] \in Row
      <4>1. entries[i] \in Row /\ clock' \in Date /\ d \in Date
        BY <2>2, <2>4 DEF Amend
      <4>2. (IF d = 0 THEN entries[i].submitted ELSE d) \in Date \cup {Absent}
        BY <4>1 DEF Row
      <4>3. QED
        BY <4>1, <4>2 DEF Row
    <3>4. entries' \in [Ids -> Row] /\ Ids' = Ids
      BY <3>2, <3>3 DEF Ids
    <3>5. QED
      BY <2>2, <2>4, <3>4 DEF Amend
  <2>5. CASE Remove
    <3>1. PICK i \in Ids : entries' = [j \in Ids \ {i} |-> entries[j]]
      BY <2>5 DEF Remove
    <3>2. entries' \in [Ids \ {i} -> Row] /\ Ids' = Ids \ {i}
      BY <3>1 DEF Ids
    <3>3. QED
      BY <2>2, <2>5, <3>2 DEF Remove
  <2>6. CASE UNCHANGED admissionVars
    BY <2>6 DEF admissionVars, Ids
  <2>7. QED
    BY <2>1, <2>3, <2>4, <2>5, <2>6 DEF AdmissionNext
<1>3. (\E ticks \in Date : AdmissionInit(ticks)) => RowsFit
  BY <1>1
<1>4. QED
  BY <1>2, <1>3, PTL DEF AdmissionSpec

\* A review whose phase is open has a phase to be for.
LEMMA OpenHasTarget ==
  ASSUME RowsFit, NEW type, PhaseIsOpen(type)
  PROVE  TargetPhase(type) # 0
<1> DEFINE names == IF PostMortem(type) THEN {"post-mortem"} ELSE {"review", "iterative review"}
           fits == {p \in DOMAIN lineup : lineup[p] \in names}
<1>1. openPhase \in fits /\ DOMAIN lineup = 1..Len(lineup)
  <2>1. openPhase # 0 /\ lineup[openPhase] \in names
    BY DEF PhaseIsOpen
  <2> HIDE DEF names
  <2>2. DOMAIN lineup = 1..Len(lineup) /\ Len(lineup) \in Nat
    BY DEF RowsFit
  <2>3. openPhase \in DOMAIN lineup
    BY <2>1, <2>2 DEF RowsFit
  <2>4. QED
    BY <2>1, <2>2, <2>3
<1>2. fits \subseteq Nat \ {0}
  <2>1. Len(lineup) \in Nat
    BY DEF RowsFit
  <2> HIDE DEF names
  <2>2. QED
    BY <1>1, <2>1
<1>3. \E p \in fits : \A q \in fits : p <= q
  BY <1>1, <1>2, FirstOf
<1>4. (CHOOSE p \in fits : \A q \in fits : p <= q) \in fits
  BY <1>3
<1>5. 0 \notin fits
  BY <1>2
<1>6. TargetPhase(type) = CHOOSE p \in fits : \A q \in fits : p <= q
  BY <1>1 DEF TargetPhase
<1>7. QED
  BY <1>4, <1>5, <1>6

\* The rival that makes a submission an old one is newer, so it is not flagged.
LEMMA RefusedShown ==
  ASSUME RowsFit PROVE RefusedIsShown
<1>1. ASSUME NEW i \in Ids, NEW type \in ReviewTypes, RefusedAsOld(type, i)
      PROVE  /\ FlagShown /\ ~ListedAsLatest(i, Kinds)
             /\ (\A j \in Rivals(i) : ~SameDates(i, j)) => ~MayBeFlagged(i)
  <2>1. FlagShown
    BY <1>1 DEF RefusedAsOld, EnforcesLatest, FlagShown
  <2>2. PICK j \in Rivals(i) : ~Ahead(i, j)
    BY <1>1 DEF RefusedAsOld, IsLatest
  <2>3. ~ListedAsLatest(i, Kinds)
    <3>1. entries[j].kind \in Kinds
      BY DEF Rivals, RowsFit, Row
    <3>2. QED
      BY <2>2, <3>1 DEF ListedAsLatest
  <2>4. ~SameDates(i, j) => Newer(j, i)
    BY <2>2 DEF Ahead, SameDates
  <2>5. QED
    BY <2>1, <2>2, <2>3, <2>4 DEF MayBeFlagged
<1>2. ASSUME NEW i \in Ids, NEW type \in ReviewTypes,
             ListedAsLatest(i, Kinds), PhaseIsOpen(type)
      PROVE  i \in Admitted(type, 0)
  <2>1. \A j \in Rivals(i) : entries[j].kind \in Kinds
    BY DEF Rivals, RowsFit, Row
  <2>2. IsLatest(i)
    BY <1>2, <2>1 DEF ListedAsLatest, IsLatest
  <2>3. QED
    BY <1>2, <2>2, OpenHasTarget DEF Admitted, PhaseMatches, RefusedAsOld
<1>3. QED
  BY <1>1, <1>2 DEF RefusedIsShown

\* Every submission createReview refuses as not the latest is shown as such by
\* the flag and the list of SubmissionService, and what it lists is admitted.
THEOREM RefusedAreShown == AdmissionSpec => []RefusedIsShown
BY AdmissionInvariant, RefusedShown, PTL

-----------------------------------------------------------------------------
(* The import (LegacyImport): what is written, and what the maps say of it *)

\* The largest number of a record
Most == Max(Copies)

\* The place of each kind in Order, where 16 is "es"
Place == [upload |-> 1, submission |-> 2, result |-> 3, scorecard |-> 4, group |-> 5, section |-> 6,
          question |-> 7, review |-> 8, item |-> 9, comment |-> 10, appeal |-> 11, response |-> 12,
          provider |-> 13, model |-> 14, workflow |-> 15, pair |-> 17]

\* Done by this run
Done(k) == at > Place[k]

Forgets(r) == How(r).forgets

ImportShape ==
    /\ \A x \in rows \cup batch : x.rec \in Records /\ x.id \in Nat
    /\ DOMAIN saved \subseteq Records /\ DOMAIN idMap \subseteq Records
    /\ \A r \in DOMAIN saved : saved[r] \in Nat
    /\ \A r \in DOMAIN idMap : idMap[r] \in Nat
    /\ mode \in {"down", "full", "incremental"} /\ at \in 0..18 /\ lastId \in Nat
    /\ changed \subseteq Copies /\ faulted \in BOOLEAN /\ broken \in BOOLEAN

\* Where the script is, and what it has there
StageFits ==
    /\ stage \in {"idle", "convert", "insert", "single", "upsert", "es"}
    /\ mode = "down" <=> stage = "idle"
    /\ stage # "idle" => at # 0 /\ ended = "none"
    /\ stage \in {"insert", "single"} => mode = "full"
    /\ stage = "upsert" => mode = "incremental"
    /\ stage \in {"insert", "single", "upsert"} => at \in 1..17 /\ at # 16
    /\ stage = "es" => at = 16
    /\ stage \notin {"insert", "single"} => batch = {}

BatchFits ==
    /\ \A x \in batch : x.rec[1] = KindHere /\ Mapped(x.rec) /\ idMap[x.rec] = x.id
    /\ \A x, y \in batch : x.rec = y.rec => x = y

\* An id is of an earlier run or of this one, which makes at most two for a
\* record: at the step of its kind and from Elasticsearch.
Within(r, id, bound) == IF How(r).natural THEN id = r[2] ELSE id <= bound

IdFits(r, id, stages) ==
    \/ Within(r, id, lastId)
    \/ /\ ~How(r).natural /\ id = lastId + r[2]
       /\ Done(r[1]) \/ (at = Place[r[1]] /\ stage \in stages)
    \/ r[1] = "submission" /\ id = lastId + Most + r[2] /\ (stage = "es" \/ at > 16)

IdsFit ==
    IF mode = "down"
    THEN /\ \A x \in rows : Within(x.rec, x.id, lastId + 2 * Most)
         /\ \A r \in DOMAIN saved : Within(r, saved[r], lastId + 2 * Most)
    ELSE /\ \A x \in rows : IdFits(x.rec, x.id, {"single", "upsert"})
         /\ \A r \in DOMAIN saved : Within(r, saved[r], lastId)
         /\ \A r \in DOMAIN idMap : IdFits(r, idMap[r], {"insert", "single", "upsert"})
         /\ \A x \in batch : x.id = IF How(x.rec).natural THEN x.rec[2] ELSE lastId + x.rec[2]

\* Rows of a kind with the same id are of one record.
IdsApart == \A x, y \in rows : x.rec[1] = y.rec[1] /\ x.id = y.id => x.rec = y.rec

HasRow(r) == \E x \in rows : x.rec = r

RowWith(r, id) == \E x \in rows : x.rec = r /\ x.id = id

Waits(r) == \E x \in batch : x.rec = r

\* What is mapped has a row or waits in the batch, but for the kinds whose
\* failed records stay mapped; and what the batch refers to has one.
Backed ==
    /\ \A r \in DOMAIN saved : Forgets(r) => RowWith(r, saved[r])
    /\ \A r \in DOMAIN idMap : Forgets(r) /\ ~Waits(r) => RowWith(r, idMap[r])
    /\ \A x \in batch : x.rec[1] # "response" =>
         \A ref \in x.refs : \E y \in rows : y.rec[1] = ref[1] /\ y.id = ref[2]

\* The kinds that others need
Chain == {"scorecard", "group", "section", "question", "review", "item", "comment"}

Retried == ImportKinds \ NotRetried

\* What a full run without a fault has made whole so far: only a result or a
\* provider that has a row cannot be written again.
WholeFits ==
    mode = "full" /\ ~faulted =>
        /\ \A k \in Retried, n \in Copies :
             /\ Done(k) => HasRow(<<k, n>>)
             /\ Done(k) /\ k \in Chain => Mapped(<<k, n>>)
        /\ stage \in {"insert", "single"} /\ KindHere \in Retried =>
             \A n \in Copies : /\ HasRow(<<KindHere, n>>) \/ Waits(<<KindHere, n>>)
                               /\ KindHere \in Chain => Mapped(<<KindHere, n>>)
        /\ stage = "single" /\ KindHere \in Retried => KindHere \in {"result", "provider"}

\* Every row has the id its record is mapped to.
MappedOnce(ids) == \A x \in rows : How(x.rec).rechecked => x.rec \in DOMAIN ids /\ ids[x.rec] = x.id

OneRowFits ==
    ~broken =>
        /\ OneRowEach
        /\ mode = "down" => MappedOnce(saved)
        /\ mode # "down" => MappedOnce(idMap)
        /\ \A x \in batch : How(x.rec).rechecked => ~HasRow(x.rec)

\* The scorecards something refers to
CardsOf(x) == {ref[2] : ref \in {f \in x.refs : f[1] = "scorecard"}}

ReviewsWritten == mode # "full" \/ at > 8 \/ (at = 8 /\ stage = "single")

CardsMade == mode = "full" /\ (at > 4 \/ (at = 4 /\ stage \in {"insert", "single"}))

\* A full run makes the scorecards again: what it has of reviews refers to those
\* of this run, and the reviews there were to older ones.
CardsFit ==
    /\ \A y \in rows : y.rec[1] = "review" =>
         \A c \in CardsOf(y) : c \in Nat /\ c <= lastId + (IF ReviewsWritten THEN 2 * Most ELSE 0)
    /\ CardsMade => \A r \in DOMAIN idMap : r[1] = "scorecard" => idMap[r] = lastId + r[2]
    /\ \A x \in batch : x.rec[1] = "review" =>
         CardsOf(x) # {} /\ \A c \in CardsOf(x) : c \in Nat /\ lastId < c /\ c <= lastId + 2 * Most

ImportIInv ==
    /\ ImportShape /\ StageFits /\ BatchFits /\ IdsFit /\ IdsApart /\ Backed
    /\ WholeFits /\ FullRunMakesWhole /\ OneRowFits

-----------------------------------------------------------------------------
(* Numbers, kinds and places                                               *)

\* A finite set of naturals has a largest one: a set of the least size that is
\* not bounded would stay unbounded without one of its elements.
LEMMA FiniteIsBounded ==
  ASSUME NEW S, S \subseteq Nat, IsFiniteSet(S)
  PROVE  \E m \in Nat : \A s \in S : s <= m
<1> DEFINE Bounded(T) == \E m \in Nat : \A s \in T : s <= m
           sizes == {n \in Nat : \E T \in SUBSET S : Cardinality(T) = n /\ ~Bounded(T)}
<1>1. SUFFICES ASSUME ~Bounded(S) PROVE FALSE
  OBVIOUS
<1>2. Cardinality(S) \in sizes
  <2>1. Cardinality(S) \in Nat /\ S \in SUBSET S
    BY FS_CardinalityType
  <2>2. QED
    BY <1>1, <2>1
<1>3. PICK n \in sizes : \A k \in sizes : n <= k
  BY <1>2, FirstOf
<1>4. PICK T \in SUBSET S : Cardinality(T) = n /\ ~Bounded(T)
  BY <1>3
<1>5. IsFiniteSet(T)
  BY FS_Subset
<1>6. T # {}
  BY <1>4
<1>7. PICK t \in T : TRUE
  BY <1>6
<1>8. IsFiniteSet(T \ {t}) /\ Cardinality(T \ {t}) = n - 1
  BY <1>4, <1>5, FS_RemoveElement
<1>9. Bounded(T \ {t})
  <2>1. n - 1 \in Nat
    BY <1>8, FS_CardinalityType
  <2>2. n - 1 \notin sizes
    BY <1>3, <2>1
  <2>3. T \ {t} \in SUBSET S
    OBVIOUS
  <2>4. QED
    BY <1>8, <2>1, <2>2, <2>3
<1>10. PICK m \in Nat : \A s \in T \ {t} : s <= m
  BY <1>9
<1>11. t \in Nat
  BY <1>7
<1>12. \A s \in T : s <= m + t
  <2> TAKE s \in T
  <2>1. s \in Nat
    OBVIOUS
  <2>2. CASE s = t
    BY <1>10, <1>11, <2>2
  <2>3. CASE s # t
    <3>1. s <= m
      BY <1>10, <2>3
    <3>2. QED
      BY <1>10, <1>11, <2>1, <3>1
  <2>4. QED
    BY <2>2, <2>3
<1>13. Bounded(T)
  BY <1>10, <1>11, <1>12
<1>14. QED
  BY <1>4, <1>13

LEMMA MostOf == Most \in Nat /\ \A n \in Copies : n \in Nat /\ 0 < n /\ n <= Most
<1> DEFINE bounds == {m \in Nat : \A n \in Copies : n <= m}
<1>1. Copies \subseteq Nat \ {0} /\ Copies # {} /\ IsFiniteSet(Copies)
  BY ImportAssumption
<1>2. bounds # {}
  BY <1>1, FiniteIsBounded
<1>3. PICK b \in bounds : \A m \in bounds : b <= m
  BY <1>2, FirstOf
<1>4. b \in Copies
  <2>1. SUFFICES ASSUME b \notin Copies PROVE FALSE
    OBVIOUS
  <2>2. \A n \in Copies : n \in Nat /\ 0 < n /\ n < b
    BY <1>1, <1>3, <2>1
  <2>3. b - 1 \in Nat
    <3>1. PICK c \in Copies : TRUE
      BY <1>1
    <3>2. c \in Nat /\ 0 < c /\ c < b /\ b \in Nat
      BY <1>3, <2>2
    <3>3. QED
      BY <3>2
  <2>4. b - 1 \in bounds
    BY <1>3, <2>2, <2>3
  <2>5. QED
    BY <1>3, <2>3, <2>4
<1>5. \E x \in Copies : \A y \in Copies : x >= y
  BY <1>1, <1>3, <1>4
<1>6. Most \in Copies /\ \A y \in Copies : Most >= y
  BY <1>5 DEF Most, Max
<1>7. QED
  BY <1>1, <1>6

LEMMA Kinds16 ==
  ImportKinds = {"upload", "submission", "result", "scorecard", "group", "section", "question",
                 "review", "item", "comment", "appeal", "response", "provider", "model",
                 "workflow", "pair"}
BY DEF ImportKinds, Importer

KindFacts(k) ==
    /\ Importer[k].natural <=> k = "result"
    /\ Importer[k].named <=> k \in {"provider", "model", "workflow"}
    /\ Importer[k].forgets <=> k \notin {"appeal", "pair"}
    /\ Importer[k].sole <=> k \in {"review", "appeal", "response"}
    /\ k = "review" => "scorecard" \in Importer[k].needs
    /\ k = "scorecard" => Importer[k].needs = {}
    /\ Importer[k].rechecked <=> k \notin {"scorecard", "provider", "model", "workflow"}
    /\ \A l \in Importer[k].needs \cup Importer[k].links :
         /\ l \in ImportKinds /\ Place[l] < Place[k]
         /\ k # "response" => l \notin {"appeal", "pair"}
    /\ Importer[k].needs \cup Importer[k].links = {} \/ k \notin {"result", "provider"}
    /\ k \in Retried => Importer[k].needs \subseteq Chain
    /\ k \in Chain => k \in Retried \ {"result", "provider"}
    /\ Place[k] \in 1..17 /\ Place[k] # 16

\* What a table of the importers would show
LEMMA KindTable == \A k \in ImportKinds : KindFacts(k)
<1> USE Kinds16 DEF KindFacts, Importer, Kind, Place, Chain, Retried, NotRetried
<1>1. KindFacts("upload")
  BY DEF Upload
<1>2. KindFacts("submission")
  <2>1. Importer["submission"] =
          [needs |-> {}, links |-> {"upload"}, rechecked |-> TRUE, forgets |-> TRUE,
           eager |-> TRUE, natural |-> FALSE, named |-> FALSE, sole |-> FALSE]
    BY DEF Submission
  <2>2. QED
    BY <2>1
<1>3. KindFacts("result")
  BY DEF ProjectResult
<1>4. KindFacts("scorecard")
  BY DEF Scorecard
<1>5. KindFacts("group")
  BY DEF ScorecardGroup
<1>6. KindFacts("section")
  BY DEF ScorecardSection
<1>7. KindFacts("question")
  BY DEF ScorecardQuestion
<1>8. KindFacts("review")
  <2>1. Importer["review"] =
          [needs |-> {"scorecard"}, links |-> {"submission"}, rechecked |-> TRUE, forgets |-> TRUE,
           eager |-> FALSE, natural |-> FALSE, named |-> FALSE, sole |-> TRUE]
    BY DEF Review
  <2>2. QED
    BY <2>1
<1>9. KindFacts("item")
  BY DEF ReviewItem
<1>10. KindFacts("comment")
  BY DEF ReviewItemComment
<1>11. KindFacts("appeal")
  <2>1. Importer["appeal"] =
          [needs |-> {"comment"}, links |-> {}, rechecked |-> TRUE, forgets |-> FALSE,
           eager |-> FALSE, natural |-> FALSE, named |-> FALSE, sole |-> TRUE]
    BY DEF Appeal
  <2>2. QED
    BY <2>1
<1>12. KindFacts("response")
  BY DEF AppealResponse
<1>13. KindFacts("provider")
  <2>1. Importer["provider"] =
          [needs |-> {}, links |-> {}, rechecked |-> FALSE, forgets |-> TRUE,
           eager |-> FALSE, natural |-> FALSE, named |-> TRUE, sole |-> FALSE]
    BY DEF LlmProvider
  <2>2. QED
    BY <2>1
<1>14. KindFacts("model")
  <2>1. Importer["model"] =
          [needs |-> {"provider"}, links |-> {}, rechecked |-> FALSE, forgets |-> TRUE,
           eager |-> FALSE, natural |-> FALSE, named |-> TRUE, sole |-> FALSE]
    BY DEF LlmModel
  <2>2. QED
    BY <2>1
<1>15. KindFacts("workflow")
  <2>1. Importer["workflow"] =
          [needs |-> {"model", "scorecard"}, links |-> {}, rechecked |-> FALSE, forgets |-> TRUE,
           eager |-> FALSE, natural |-> FALSE, named |-> TRUE, sole |-> FALSE]
    BY DEF AiWorkflow
  <2>2. QED
    BY <2>1
<1>16. KindFacts("pair")
  <2>1. Importer["pair"] =
          [needs |-> {}, links |-> {"submission"}, rechecked |-> TRUE, forgets |-> FALSE,
           eager |-> TRUE, natural |-> FALSE, named |-> FALSE, sole |-> FALSE]
    BY DEF ResourceSubmission
  <2>2. QED
    BY <2>1
<1> HIDE DEF KindFacts
<1>17. QED
  BY <1>1, <1>2, <1>3, <1>4, <1>5, <1>6, <1>7, <1>8, <1>9, <1>10, <1>11, <1>12, <1>13, <1>14, <1>15, <1>16, Kinds16

LEMMA PlacesApart ==
  ASSUME NEW k \in ImportKinds, NEW l \in ImportKinds, Place[k] = Place[l]
  PROVE  k = l
BY Kinds16 DEF Place

LEMMA OrderOf ==
  /\ Len(Order) = 17 /\ Order[16] = "es"
  /\ Order[1] = "upload" /\ Order[2] = "submission" /\ Order[3] = "result" /\ Order[4] = "scorecard"
  /\ Order[5] = "group" /\ Order[6] = "section" /\ Order[7] = "question" /\ Order[8] = "review"
  /\ Order[9] = "item" /\ Order[10] = "comment" /\ Order[11] = "appeal" /\ Order[12] = "response"
  /\ Order[13] = "provider" /\ Order[14] = "model" /\ Order[15] = "workflow" /\ Order[17] = "pair"
BY DEF Order

\* Order and Place say the same.
LEMMA PlaceOf ==
  ASSUME at \in 1..17
  PROVE  /\ Order[at] = "es" <=> at = 16
         /\ at # 16 => KindHere \in ImportKinds /\ Place[KindHere] = at
         /\ at = 16 => KindHere = "submission"
<1>1. /\ Order[at] = "es" <=> at = 16
      /\ at # 16 => Order[at] \in ImportKinds /\ Place[Order[at]] = at
  BY OrderOf, Kinds16 DEF Place
<1>2. QED
  BY <1>1, OrderOf DEF KindHere

LEMMA PlaceValues == Place["submission"] = 2 /\ DOMAIN Place = ImportKinds
BY Kinds16 DEF Place

\* A record is its kind and its number.
LEMMA RecordOf ==
  ASSUME NEW r \in Records
  PROVE  r = <<r[1], r[2]>> /\ r[1] \in ImportKinds /\ r[2] \in Copies
BY DEF Records

LEMMA ConvertedOf ==
  ASSUME NEW r, NEW id
  PROVE  Converted(r, id).rec = r /\ Converted(r, id).id = id
BY DEF Converted

-----------------------------------------------------------------------------
(* Starting and ending a run                                               *)

LEMMA ImportStart ==
  ASSUME ImportIInv, NEW m \in {"full", "incremental"}, Start(m)
  PROVE  ImportIInv'
<1>1. /\ mode = "down" /\ stage = "idle" /\ batch = {}
      /\ mode' = m /\ mode' # "down" /\ at' = 1 /\ stage' = "convert" /\ idMap' = saved
      /\ ended' = "none" /\ faulted' = FALSE /\ lastId' = lastId + 2 * Most
      /\ UNCHANGED <<rows, saved, batch, changed, broken>>
  BY DEF ImportIInv, Start, StageFits, Most
<1>2. ImportShape' /\ StageFits' /\ BatchFits'
  <2>1. lastId' \in Nat
    BY <1>1, MostOf DEF ImportIInv, ImportShape
  <2>2. ImportShape'
    <3>1. \A x \in rows' \cup batch' : x.rec \in Records /\ x.id \in Nat
      BY <1>1 DEF ImportIInv, ImportShape
    <3>2. /\ DOMAIN idMap' \subseteq Records /\ \A r \in DOMAIN idMap' : idMap'[r] \in Nat
          /\ DOMAIN saved' \subseteq Records /\ \A r \in DOMAIN saved' : saved'[r] \in Nat
      BY <1>1 DEF ImportIInv, ImportShape
    <3>3. changed' \subseteq Copies /\ faulted' \in BOOLEAN /\ broken' \in BOOLEAN
      BY <1>1 DEF ImportIInv, ImportShape
    <3>4. mode' \in {"down", "full", "incremental"} /\ at' \in 0..18
      BY <1>1
    <3>5. QED
      BY <2>1, <3>1, <3>2, <3>3, <3>4 DEF ImportShape
  <2>3. StageFits' /\ BatchFits'
    BY <1>1 DEF ImportIInv, StageFits, BatchFits
  <2>4. QED
    BY <2>2, <2>3
<1>3. IdsFit'
  <2>1. \A r, id : Within(r, id, lastId + 2 * Most) => Within(r, id, lastId)'
    BY <1>1 DEF Within, How
  <2>2. \A r, id, stages : Within(r, id, lastId)' => IdFits(r, id, stages)'
    BY DEF IdFits, Within
  <2>3. QED
    BY <1>1, <2>1, <2>2 DEF ImportIInv, IdsFit
<1>4. IdsApart'
  BY <1>1 DEF ImportIInv, IdsApart
<1>5. Backed'
  BY <1>1 DEF ImportIInv, Backed, RowWith, Waits, Forgets, How
<1>6. WholeFits' /\ FullRunMakesWhole'
  <2>1. \A k \in ImportKinds : ~Done(k)'
    BY <1>1, KindTable DEF Done, KindFacts
  <2>2. QED
    BY <1>1, <2>1 DEF WholeFits, Retried, FullRunMakesWhole
<1>7. OneRowFits'
  BY <1>1 DEF ImportIInv, OneRowFits, OneRowEach, MappedOnce, How
<1>8. QED
  BY <1>2, <1>3, <1>4, <1>5, <1>6, <1>7 DEF ImportIInv

\* What both ends of a run leave
LEMMA DownIds ==
  ASSUME ImportShape, IdsFit, mode # "down"
  PROVE  /\ \A x \in rows : Within(x.rec, x.id, lastId + 2 * Most)
         /\ \A r \in DOMAIN saved : Within(r, saved[r], lastId + 2 * Most)
         /\ \A r \in DOMAIN idMap : Within(r, idMap[r], lastId + 2 * Most)
<1>1. ASSUME NEW r \in Records, NEW id \in Nat, NEW stages, IdFits(r, id, stages)
      PROVE  Within(r, id, lastId + 2 * Most)
  <2>1. r[2] \in Nat /\ r[2] <= Most /\ Most \in Nat /\ lastId \in Nat
    BY RecordOf, MostOf DEF ImportShape
  <2>2. r[1] \in ImportKinds /\ (How(r).natural <=> r[1] = "result")
    BY RecordOf, KindTable DEF KindFacts, How
  <2>3. QED
    BY <1>1, <2>1, <2>2 DEF IdFits, Within
<1>2. ASSUME NEW r \in Records, NEW id \in Nat, Within(r, id, lastId)
      PROVE  Within(r, id, lastId + 2 * Most)
  BY <1>2, MostOf DEF Within, ImportShape
<1>3. QED
  BY <1>1, <1>2 DEF ImportShape, IdsFit

LEMMA ImportEnd ==
  ASSUME ImportIInv, Finish \/ Crash
  PROVE  ImportIInv'
<1>1. /\ mode # "down" /\ stage # "idle" /\ ended = "none"
      /\ mode' = "down" /\ at' = 0 /\ stage' = "idle" /\ batch' = {} /\ changed' = {}
      /\ DOMAIN idMap' = {} /\ rows' = rows /\ lastId' = lastId
  BY DEF ImportIInv, StageFits, Finish, Crash, Down, NoIds
<1>2. CASE Finish
  <2>1. /\ at > 17 /\ saved' = idMap /\ ended' = mode /\ batch = {}
        /\ UNCHANGED <<faulted, broken>>
    BY <1>2, OrderOf DEF Finish, NoFault, ImportIInv, StageFits, ImportShape
  <2>2. ImportShape' /\ StageFits' /\ BatchFits'
    BY <1>1, <2>1 DEF ImportIInv, ImportShape, StageFits, BatchFits
  <2>3. IdsFit'
    <3>1. \A r, id : Within(r, id, lastId + 2 * Most) => Within(r, id, lastId + 2 * Most)'
      BY <1>1 DEF Within, How
    <3>2. QED
      BY <1>1, <2>1, <3>1, DownIds DEF ImportIInv, IdsFit
  <2>4. IdsApart'
    BY <1>1 DEF ImportIInv, IdsApart
  <2>5. Backed'
    BY <1>1, <2>1 DEF ImportIInv, Backed, RowWith, Waits, Forgets, How
  <2>6. WholeFits'
    BY <1>1 DEF WholeFits
  <2>7. FullRunMakesWhole'
    <3>1. SUFFICES ASSUME mode = "full", ~faulted PROVE FullRunMakesWhole'
      BY <2>1 DEF FullRunMakesWhole
    <3>2. \A k \in Retried : Done(k)
      BY <2>1, KindTable DEF Retried, Done, KindFacts, ImportIInv, ImportShape
    <3>3. QED
      BY <1>1, <3>1, <3>2 DEF ImportIInv, WholeFits, FullRunMakesWhole, Retried, HasRow
  <2>8. OneRowFits'
    BY <1>1, <2>1 DEF ImportIInv, OneRowFits, OneRowEach, MappedOnce, How
  <2>9. QED
    BY <2>2, <2>3, <2>4, <2>5, <2>6, <2>7, <2>8 DEF ImportIInv
<1>3. CASE Crash
  <2>1. saved' = saved /\ ended' = ended /\ broken' = TRUE /\ faulted' = TRUE
    BY <1>3 DEF Crash, Fault, ImportIInv, ImportShape
  <2>2. ImportShape' /\ StageFits' /\ BatchFits'
    BY <1>1, <2>1 DEF ImportIInv, ImportShape, StageFits, BatchFits
  <2>3. IdsFit'
    <3>1. \A r, id : Within(r, id, lastId + 2 * Most) => Within(r, id, lastId + 2 * Most)'
      BY <1>1 DEF Within, How
    <3>2. QED
      BY <1>1, <2>1, <3>1, DownIds DEF ImportIInv, IdsFit
  <2>4. IdsApart'
    BY <1>1 DEF ImportIInv, IdsApart
  <2>5. Backed'
    BY <1>1, <2>1 DEF ImportIInv, Backed, RowWith, Waits, Forgets, How
  <2>6. WholeFits' /\ FullRunMakesWhole' /\ OneRowFits'
    BY <1>1, <2>1 DEF WholeFits, FullRunMakesWhole, OneRowFits
  <2>7. QED
    BY <2>2, <2>3, <2>4, <2>5, <2>6 DEF ImportIInv
<1>4. QED
  BY <1>2, <1>3

-----------------------------------------------------------------------------
(* From step to step                                                       *)

Moves ==
    /\ UNCHANGED <<rows, saved, idMap, batch, mode, lastId, ended, faulted, broken>>
    /\ changed' \subseteq Copies
    /\ \/ /\ stage = "convert" /\ at' = at /\ at \in 1..17
          /\ \/ at # 16 /\ mode = "incremental" /\ stage' = "upsert"
             \/ at = 16 /\ stage' = "es"
       \/ /\ stage \in {"single", "upsert", "es"} /\ at' = at + 1 /\ stage' = "convert" /\ batch = {}

LEMMA ImportMoves ==
  ASSUME ImportIInv, SinglesDone \/ FindChanged \/ UpsertsDone \/ ReadEs \/ EsDone
  PROVE  Moves
<1>1. ASSUME at <= Len(Order), stage = "convert"
      PROVE  at \in 1..17 /\ (Order[at] = "es" <=> at = 16)
  <2>1. at \in 1..17
    BY <1>1, OrderOf DEF ImportIInv, ImportShape, StageFits
  <2>2. QED
    BY <2>1, PlaceOf
<1>2. CASE FindChanged
  BY <1>1, <1>2 DEF FindChanged, NoFault, Moves
<1>3. CASE ReadEs
  BY <1>1, <1>3, ImportAssumption DEF ReadEs, NoFault, Moves
<1>4. CASE SinglesDone
  BY <1>4 DEF SinglesDone, Proceed, NoFault, Moves, ImportIInv, ImportShape
<1>5. CASE UpsertsDone \/ EsDone
  BY <1>5 DEF UpsertsDone, EsDone, Proceed, NoFault, Moves, ImportIInv, ImportShape, StageFits
<1>6. QED
  BY <1>2, <1>3, <1>4, <1>5

LEMMA ImportMove ==
  ASSUME ImportIInv, Moves
  PROVE  ImportIInv'
<1>1. /\ UNCHANGED <<rows, saved, idMap, batch, mode, lastId, ended, faulted, broken>>
      /\ at \in Nat /\ at' \in {at, at + 1} /\ mode # "down"
  BY DEF Moves, ImportIInv, ImportShape, StageFits
<1>2. ImportShape' /\ StageFits'
  BY DEF Moves, ImportIInv, ImportShape, StageFits
<1>3. BatchFits' /\ batch = {}
  BY DEF Moves, ImportIInv, BatchFits, StageFits
<1>4. \A k \in ImportKinds : Done(k) => Done(k)'
  BY <1>1, KindTable DEF Done, KindFacts
<1>5. IdsFit'
  <2>1. ASSUME NEW r \in Records, NEW id, IdFits(r, id, {"single", "upsert"})
        PROVE  IdFits(r, id, {"single", "upsert"})'
    <3>1. r[1] \in ImportKinds /\ Place[r[1]] \in 1..17
      BY RecordOf, KindTable DEF KindFacts
    <3>2. CASE Within(r, id, lastId)
      BY <1>1, <3>2 DEF IdFits, Within, How
    <3>3. CASE ~How(r).natural /\ id = lastId + r[2] /\ Done(r[1])
      BY <1>1, <1>4, <3>1, <3>3 DEF IdFits, How
    <3>4. CASE ~How(r).natural /\ id = lastId + r[2] /\ at = Place[r[1]] /\ stage \in {"single", "upsert"}
      <4>1. Done(r[1])'
        BY <1>1, <3>1, <3>4 DEF Moves, Done
      <4>2. QED
        BY <1>1, <3>4, <4>1 DEF IdFits, How
    <3>5. CASE r[1] = "submission" /\ id = lastId + Most + r[2] /\ (stage = "es" \/ at > 16)
      <4>1. stage' = "es" \/ at' > 16
        BY <1>1, <3>5 DEF Moves, ImportIInv, StageFits
      <4>2. QED
        BY <1>1, <3>5, <4>1 DEF IdFits, Most
    <3>6. QED
      BY <2>1, <3>2, <3>3, <3>4, <3>5 DEF IdFits
  <2>2. ASSUME NEW r \in Records, NEW id, IdFits(r, id, {"insert", "single", "upsert"})
        PROVE  IdFits(r, id, {"insert", "single", "upsert"})'
    <3>1. IdFits(r, id, {"single", "upsert"})
      BY <2>2 DEF Moves, IdFits
    <3>2. IdFits(r, id, {"single", "upsert"})'
      BY <2>1, <3>1
    <3>3. QED
      BY <3>2 DEF IdFits
  <2>3. \A r, id : Within(r, id, lastId) => Within(r, id, lastId)'
    BY <1>1 DEF Within, How
  <2>4. QED
    BY <1>1, <1>3, <2>1, <2>2, <2>3 DEF ImportIInv, IdsFit, ImportShape
<1>6. IdsApart' /\ Backed' /\ OneRowFits'
  BY <1>1 DEF ImportIInv, IdsApart, Backed, RowWith, Waits, Forgets, How,
              OneRowFits, OneRowEach, MappedOnce, HasRow
<1>7. FullRunMakesWhole'
  BY <1>1 DEF ImportIInv, StageFits, FullRunMakesWhole
<1>8. WholeFits'
  <2> SUFFICES ASSUME mode = "full", ~faulted PROVE WholeFits'
    BY <1>1 DEF WholeFits
  <2>1. stage' \notin {"insert", "single"}
    BY DEF Moves
  <2>2. ASSUME NEW k \in Retried, NEW n \in Copies, Done(k)'
        PROVE  HasRow(<<k, n>>)' /\ (k \in Chain => Mapped(<<k, n>>)')
    <3>1. k \in ImportKinds /\ Place[k] \in 1..17 /\ Place[k] # 16
      BY KindTable DEF Retried, KindFacts
    <3>2. CASE Done(k)
      BY <1>1, <2>2, <3>2 DEF ImportIInv, WholeFits, HasRow, Mapped
    <3>3. CASE ~Done(k)
      <4>1. at' = at + 1 /\ at = Place[k] /\ stage = "single"
        BY <1>1, <2>2, <3>1, <3>3 DEF Moves, Done, ImportIInv, StageFits
      <4>2. KindHere = k
        BY <3>1, <4>1, PlaceOf, PlacesApart
      <4>3. QED
        BY <1>1, <1>3, <4>1, <4>2 DEF ImportIInv, WholeFits, HasRow, Mapped, Waits
    <3>4. QED
      BY <3>2, <3>3
  <2>3. QED
    BY <2>1, <2>2 DEF WholeFits
<1>9. QED
  BY <1>2, <1>3, <1>5, <1>6, <1>7, <1>8 DEF ImportIInv

-----------------------------------------------------------------------------
(* A full run: batches                                                     *)

\* The place a full run writes at
FullPlace ==
    /\ at \in 1..17 /\ at # 16 /\ mode = "full"
    /\ KindHere \in ImportKinds /\ Place[KindHere] = at

LEMMA FullAt ==
  ASSUME ImportIInv, stage \in {"insert", "single"}
  PROVE  FullPlace
BY PlaceOf DEF ImportIInv, StageFits, FullPlace

\* The id a record is given
LEMMA FreshOf ==
  ASSUME at \in 1..17, at # 16, NEW r \in {KindHere} \X Copies
  PROVE  /\ r \in Records /\ r[1] = KindHere /\ r[2] \in Copies /\ r = <<KindHere, r[2]>>
         /\ Fresh(r) = IF How(r).natural THEN r[2] ELSE lastId + r[2]
<1>1. KindHere \in ImportKinds /\ Order[at] # "es"
  BY PlaceOf
<1>2. QED
  BY <1>1 DEF Fresh, Records

LEMMA ImportConvert ==
  ASSUME ImportIInv, Convert
  PROVE  ImportIInv'
<1>1. /\ stage = "convert" /\ mode = "full" /\ batch = {} /\ at \in 1..17
      /\ stage' = "insert"
      /\ UNCHANGED <<rows, saved, mode, at, changed, lastId, ended, faulted, broken>>
  BY OrderOf DEF Convert, NoFault, ImportIInv, StageFits, ImportShape
<1>2. at # 16 /\ KindHere \in ImportKinds /\ Place[KindHere] = at /\ KindHere' = KindHere
  BY <1>1, PlaceOf DEF Convert, KindHere
<1>3. PICK T : T = {r \in {KindHere} \X Copies : ~Skipped(r) /\ Convertible(r)}
  OBVIOUS
<1>4. PICK ids : ids = idMap'
  OBVIOUS
<1>5. ids = [r \in DOMAIN idMap \cup T |-> IF r \in T THEN Fresh(r) ELSE idMap[r]]
  BY <1>3, <1>4 DEF Convert
<1>6. batch' = {Converted(r, Fresh(r)) : r \in T}
  BY <1>3 DEF Convert
<1>7. ASSUME NEW r \in T
      PROVE  /\ r \in Records /\ r[1] = KindHere /\ r[2] \in Copies /\ r = <<KindHere, r[2]>>
             /\ ids[r] = Fresh(r)
             /\ ids[r] = IF How(r).natural THEN r[2] ELSE lastId + r[2]
             /\ ids[r] \in Nat /\ ~Skipped(r)
  <2>1. r \in {KindHere} \X Copies /\ ~Skipped(r)
    BY <1>3
  <2>2. r[2] \in Nat /\ lastId \in Nat
    BY <2>1, MostOf DEF ImportIInv, ImportShape
  <2>3. ids[r] = Fresh(r)
    BY <1>5
  <2>4. QED
    BY <1>1, <1>2, <2>1, <2>2, <2>3, FreshOf
<1>8. /\ DOMAIN ids = DOMAIN idMap \cup T
      /\ \A r \in DOMAIN ids \ T : r \in DOMAIN idMap /\ ids[r] = idMap[r]
  BY <1>5
<1>9. ASSUME NEW x \in batch'
      PROVE  x.rec \in T /\ x.id = ids[x.rec] /\ x = Converted(x.rec, x.id)
  BY <1>6, <1>7, ConvertedOf
<1>10. \A r \in T : \E x \in batch' : x.rec = r
  BY <1>6, ConvertedOf
<1>11. ImportShape' /\ StageFits'
  <2>1. \A x \in rows' \cup batch' : x.rec \in Records /\ x.id \in Nat
    <3> TAKE x \in rows' \cup batch'
    <3>1. CASE x \in rows
      BY <3>1 DEF ImportIInv, ImportShape
    <3>2. CASE x \in batch'
      BY <1>7, <1>9, <3>2
    <3>3. QED
      BY <1>1, <3>1, <3>2
  <2>2. DOMAIN idMap' \subseteq Records /\ \A r \in DOMAIN idMap' : idMap'[r] \in Nat
    BY <1>4, <1>7, <1>8 DEF ImportIInv, ImportShape
  <2>3. ImportShape'
    BY <1>1, <2>1, <2>2 DEF ImportIInv, ImportShape
  <2>4. StageFits'
    BY <1>1, <1>2 DEF ImportIInv, StageFits
  <2>5. QED
    BY <2>3, <2>4
<1>12. BatchFits'
  <2>1. \A x \in batch' : x.rec[1] = KindHere /\ x.rec \in DOMAIN ids /\ ids[x.rec] = x.id
    BY <1>7, <1>8, <1>9
  <2>2. \A x, y \in batch' : x.rec = y.rec => x = y
    BY <1>9
  <2>3. QED
    BY <1>2, <1>4, <2>1, <2>2 DEF BatchFits, Mapped
<1>13. IdsFit'
  <2>1. ASSUME NEW r, NEW id, NEW A, NEW B, IdFits(r, id, A), stage \notin A
        PROVE  IdFits(r, id, B)'
    <3>1. Done(r[1])' <=> Done(r[1])
      BY <1>1 DEF Done
    <3>2. QED
      BY <1>1, <2>1, <3>1 DEF IdFits, Within, How, Most
  <2>2. ASSUME NEW r \in T
        PROVE  IdFits(r, ids[r], {"insert", "single", "upsert"})'
    BY <1>1, <1>2, <1>7 DEF IdFits, Within, How
  <2>3. \A x \in rows : IdFits(x.rec, x.id, {"single", "upsert"})'
    BY <1>1, <2>1 DEF ImportIInv, IdsFit
  <2>4. \A r \in DOMAIN saved : Within(r, saved[r], lastId)
    BY <1>1 DEF ImportIInv, IdsFit
  <2>5. \A r \in DOMAIN ids : IdFits(r, ids[r], {"insert", "single", "upsert"})'
    <3> TAKE r \in DOMAIN ids
    <3>1. CASE r \in T
      BY <2>2, <3>1
    <3>2. CASE r \notin T
      <4>1. PICK id : id = idMap[r]
        OBVIOUS
      <4>2. r \in DOMAIN idMap /\ ids[r] = id
        BY <1>8, <3>2, <4>1
      <4>3. IdFits(r, id, {"insert", "single", "upsert"})
        BY <1>1, <4>1, <4>2 DEF ImportIInv, IdsFit
      <4>4. QED
        BY <1>1, <2>1, <4>2, <4>3
    <3>3. QED
      BY <3>1, <3>2
  <2>6. \A x \in batch' : x.id = IF How(x.rec).natural THEN x.rec[2] ELSE lastId + x.rec[2]
    BY <1>7, <1>9
  <2>7. \A r \in DOMAIN saved' : Within(r, saved[r], lastId)'
    BY <1>1, <2>4 DEF Within, How
  <2>8. QED
    BY <1>1, <1>4, <2>3, <2>5, <2>6, <2>7 DEF IdsFit, How
<1>14. IdsApart'
  BY <1>1 DEF ImportIInv, IdsApart
<1>15. Backed'
  <2>1. ASSUME NEW r, NEW id, RowWith(r, id) PROVE RowWith(r, id)'
    BY <1>1, <2>1 DEF RowWith
  <2>2. \A r \in DOMAIN idMap : Forgets(r) => RowWith(r, idMap[r])
    BY <1>1 DEF ImportIInv, Backed, Waits
  <2>3. \A r \in DOMAIN saved' : Forgets(r) => RowWith(r, saved[r])'
    BY <1>1 DEF ImportIInv, Backed, RowWith
  <2>4. ASSUME NEW r \in DOMAIN ids, Forgets(r), ~Waits(r)'
        PROVE  RowWith(r, ids[r])'
    <3>1. r \notin T
      BY <1>10, <2>4 DEF Waits
    <3>2. r \in DOMAIN idMap /\ ids[r] = idMap[r]
      BY <1>8, <3>1
    <3>3. RowWith(r, ids[r])
      BY <2>2, <2>4, <3>2
    <3>4. QED
      BY <2>1, <3>3
  <2>5. ASSUME NEW x \in batch', x.rec[1] # "response", NEW ref \in x.refs
        PROVE  \E y \in rows' : y.rec[1] = ref[1] /\ y.id = ref[2]
    <3>1. x.refs = {<<k, idMap[ParentOf(x.rec, k)]>> :
                      k \in {l \in How(x.rec).needs \cup How(x.rec).links : Mapped(ParentOf(x.rec, l))}}
      <4>1. x = Converted(x.rec, x.id)
        BY <1>9
      <4>2. QED
        BY <4>1 DEF Converted
    <3>2. PICK k \in How(x.rec).needs \cup How(x.rec).links :
            Mapped(ParentOf(x.rec, k)) /\ ref = <<k, idMap[ParentOf(x.rec, k)]>>
      BY <2>5, <3>1
    <3>3. ParentOf(x.rec, k)[1] = k
      BY DEF ParentOf
    <3>4. k \in ImportKinds /\ k \notin {"appeal", "pair"}
      BY <1>2, <1>7, <1>9, <2>5, <3>2, KindTable DEF KindFacts, How
    <3>5. Forgets(ParentOf(x.rec, k))
      BY <3>3, <3>4, KindTable DEF Forgets, How, KindFacts
    <3>6. PICK y \in rows : y.rec = ParentOf(x.rec, k) /\ y.id = idMap[ParentOf(x.rec, k)]
      BY <2>2, <3>2, <3>5 DEF Mapped, RowWith
    <3>7. QED
      BY <1>1, <3>2, <3>3, <3>6
  <2>6. \A r \in DOMAIN idMap' : Forgets(r) /\ ~Waits(r)' => RowWith(r, idMap[r])'
    BY <1>4, <2>4 DEF RowWith
  <2>7. QED
    BY <2>3, <2>5, <2>6 DEF Backed, Forgets, How
<1>16. FullRunMakesWhole'
  BY <1>1 DEF ImportIInv, StageFits, FullRunMakesWhole
<1>17. WholeFits'
  <2> SUFFICES ASSUME ~faulted PROVE WholeFits'
    BY <1>1 DEF WholeFits
  <2>1. \A k : Done(k)' <=> Done(k)
    BY <1>1 DEF Done
  <2>2. \A r : HasRow(r)' <=> HasRow(r)
    BY <1>1 DEF HasRow
  <2>3. \A r : Mapped(r) \/ r \in T => Mapped(r)'
    BY <1>4, <1>8 DEF Mapped
  <2>4. \A k \in Retried, n \in Copies :
          /\ Done(k) => HasRow(<<k, n>>)
          /\ Done(k) /\ k \in Chain => Mapped(<<k, n>>)
    BY <1>1 DEF ImportIInv, WholeFits
  <2>5. ASSUME KindHere \in Retried, NEW r \in {KindHere} \X Copies
        PROVE  (HasRow(r)' \/ Waits(r)') /\ Mapped(r)'
    <3>1. r[1] = KindHere /\ r[2] \in Copies
      OBVIOUS
    <3>2. KindHere \in ImportKinds /\ KindHere \notin {"appeal", "pair", "response"}
      BY <2>5 DEF Retried, NotRetried
    <3>3. Convertible(r)
      <4> SUFFICES ASSUME NEW k \in How(r).needs PROVE Mapped(ParentOf(r, k))
        BY DEF Convertible
      <4>1. k \in Chain /\ k \in ImportKinds /\ Place[k] < at
        BY <1>2, <2>5, <3>1, <3>2, KindTable DEF KindFacts, How
      <4>2. Done(k) /\ k \in Retried
        BY <1>1, <4>1, KindTable DEF Done, KindFacts
      <4>3. ParentOf(r, k) = <<k, r[2]>>
        BY <3>1, <3>2 DEF ParentOf
      <4>4. QED
        BY <2>4, <3>1, <4>1, <4>2, <4>3
    <3>4. CASE r \in T
      BY <1>10, <2>3, <3>4 DEF Waits
    <3>5. CASE r \notin T
      <4>1. Skipped(r)
        BY <1>3, <3>3, <3>5
      <4>2. Mapped(r) /\ Forgets(r)
        BY <3>1, <3>2, <4>1, KindTable DEF Skipped, Forgets, How, KindFacts
      <4>3. HasRow(r)
        BY <1>1, <4>2 DEF ImportIInv, Backed, Waits, Mapped, RowWith, HasRow
      <4>4. HasRow(r)'
        BY <2>2, <4>3
      <4>5. QED
        BY <2>3, <4>2, <4>4
    <3>6. QED
      BY <3>4, <3>5
  <2>6. KindHere \in Retried => \A n \in Copies : /\ HasRow(<<KindHere, n>>)' \/ Waits(<<KindHere, n>>)'
                                                  /\ Mapped(<<KindHere, n>>)'
    <3> SUFFICES ASSUME KindHere \in Retried, NEW n \in Copies
                 PROVE  /\ HasRow(<<KindHere, n>>)' \/ Waits(<<KindHere, n>>)'
                        /\ Mapped(<<KindHere, n>>)'
      OBVIOUS
    <3>1. PICK r : r = <<KindHere, n>>
      OBVIOUS
    <3>2. (HasRow(r)' \/ Waits(r)') /\ Mapped(r)'
      BY <2>5, <3>1
    <3>3. QED
      BY <1>2, <3>1, <3>2 DEF HasRow, Waits, Mapped
  <2>7. stage' # "single"
    BY <1>1
  <2>8. ASSUME NEW k \in Retried, NEW n \in Copies
        PROVE  /\ Done(k)' => HasRow(<<k, n>>)'
               /\ Done(k)' /\ k \in Chain => Mapped(<<k, n>>)'
    BY <2>1, <2>2, <2>3, <2>4
  <2>9. QED
    BY <1>2, <2>6, <2>7, <2>8 DEF WholeFits
<1>18. OneRowFits'
  <2> SUFFICES ASSUME ~broken PROVE OneRowFits'
    BY <1>1 DEF OneRowFits
  <2>1. OneRowEach' /\ MappedOnce(idMap)
    BY <1>1 DEF ImportIInv, OneRowFits, OneRowEach
  <2>2. ASSUME NEW r \in T, How(r).rechecked
        PROVE  ~Mapped(r) /\ ~HasRow(r)
    BY <1>7, <2>1, <2>2 DEF Skipped, Mapped, MappedOnce, HasRow
  <2>3. \A x \in rows : How(x.rec).rechecked => x.rec \in DOMAIN ids /\ ids[x.rec] = x.id
    <3> SUFFICES ASSUME NEW x \in rows, How(x.rec).rechecked
                 PROVE  x.rec \in DOMAIN ids /\ ids[x.rec] = x.id
      OBVIOUS
    <3>1. x.rec \in DOMAIN idMap /\ idMap[x.rec] = x.id
      BY <2>1 DEF MappedOnce
    <3>2. x.rec \notin T
      BY <2>2, <3>1 DEF Mapped
    <3>3. QED
      BY <1>8, <3>1, <3>2
  <2>4. \A x \in batch' : How(x.rec).rechecked => ~HasRow(x.rec)'
    BY <1>1, <1>9, <2>2 DEF HasRow
  <2>5. QED
    BY <1>1, <1>4, <2>1, <2>3, <2>4 DEF OneRowFits, MappedOnce, How
<1>19. QED
  BY <1>11, <1>12, <1>13, <1>14, <1>15, <1>16, <1>17, <1>18 DEF ImportIInv

\* What has a row keeps it: RowWith and HasRow only grow.
LEMMA RowsStay ==
  ASSUME rows \subseteq rows'
  PROVE  /\ \A r, id : RowWith(r, id) => RowWith(r, id)'
         /\ \A r : HasRow(r) => HasRow(r)'
BY DEF RowWith, HasRow

\* Neither the step nor the ids of the run change while a batch is written.
LEMMA IdsOfBatch ==
  ASSUME at' = at, lastId' = lastId, stage \in {"insert", "single"}, stage' = "single",
         NEW r, NEW id
  PROVE  /\ IdFits(r, id, {"single", "upsert"}) => IdFits(r, id, {"single", "upsert"})'
         /\ IdFits(r, id, {"insert", "single", "upsert"}) => IdFits(r, id, {"insert", "single", "upsert"})'
<1>1. Done(r[1])' <=> Done(r[1])
  BY DEF Done
<1>2. QED
  BY <1>1 DEF IdFits, Within, How, Most

LEMMA IdsOfBatchDone ==
  ASSUME at' = at + 1, at \in Nat, lastId' = lastId, stage \in {"insert", "single"}, stage' = "convert",
         NEW r \in Records, NEW id, NEW A, A \subseteq {"insert", "single", "upsert"}, NEW B,
         IdFits(r, id, A)
  PROVE  IdFits(r, id, B)'
<1>1. Place[r[1]] \in 1..17
  BY RecordOf, KindTable DEF KindFacts
<1>2. Done(r[1]) \/ at = Place[r[1]] => Done(r[1])'
  BY <1>1 DEF Done
<1>3. QED
  BY <1>2 DEF IdFits, Within, How, Most

\* A record of the batch, written or not, has an id of this run.
LEMMA IdsInBatch ==
  ASSUME ImportIInv, NEW x \in batch
  PROVE  /\ x.rec \in Records /\ x.rec[1] = KindHere /\ x.rec[1] \in ImportKinds
         /\ x.id = IF How(x.rec).natural THEN x.rec[2] ELSE lastId + x.rec[2]
         /\ x.rec[2] \in Nat /\ 0 < x.rec[2] /\ x.rec[2] <= Most /\ lastId \in Nat
         /\ mode = "full" /\ stage \in {"insert", "single"} /\ FullPlace
         /\ Mapped(x.rec) /\ idMap[x.rec] = x.id
<1>1. x.rec \in Records /\ x.rec[1] = KindHere /\ Mapped(x.rec) /\ idMap[x.rec] = x.id
  BY DEF ImportIInv, ImportShape, BatchFits
<1>2. mode = "full" /\ stage \in {"insert", "single"}
  BY DEF ImportIInv, StageFits
<1>3. x.id = IF How(x.rec).natural THEN x.rec[2] ELSE lastId + x.rec[2]
  BY <1>2 DEF ImportIInv, IdsFit
<1>4. x.rec[1] \in ImportKinds /\ x.rec[2] \in Copies
  BY <1>1, RecordOf
<1>5. x.rec[2] \in Nat /\ 0 < x.rec[2] /\ x.rec[2] <= Most
  BY <1>4, MostOf
<1>6. lastId \in Nat
  BY DEF ImportIInv, ImportShape
<1>7. QED
  BY <1>1, <1>2, <1>3, <1>4, <1>5, <1>6, FullAt

\* A row of the kind of a batch with an id of the batch is of its record, and
\* there is none before the batch is written.
LEMMA SameIdSameRecord ==
  ASSUME ImportIInv, NEW x \in batch, NEW y \in rows, y.rec[1] = x.rec[1], y.id = x.id
  PROVE  y.rec = x.rec /\ (stage = "insert" => KindHere = "result")
<1>1. /\ x.rec \in Records /\ x.rec[1] = KindHere /\ KindHere \in ImportKinds
      /\ x.id = IF How(x.rec).natural THEN x.rec[2] ELSE lastId + x.rec[2]
      /\ x.rec[2] \in Nat /\ 0 < x.rec[2] /\ x.rec[2] <= Most /\ lastId \in Nat /\ Most \in Nat
      /\ mode = "full" /\ stage \in {"insert", "single"} /\ FullPlace
  BY IdsInBatch, MostOf
<1>2. y.rec \in Records /\ y.rec[2] \in Nat
  BY RecordOf, MostOf DEF ImportIInv, ImportShape
<1>3. IdFits(y.rec, y.id, {"single", "upsert"})
  BY <1>1 DEF ImportIInv, IdsFit
<1>4. How(y.rec) = How(x.rec) /\ (How(x.rec).natural <=> KindHere = "result")
  BY <1>1, KindTable DEF How, KindFacts
<1>5. at = Place[KindHere] /\ ~Done(KindHere) /\ at # 16 /\ at \in 1..17
  BY <1>1 DEF FullPlace, Done
<1>6. CASE How(x.rec).natural
  <2>1. y.id = y.rec[2]
    BY <1>1, <1>3, <1>4, <1>6 DEF IdFits, Within
  <2>2. QED
    BY <1>1, <1>2, <1>4, <1>6, <2>1, RecordOf
<1>7. CASE ~How(x.rec).natural
  <2>1. x.id = lastId + x.rec[2] /\ ~(y.id <= lastId)
    BY <1>1, <1>7
  <2>2. ~(y.rec[1] = "submission" /\ (stage = "es" \/ at > 16))
    <3>1. y.rec[1] = "submission" => at = 2
      BY <1>1, <1>5, PlaceValues
    <3>2. QED
      BY <1>1, <3>1
  <2>3. y.id = lastId + y.rec[2] /\ stage \in {"single", "upsert"}
    BY <1>1, <1>3, <1>4, <1>5, <1>7, <2>1, <2>2 DEF IdFits, Within
  <2>4. y.rec[2] = x.rec[2]
    BY <1>1, <1>2, <2>1, <2>3
  <2>5. QED
    BY <1>1, <1>2, <2>3, <2>4, RecordOf
<1>8. QED
  BY <1>6, <1>7

\* Where everything needed is there, nothing of a batch is refused for a reference.
LEMMA RefsHold ==
  ASSUME ImportIInv, NEW x \in batch, KindHere \in Retried
  PROVE  \A ref \in x.refs : \E y \in rows : y.rec[1] = ref[1] /\ y.id = ref[2]
<1>1. x.rec[1] # "response"
  BY IdsInBatch DEF Retried, NotRetried
<1>2. QED
  BY <1>1 DEF ImportIInv, Backed

\* No review of a batch is refused for its unique key.
LEMMA NoReviewRefused ==
  ASSUME ImportIInv, CardsFit, stage = "insert", KindHere = "review", NEW x \in batch, NEW y \in rows,
         y.rec[1] = x.rec[1]
  PROVE  y.refs # x.refs
<1>1. x.rec[1] = "review" /\ y.rec[1] = "review" /\ FullPlace /\ lastId \in Nat
  BY IdsInBatch
<1>2. at = 8 /\ mode = "full"
  BY <1>1 DEF FullPlace, Place
<1>3. \A c \in CardsOf(y) : c \in Nat /\ c <= lastId + 0
  BY <1>1, <1>2 DEF CardsFit, ReviewsWritten
<1>4. PICK c \in CardsOf(x) : lastId < c
  BY <1>1 DEF CardsFit
<1>5. SUFFICES ASSUME y.refs = x.refs PROVE FALSE
  OBVIOUS
<1>6. c \in CardsOf(y)
  BY <1>4, <1>5 DEF CardsOf
<1>7. c \in Nat /\ c <= lastId /\ lastId \in Nat
  BY <1>1, <1>3, <1>6
<1>8. QED
  BY <1>4, <1>7

\* What a batch can be refused for, of the kinds that are made whole.
LEMMA RefusedHasRow ==
  ASSUME ImportIInv, CardsFit, NEW x \in batch, KindHere \in Retried, ~Fits(x),
         stage = "insert" \/ KindHere \in {"result", "provider"}
  PROVE  HasRow(x.rec) /\ (stage = "insert" => KindHere \in {"result", "provider"})
<1>1. x.rec[1] = KindHere /\ KindHere \in ImportKinds
  BY IdsInBatch
<1>2. How(x.rec).named <=> KindHere \in {"provider", "model", "workflow"}
  BY <1>1, KindTable DEF How, KindFacts
<1>0. ~(How(x.rec).sole /\ \E y \in rows : y.rec[1] = x.rec[1] /\ y.refs = x.refs)
  <2>1. How(x.rec).sole => KindHere \in {"review", "appeal", "response"}
    BY <1>1, KindTable DEF How, KindFacts
  <2>2. How(x.rec).sole => KindHere = "review" /\ stage = "insert"
    BY <2>1 DEF Retried, NotRetried
  <2>3. QED
    BY <2>2, NoReviewRefused
<1>3. \/ \E y \in rows : y.rec[1] = x.rec[1] /\ y.id = x.id
      \/ How(x.rec).named /\ \E y \in rows : y.rec = x.rec
  BY <1>0, RefsHold DEF Fits, FitsAmong, Keyed
<1>4. CASE \E y \in rows : y.rec[1] = x.rec[1] /\ y.id = x.id
  BY <1>4, SameIdSameRecord DEF HasRow
<1>5. CASE How(x.rec).named /\ \E y \in rows : y.rec = x.rec
  BY <1>2, <1>5 DEF HasRow, Retried, NotRetried
<1>6. QED
  BY <1>3, <1>4, <1>5

\* What is written of a batch has ids of its own.
LEMMA WrittenApart ==
  ASSUME ImportIInv, NEW W, W \subseteq batch, \A x \in W : Fits(x), rows' = rows \cup W
  PROVE  IdsApart'
<1>1. ASSUME NEW x \in W, NEW y \in rows, y.rec[1] = x.rec[1], y.id = x.id PROVE FALSE
  BY <1>1 DEF Fits, FitsAmong
<1>2. ASSUME NEW x \in W, NEW y \in W, y.rec[1] = x.rec[1], y.id = x.id PROVE x.rec = y.rec
  <2>1. /\ x.rec \in Records /\ y.rec \in Records /\ x.rec[2] \in Nat /\ y.rec[2] \in Nat /\ lastId \in Nat
        /\ x.id = IF How(x.rec).natural THEN x.rec[2] ELSE lastId + x.rec[2]
        /\ y.id = IF How(y.rec).natural THEN y.rec[2] ELSE lastId + y.rec[2]
    BY IdsInBatch
  <2>2. How(x.rec) = How(y.rec)
    BY <1>2 DEF How
  <2>3. x.rec[2] = y.rec[2]
    BY <1>2, <2>1, <2>2
  <2>4. x.rec = <<x.rec[1], x.rec[2]>> /\ y.rec = <<y.rec[1], y.rec[2]>>
    BY <2>1, RecordOf
  <2>5. QED
    BY <1>2, <2>3, <2>4
<1>3. \A x, y \in rows : x.rec[1] = y.rec[1] /\ x.id = y.id => x.rec = y.rec
  BY DEF ImportIInv, IdsApart
<1>4. QED
  BY <1>1, <1>2, <1>3 DEF IdsApart

\* A batch is written, and the step is done.
LEMMA AllWritten ==
  ASSUME ImportIInv, stage = "insert", AllFit, rows' = rows \cup batch, batch' = {}, Proceed, NoFault,
         UNCHANGED <<saved, idMap, mode, delta, changed, lastId, ended>>
  PROVE  ImportIInv'
<1>1. /\ FullPlace /\ mode' = mode /\ mode = "full" /\ at \in 1..17 /\ at # 16
      /\ at' = at + 1 /\ stage' = "convert" /\ at \in Nat
      /\ UNCHANGED <<saved, idMap, changed, lastId, ended, faulted, broken>>
  BY FullAt DEF FullPlace, Proceed, NoFault
<1>2. \A x \in batch : /\ x.rec \in Records /\ x.rec[1] = KindHere /\ x.rec[1] \in ImportKinds
                       /\ Mapped(x.rec) /\ idMap[x.rec] = x.id /\ x.id \in Nat
  BY IdsInBatch DEF ImportIInv, ImportShape
<1>3. ImportShape' /\ StageFits' /\ BatchFits'
  BY <1>1, <1>2 DEF ImportIInv, ImportShape, StageFits, BatchFits
<1>4. IdsFit'
  <2>1. \A x \in batch : IdFits(x.rec, x.id, {"single", "upsert"})'
    <3> TAKE x \in batch
    <3>1. IdFits(x.rec, idMap[x.rec], {"insert", "single", "upsert"})
      BY <1>1, <1>2 DEF ImportIInv, IdsFit, Mapped
    <3>2. IdFits(x.rec, x.id, {"insert", "single", "upsert"})
      BY <1>2, <3>1
    <3>3. QED
      BY <1>1, <1>2, <3>2, IdsOfBatchDone
  <2>2. \A x \in rows : IdFits(x.rec, x.id, {"single", "upsert"})'
    <3> TAKE x \in rows
    <3>1. IdFits(x.rec, x.id, {"single", "upsert"}) /\ x.rec \in Records
      BY <1>1 DEF ImportIInv, IdsFit, ImportShape
    <3>2. QED
      BY <1>1, <3>1, IdsOfBatchDone
  <2>3. \A r \in DOMAIN idMap : IdFits(r, idMap[r], {"insert", "single", "upsert"})'
    <3> TAKE r \in DOMAIN idMap
    <3>1. PICK id : id = idMap[r]
      OBVIOUS
    <3>2. IdFits(r, id, {"insert", "single", "upsert"}) /\ r \in Records
      BY <1>1, <3>1 DEF ImportIInv, IdsFit, ImportShape
    <3>3. IdFits(r, id, {"insert", "single", "upsert"})'
      BY <1>1, <3>2, IdsOfBatchDone
    <3>4. QED
      BY <1>1, <3>1, <3>3 DEF IdFits, Within, How, Done
  <2>4. \A r \in DOMAIN saved : Within(r, saved[r], lastId)'
    BY <1>1 DEF ImportIInv, IdsFit, Within, How
  <2>5. QED
    BY <1>1, <2>1, <2>2, <2>3, <2>4 DEF IdsFit
<1>5. IdsApart'
  BY WrittenApart DEF AllFit
<1>6. Backed'
  <2>1. \A r \in DOMAIN saved : Forgets(r) => RowWith(r, saved[r])
    BY DEF ImportIInv, Backed
  <2>2. \A r \in DOMAIN idMap : Forgets(r) => \E x \in rows \cup batch : x.rec = r /\ x.id = idMap[r]
    <3> SUFFICES ASSUME NEW r \in DOMAIN idMap, Forgets(r)
                 PROVE  \E x \in rows \cup batch : x.rec = r /\ x.id = idMap[r]
      OBVIOUS
    <3>1. CASE Waits(r)
      BY <1>2, <3>1 DEF Waits
    <3>2. CASE ~Waits(r)
      BY <3>2 DEF ImportIInv, Backed, RowWith
    <3>3. QED
      BY <3>1, <3>2
  <2>3. QED
    BY <1>1, <2>1, <2>2 DEF Backed, RowWith, Forgets, How
<1>7. FullRunMakesWhole'
  BY <1>1 DEF ImportIInv, StageFits, FullRunMakesWhole
<1>8. WholeFits'
  <2> SUFFICES ASSUME ~faulted PROVE WholeFits'
    BY <1>1 DEF WholeFits
  <2>1. ASSUME NEW k \in Retried, NEW n \in Copies, Done(k)'
        PROVE  HasRow(<<k, n>>)' /\ (k \in Chain => Mapped(<<k, n>>)')
    <3>1. k \in ImportKinds /\ Place[k] \in 1..17 /\ Place[k] # 16
      BY KindTable DEF Retried, KindFacts
    <3>2. CASE Done(k)
      BY <1>1, <3>2 DEF ImportIInv, WholeFits, HasRow, Mapped
    <3>3. CASE ~Done(k)
      <4>1. at = Place[k]
        BY <1>1, <2>1, <3>1, <3>3 DEF Done
      <4>2. KindHere = k
        BY <1>1, <3>1, <4>1, PlacesApart DEF FullPlace
      <4>3. (HasRow(<<k, n>>) \/ Waits(<<k, n>>)) /\ (k \in Chain => Mapped(<<k, n>>))
        BY <1>1, <4>2 DEF ImportIInv, WholeFits
      <4>4. QED
        BY <1>1, <4>3 DEF HasRow, Waits, Mapped
    <3>4. QED
      BY <3>2, <3>3
  <2>2. QED
    BY <1>1, <2>1 DEF WholeFits
<1>9. OneRowFits'
  <2> SUFFICES ASSUME ~broken PROVE OneRowFits'
    BY <1>1 DEF OneRowFits
  <2>1. /\ \A x, y \in rows : x.rec = y.rec /\ How(x.rec).rechecked => x = y
        /\ MappedOnce(idMap)
        /\ \A x \in batch : How(x.rec).rechecked => ~HasRow(x.rec)
    BY <1>1 DEF ImportIInv, OneRowFits, OneRowEach
  <2>2. \A x, y \in batch : x.rec = y.rec => x = y
    BY DEF ImportIInv, BatchFits
  <2>3. OneRowEach'
    BY <1>1, <2>1, <2>2 DEF OneRowEach, HasRow, How
  <2>4. \A x \in rows \cup batch : How(x.rec).rechecked => x.rec \in DOMAIN idMap /\ idMap[x.rec] = x.id
    BY <1>2, <2>1 DEF MappedOnce, Mapped
  <2>5. QED
    BY <1>1, <2>3, <2>4 DEF OneRowFits, MappedOnce, How
<1>10. QED
  BY <1>3, <1>4, <1>5, <1>6, <1>7, <1>8, <1>9 DEF ImportIInv

\* The write of a batch fails, or its answer is lost: its records are tried
\* one by one.
LEMMA TriedSingly ==
  ASSUME ImportIInv, CardsFit, stage = "insert", stage' = "single", batch # {}, UNCHANGED <<batch, at>>,
         \/ AllFit /\ rows' = rows \cup batch /\ Fault("losses")
         \/ rows' = rows /\ IF AllFit THEN Fault("faults") ELSE NoFault,
         UNCHANGED <<saved, idMap, mode, delta, changed, lastId, ended>>
  PROVE  ImportIInv'
<1>1. /\ FullPlace /\ mode' = mode /\ mode = "full" /\ at \in 1..17 /\ at # 16 /\ KindHere' = KindHere
      /\ UNCHANGED <<saved, idMap, batch, at, changed, lastId, ended>>
  BY FullAt DEF FullPlace, KindHere
<1>2. /\ rows \subseteq rows' /\ rows' \subseteq rows \cup batch
      /\ faulted' \in BOOLEAN /\ broken' \in BOOLEAN /\ (faulted => faulted') /\ (broken => broken')
      /\ rows' # rows => broken'
      /\ rows' # rows => AllFit /\ rows' = rows \cup batch
      /\ AllFit => faulted'
  BY DEF Fault, NoFault, ImportIInv, ImportShape
<1>3. \A x \in batch : /\ x.rec \in Records /\ x.rec[1] = KindHere /\ x.rec[1] \in ImportKinds
                       /\ Mapped(x.rec) /\ idMap[x.rec] = x.id /\ x.id \in Nat
  BY IdsInBatch DEF ImportIInv, ImportShape
<1>4. ImportShape' /\ StageFits'
  BY <1>1, <1>2, <1>3 DEF ImportIInv, ImportShape, StageFits
<1>5. BatchFits'
  BY <1>1 DEF ImportIInv, BatchFits, Mapped
<1>6. IdsFit'
  <2>1. \A x \in batch : IdFits(x.rec, x.id, {"single", "upsert"})'
    <3> TAKE x \in batch
    <3>1. IdFits(x.rec, idMap[x.rec], {"insert", "single", "upsert"})
      BY <1>1, <1>3 DEF ImportIInv, IdsFit, Mapped
    <3>2. IdFits(x.rec, x.id, {"insert", "single", "upsert"})'
      BY <1>1, <1>3, <3>1, IdsOfBatch
    <3>3. QED
      BY <3>2 DEF IdFits
  <2>2. \A x \in rows : IdFits(x.rec, x.id, {"single", "upsert"})'
    <3> TAKE x \in rows
    <3>1. IdFits(x.rec, x.id, {"single", "upsert"})
      BY <1>1 DEF ImportIInv, IdsFit
    <3>2. QED
      BY <1>1, <3>1, IdsOfBatch
  <2>3. \A r \in DOMAIN idMap : IdFits(r, idMap[r], {"insert", "single", "upsert"})'
    <3> TAKE r \in DOMAIN idMap
    <3>1. PICK id : id = idMap[r]
      OBVIOUS
    <3>2. IdFits(r, id, {"insert", "single", "upsert"})
      BY <1>1, <3>1 DEF ImportIInv, IdsFit
    <3>3. IdFits(r, id, {"insert", "single", "upsert"})'
      BY <1>1, <3>2, IdsOfBatch
    <3>4. QED
      BY <1>1, <3>1, <3>3 DEF IdFits, Within, How, Done
  <2>4. \A r \in DOMAIN saved : Within(r, saved[r], lastId)'
    BY <1>1 DEF ImportIInv, IdsFit, Within, How
  <2>5. \A x \in batch : x.id = IF How(x.rec).natural THEN x.rec[2] ELSE lastId + x.rec[2]
    BY IdsInBatch
  <2>6. \A x \in rows' : IdFits(x.rec, x.id, {"single", "upsert"})'
    BY <1>2, <2>1, <2>2
  <2>7. QED
    BY <1>1, <2>3, <2>4, <2>5, <2>6 DEF IdsFit, How
<1>7. IdsApart'
  <2>1. CASE rows' = rows
    BY <2>1 DEF ImportIInv, IdsApart
  <2>2. CASE rows' # rows
    BY <1>2, <2>2, WrittenApart DEF AllFit
  <2>3. QED
    BY <2>1, <2>2
<1>8. Backed'
  <2>1. \A r \in DOMAIN saved : Forgets(r) => RowWith(r, saved[r])
    BY DEF ImportIInv, Backed
  <2>2. \A r \in DOMAIN idMap : Forgets(r) /\ ~Waits(r) => RowWith(r, idMap[r])
    BY DEF ImportIInv, Backed
  <2>3. \A x \in batch : x.rec[1] # "response" =>
          \A ref \in x.refs : \E y \in rows : y.rec[1] = ref[1] /\ y.id = ref[2]
    BY DEF ImportIInv, Backed
  <2>4. QED
    BY <1>1, <1>2, <2>1, <2>2, <2>3 DEF Backed, RowWith, Waits, Forgets, How
<1>9. FullRunMakesWhole'
  BY <1>1 DEF ImportIInv, StageFits, FullRunMakesWhole
<1>10. WholeFits'
  <2> SUFFICES ASSUME ~faulted' PROVE WholeFits'
    BY DEF WholeFits
  <2>1. rows' = rows /\ ~faulted /\ ~AllFit
    BY <1>2 DEF Fault, NoFault
  <2>2. KindHere \in Retried => KindHere \in {"result", "provider"}
    BY <2>1, RefusedHasRow DEF AllFit
  <2>3. /\ \A k \in Retried, n \in Copies :
             /\ Done(k) => HasRow(<<k, n>>)
             /\ Done(k) /\ k \in Chain => Mapped(<<k, n>>)
        /\ KindHere \in Retried =>
             \A n \in Copies : /\ HasRow(<<KindHere, n>>) \/ Waits(<<KindHere, n>>)
                               /\ KindHere \in Chain => Mapped(<<KindHere, n>>)
    BY <1>1, <2>1 DEF ImportIInv, WholeFits
  <2>4. /\ \A k : Done(k)' <=> Done(k)
        /\ \A r : (HasRow(r)' <=> HasRow(r)) /\ (Waits(r)' <=> Waits(r)) /\ (Mapped(r)' <=> Mapped(r))
    BY <1>1, <2>1 DEF Done, HasRow, Waits, Mapped
  <2>5. \A n \in Copies : /\ HasRow(<<KindHere, n>>)' <=> HasRow(<<KindHere, n>>)
                          /\ Waits(<<KindHere, n>>)' <=> Waits(<<KindHere, n>>)
                          /\ Mapped(<<KindHere, n>>)' <=> Mapped(<<KindHere, n>>)
    BY <1>1, <2>1 DEF HasRow, Waits, Mapped
  <2>6. QED
    BY <1>1, <2>2, <2>3, <2>4, <2>5 DEF WholeFits
<1>11. OneRowFits'
  <2>1. CASE broken'
    BY <2>1 DEF OneRowFits
  <2>2. CASE ~broken'
    BY <1>1, <1>2, <2>2 DEF ImportIInv, OneRowFits, OneRowEach, MappedOnce, HasRow, How
  <2>3. QED
    BY <2>1, <2>2
<1>12. QED
  BY <1>4, <1>5, <1>6, <1>7, <1>8, <1>9, <1>10, <1>11 DEF ImportIInv

LEMMA ImportInsertAll ==
  ASSUME ImportIInv, CardsFit, InsertAll
  PROVE  ImportIInv'
BY AllWritten, TriedSingly DEF InsertAll

-----------------------------------------------------------------------------
(* A full run: one by one                                                  *)

\* What either outcome leaves of a batch and of the map
Single(x) ==
    /\ batch' = batch \ {x}
    /\ \/ rows' = rows \cup {x} /\ Fits(x) /\ idMap' = idMap
       \/ /\ \/ rows' = rows /\ (~Fits(x) \/ faulted')
             \/ rows' = rows \cup {x} /\ Fits(x) /\ broken' /\ faulted'
          /\ \/ Forgets(x.rec) /\ idMap' = Restrict(idMap, DOMAIN idMap \ {x.rec})
             \/ ~Forgets(x.rec) /\ idMap' = idMap
    /\ faulted' \in BOOLEAN /\ broken' \in BOOLEAN /\ (faulted => faulted') /\ (broken => broken')
    /\ UNCHANGED <<saved, mode, at, stage, changed, lastId, ended>>

LEMMA SingleStep ==
  ASSUME ImportIInv, NEW x \in batch, InsertSingly(x)
  PROVE  Single(x) /\ stage = "single" /\ (~faulted' => ~faulted)
BY DEF InsertSingly, Single, Fault, NoFault, Unmapped, Forgets, ImportIInv, ImportShape

LEMMA ImportInsertSingly ==
  ASSUME ImportIInv, CardsFit, NEW x \in batch, InsertSingly(x)
  PROVE  ImportIInv'
<1>1. Single(x) /\ stage = "single"
  BY SingleStep
<1>2. PICK ids : ids = idMap'
  OBVIOUS
<1>3. /\ FullPlace /\ mode' = mode /\ mode = "full" /\ at \in 1..17 /\ at # 16 /\ KindHere' = KindHere
      /\ batch' = batch \ {x} /\ UNCHANGED <<saved, at, stage, changed, lastId, ended>>
      /\ faulted' \in BOOLEAN /\ broken' \in BOOLEAN /\ (faulted => faulted') /\ (broken => broken')
  BY <1>1, FullAt DEF FullPlace, KindHere, Single
<1>4. \/ rows' = rows \cup {x} /\ Fits(x) /\ (ids = idMap \/ (broken' /\ faulted'))
      \/ rows' = rows /\ (~Fits(x) \/ faulted') /\ (Forgets(x.rec) \/ ids = idMap)
  BY <1>1, <1>2 DEF Single
<1>5. /\ DOMAIN ids \subseteq DOMAIN idMap
      /\ \A r \in DOMAIN idMap : r # x.rec => r \in DOMAIN ids
      /\ \A r \in DOMAIN ids : ids[r] = idMap[r]
  BY <1>1, <1>2 DEF Single, Restrict
<1>6. /\ x.rec \in Records /\ x.rec[1] = KindHere /\ x.rec[1] \in ImportKinds /\ KindHere \in ImportKinds
      /\ x.rec \in DOMAIN idMap /\ idMap[x.rec] = x.id /\ x.id \in Nat
  BY IdsInBatch DEF ImportIInv, ImportShape, Mapped
<1>7. \A y \in batch : y # x => y.rec # x.rec
  BY DEF ImportIInv, BatchFits
<1>8. ImportShape' /\ StageFits'
  <2>1. DOMAIN idMap' \subseteq Records /\ \A r \in DOMAIN idMap' : idMap'[r] \in Nat
    BY <1>2, <1>5 DEF ImportIInv, ImportShape
  <2>2. \A y \in rows' \cup batch' : y.rec \in Records /\ y.id \in Nat
    BY <1>3, <1>4, <1>6 DEF ImportIInv, ImportShape
  <2>3. ImportShape'
    BY <1>3, <2>1, <2>2 DEF ImportIInv, ImportShape
  <2>4. StageFits'
    BY <1>1, <1>3 DEF ImportIInv, StageFits
  <2>5. QED
    BY <2>3, <2>4
<1>9. BatchFits'
  <2>1. \A y \in batch' : y.rec[1] = KindHere /\ y.rec \in DOMAIN ids /\ ids[y.rec] = y.id
    BY <1>3, <1>5, <1>7 DEF ImportIInv, BatchFits, Mapped
  <2>2. \A y, z \in batch' : y.rec = z.rec => y = z
    BY <1>3 DEF ImportIInv, BatchFits
  <2>3. QED
    BY <1>2, <1>3, <2>1, <2>2 DEF BatchFits, Mapped
<1>10. IdsFit'
  <2>1. ASSUME NEW r, NEW id, NEW A PROVE IdFits(r, id, A)' <=> IdFits(r, id, A)
    BY <1>3 DEF IdFits, Within, How, Done, Most
  <2>2. IdFits(x.rec, x.id, {"single", "upsert"})
    <3>1. IdFits(x.rec, idMap[x.rec], {"insert", "single", "upsert"})
      BY <1>3, <1>6 DEF ImportIInv, IdsFit
    <3>2. QED
      BY <1>1, <1>6, <3>1 DEF IdFits
  <2>3. \A y \in rows' : IdFits(y.rec, y.id, {"single", "upsert"})'
    BY <1>3, <1>4, <2>1, <2>2 DEF ImportIInv, IdsFit
  <2>4. \A r \in DOMAIN ids : IdFits(r, ids[r], {"insert", "single", "upsert"})'
    <3> TAKE r \in DOMAIN ids
    <3>1. PICK id : id = idMap[r]
      OBVIOUS
    <3>2. r \in DOMAIN idMap /\ ids[r] = id
      BY <1>5, <3>1
    <3>3. IdFits(r, id, {"insert", "single", "upsert"})
      BY <1>3, <3>1, <3>2 DEF ImportIInv, IdsFit
    <3>4. QED
      BY <2>1, <3>2, <3>3
  <2>5. \A r \in DOMAIN saved : Within(r, saved[r], lastId)'
    BY <1>3 DEF ImportIInv, IdsFit, Within, How
  <2>6. \A y \in batch' : y.id = IF How(y.rec).natural THEN y.rec[2] ELSE lastId + y.rec[2]
    BY <1>3, IdsInBatch
  <2>7. QED
    BY <1>2, <1>3, <2>3, <2>4, <2>5, <2>6 DEF IdsFit, How
<1>11. IdsApart'
  <2>1. CASE rows' = rows
    BY <2>1 DEF ImportIInv, IdsApart
  <2>2. CASE rows' = rows \cup {x} /\ Fits(x)
    <3>1. PICK W : W = {x}
      OBVIOUS
    <3>2. W \subseteq batch /\ (\A y \in W : Fits(y)) /\ rows' = rows \cup W
      BY <2>2, <3>1
    <3>3. QED
      BY <3>2, WrittenApart
  <2>3. QED
    BY <1>4, <2>1, <2>2
<1>12. Backed'
  <2>1. \A r \in DOMAIN saved : Forgets(r) => RowWith(r, saved[r])
    BY DEF ImportIInv, Backed
  <2>2. \A r \in DOMAIN ids : Forgets(r) /\ ~Waits(r)' => \E y \in rows' : y.rec = r /\ y.id = ids[r]
    <3> SUFFICES ASSUME NEW r \in DOMAIN ids, Forgets(r), ~Waits(r)'
                 PROVE  \E y \in rows' : y.rec = r /\ y.id = ids[r]
      OBVIOUS
    <3>1. CASE r # x.rec
      <4>1. ~Waits(r)
        BY <1>3, <3>1 DEF Waits
      <4>2. RowWith(r, idMap[r])
        BY <1>5, <4>1 DEF ImportIInv, Backed
      <4>3. QED
        BY <1>4, <1>5, <4>2 DEF RowWith
    <3>2. CASE r = x.rec
      <4>1. ids # Restrict(idMap, DOMAIN idMap \ {x.rec})
        BY <3>2 DEF Restrict
      <4>2. rows' = rows \cup {x}
        BY <1>1, <1>2, <3>2, <4>1 DEF Single
      <4>3. QED
        BY <1>5, <1>6, <3>2, <4>2
    <3>3. QED
      BY <3>1, <3>2
  <2>3. \A y \in batch : y.rec[1] # "response" =>
          \A ref \in y.refs : \E z \in rows : z.rec[1] = ref[1] /\ z.id = ref[2]
    BY DEF ImportIInv, Backed
  <2>4. rows \subseteq rows'
    BY <1>4
  <2>5. QED
    BY <1>2, <1>3, <2>1, <2>2, <2>3, <2>4 DEF Backed, RowWith, Forgets, How, Waits
<1>13. FullRunMakesWhole'
  BY <1>1, <1>3 DEF ImportIInv, StageFits, FullRunMakesWhole
<1>14. WholeFits'
  <2> SUFFICES ASSUME ~faulted' PROVE WholeFits'
    BY DEF WholeFits
  <2>1. /\ ~faulted /\ rows \subseteq rows'
        /\ KindHere \in Retried => KindHere \in {"result", "provider"}
    BY <1>1, <1>3, <1>4 DEF ImportIInv, WholeFits
  <2>2. \A k : Done(k)' <=> Done(k)
    BY <1>3 DEF Done
  <2>3. \A k \in Retried, n \in Copies : Done(k)' => HasRow(<<k, n>>)'
    BY <1>3, <2>1, <2>2 DEF ImportIInv, WholeFits, HasRow
  <2>4. \A k \in Retried, n \in Copies : Done(k)' /\ k \in Chain => Mapped(<<k, n>>)'
    <3> SUFFICES ASSUME NEW k \in Retried, NEW n \in Copies, Done(k), k \in Chain
                 PROVE  <<k, n>> \in DOMAIN ids
      BY <1>2, <2>2 DEF Mapped
    <3>1. <<k, n>> \in DOMAIN idMap
      BY <1>3, <2>1 DEF ImportIInv, WholeFits, Mapped
    <3>2. k # x.rec[1]
      BY <1>3, <1>6 DEF Done, FullPlace
    <3>3. QED
      BY <1>5, <3>1, <3>2
  <2>5. KindHere \in Retried =>
          \A n \in Copies : \E y \in rows' \cup batch' : y.rec = <<KindHere, n>>
    <3> SUFFICES ASSUME KindHere \in Retried, NEW n \in Copies
                 PROVE  \E y \in rows' \cup batch' : y.rec = <<KindHere, n>>
      OBVIOUS
    <3>0. KindHere \in {"result", "provider"}
      BY <2>1
    <3>1. \E y \in rows \cup batch : y.rec = <<KindHere, n>>
      BY <1>1, <1>3, <2>1 DEF ImportIInv, WholeFits, HasRow, Waits
    <3>2. \E y \in rows' : y.rec = x.rec
      <4>1. CASE rows' = rows \cup {x}
        BY <4>1
      <4>2. CASE rows' = rows /\ ~Fits(x)
        BY <2>1, <3>0, <4>2, RefusedHasRow DEF HasRow
      <4>3. QED
        BY <1>4, <4>1, <4>2
    <3>3. QED
      BY <1>3, <2>1, <3>1, <3>2
  <2>6. KindHere \in {"result", "provider"} => KindHere \notin Chain
    BY DEF Chain
  <2>7. QED
    BY <1>3, <2>1, <2>3, <2>4, <2>5, <2>6 DEF WholeFits, HasRow, Waits
<1>15. OneRowFits'
  <2> SUFFICES ASSUME ~broken' PROVE OneRowFits'
    BY DEF OneRowFits
  <2>1. /\ \A y, z \in rows : y.rec = z.rec /\ How(y.rec).rechecked => y = z
        /\ \A y \in rows : How(y.rec).rechecked => y.rec \in DOMAIN idMap /\ idMap[y.rec] = y.id
        /\ \A y \in batch : How(y.rec).rechecked => \A z \in rows : z.rec # y.rec
    BY <1>3 DEF ImportIInv, OneRowFits, OneRowEach, MappedOnce, HasRow
  <2>2. \A y, z \in rows' : y.rec = z.rec /\ How(y.rec).rechecked => y = z
    BY <1>4, <2>1
  <2>3. \A y \in rows' : How(y.rec).rechecked => y.rec \in DOMAIN ids /\ ids[y.rec] = y.id
    <3> TAKE y \in rows'
    <3>1. CASE rows' = rows \cup {x} /\ ids = idMap
      BY <1>6, <2>1, <3>1
    <3>2. CASE rows' = rows
      BY <1>5, <2>1, <3>2
    <3>3. QED
      BY <1>4, <3>1, <3>2
  <2>4. \A y \in batch' : How(y.rec).rechecked => \A z \in rows' : z.rec # y.rec
    BY <1>3, <1>4, <1>7, <2>1
  <2>5. QED
    BY <1>2, <1>3, <2>2, <2>3, <2>4 DEF OneRowFits, OneRowEach, MappedOnce, HasRow, How
<1>16. QED
  BY <1>8, <1>9, <1>10, <1>11, <1>12, <1>13, <1>14, <1>15 DEF ImportIInv

-----------------------------------------------------------------------------
(* An incremental run, and the submissions of Elasticsearch                *)

\* Where one record after another is written, by x or not at all
OneByOne ==
    /\ stage \in {"upsert", "es"} /\ batch = {} /\ mode # "down"
    /\ changed' \subseteq Copies
    /\ faulted' \in BOOLEAN /\ broken' \in BOOLEAN /\ (faulted => faulted') /\ (broken => broken')
    /\ UNCHANGED <<saved, mode, at, stage, batch, lastId, ended>>

Written(x) ==
    /\ x.rec \in Records /\ x.id \in Nat /\ IdFits(x.rec, x.id, {"single", "upsert"})
    /\ Mapped(x.rec) => x.id = idMap[x.rec]
    /\ x \in rows' /\ rows' \subseteq rows \cup {x}
    /\ \A y \in rows : \E z \in rows' : z.rec = y.rec /\ z.id = y.id
    /\ \A y \in rows' : y.rec[1] = x.rec[1] /\ y.id = x.id =>
         y.rec = x.rec /\ (Mapped(x.rec) => y = x)
    /\ idMap' = WithId(x.rec, x.id) \/ (idMap' = idMap /\ broken')

LEMMA ImportWritten ==
  ASSUME ImportIInv, OneByOne, NEW x, Written(x)
  PROVE  ImportIInv'
<1>1. PICK ids : ids = idMap'
  OBVIOUS
<1>2. /\ stage \in {"upsert", "es"} /\ batch = {} /\ batch' = {} /\ mode # "down" /\ mode' = mode
      /\ changed' \subseteq Copies
      /\ faulted' \in BOOLEAN /\ broken' \in BOOLEAN /\ (faulted => faulted') /\ (broken => broken')
      /\ UNCHANGED <<saved, at, stage, lastId, ended>>
  BY DEF OneByOne
<1>3. /\ DOMAIN idMap \subseteq DOMAIN ids /\ DOMAIN ids \subseteq DOMAIN idMap \cup {x.rec}
      /\ \A r \in DOMAIN ids : IF r = x.rec THEN ids[r] = x.id ELSE r \in DOMAIN idMap /\ ids[r] = idMap[r]
      /\ x.rec \in DOMAIN ids \/ broken'
  BY <1>1 DEF Written, WithId, Mapped
<1>4. /\ x.rec \in Records /\ x.id \in Nat /\ x \in rows' /\ rows' \subseteq rows \cup {x}
      /\ \A y \in rows : \E z \in rows' : z.rec = y.rec /\ z.id = y.id
  BY DEF Written
<1>5. ImportShape' /\ StageFits' /\ BatchFits'
  <2>1. DOMAIN idMap' \subseteq Records /\ \A r \in DOMAIN idMap' : idMap'[r] \in Nat
    BY <1>1, <1>3, <1>4 DEF ImportIInv, ImportShape
  <2>2. ImportShape'
    BY <1>2, <1>4, <2>1 DEF ImportIInv, ImportShape
  <2>3. StageFits' /\ BatchFits'
    BY <1>2 DEF ImportIInv, StageFits, BatchFits
  <2>4. QED
    BY <2>2, <2>3
<1>6. IdsFit'
  <2>1. ASSUME NEW r, NEW id, NEW A PROVE IdFits(r, id, A)' <=> IdFits(r, id, A)
    BY <1>2 DEF IdFits, Within, How, Done, Most
  <2>2. IdFits(x.rec, x.id, {"single", "upsert"})
    BY DEF Written
  <2>3. \A y \in rows' : IdFits(y.rec, y.id, {"single", "upsert"})'
    BY <1>2, <1>4, <2>1, <2>2 DEF ImportIInv, IdsFit
  <2>4. \A r \in DOMAIN ids : IdFits(r, ids[r], {"insert", "single", "upsert"})'
    <3> TAKE r \in DOMAIN ids
    <3>1. CASE r = x.rec
      <4>1. ids[r] = x.id
        BY <1>3, <3>1
      <4>2. IdFits(x.rec, x.id, {"insert", "single", "upsert"})
        BY <2>2 DEF IdFits
      <4>3. QED
        BY <2>1, <3>1, <4>1, <4>2
    <3>2. CASE r # x.rec
      <4>1. PICK id : id = idMap[r]
        OBVIOUS
      <4>2. r \in DOMAIN idMap /\ ids[r] = id
        BY <1>3, <3>2, <4>1
      <4>3. IdFits(r, id, {"insert", "single", "upsert"})
        BY <1>2, <4>1, <4>2 DEF ImportIInv, IdsFit
      <4>4. QED
        BY <2>1, <4>2, <4>3
    <3>3. QED
      BY <3>1, <3>2
  <2>5. \A r \in DOMAIN saved : Within(r, saved[r], lastId)'
    BY <1>2 DEF ImportIInv, IdsFit, Within, How
  <2>6. QED
    BY <1>1, <1>2, <2>3, <2>4, <2>5 DEF IdsFit
<1>7. IdsApart'
  <2>1. \A y \in rows' : y.rec[1] = x.rec[1] /\ y.id = x.id => y.rec = x.rec
    BY DEF Written
  <2>2. QED
    BY <1>4, <2>1 DEF ImportIInv, IdsApart
<1>8. Backed'
  <2>1. \A r \in DOMAIN saved : Forgets(r) => \E y \in rows' : y.rec = r /\ y.id = saved[r]
    BY <1>4 DEF ImportIInv, Backed, RowWith
  <2>2. \A r \in DOMAIN ids : Forgets(r) => \E y \in rows' : y.rec = r /\ y.id = ids[r]
    <3> SUFFICES ASSUME NEW r \in DOMAIN ids, Forgets(r)
                 PROVE  \E y \in rows' : y.rec = r /\ y.id = ids[r]
      OBVIOUS
    <3>1. CASE r = x.rec
      BY <1>3, <1>4, <3>1
    <3>2. CASE r # x.rec
      <4>1. r \in DOMAIN idMap /\ ids[r] = idMap[r]
        BY <1>3, <3>2
      <4>2. PICK y \in rows : y.rec = r /\ y.id = idMap[r]
        BY <1>2, <4>1 DEF ImportIInv, Backed, Waits, RowWith
      <4>3. QED
        BY <1>4, <4>1, <4>2
    <3>3. QED
      BY <3>1, <3>2
  <2>3. QED
    BY <1>1, <1>2, <2>1, <2>2 DEF Backed, RowWith, Forgets, How
<1>9. FullRunMakesWhole'
  BY <1>2 DEF ImportIInv, StageFits, FullRunMakesWhole
<1>10. WholeFits'
  <2> SUFFICES ASSUME mode = "full", ~faulted PROVE WholeFits'
    BY <1>2 DEF WholeFits
  <2>1. \A k \in Retried, n \in Copies :
          /\ Done(k) => HasRow(<<k, n>>)
          /\ Done(k) /\ k \in Chain => Mapped(<<k, n>>)
    BY DEF ImportIInv, WholeFits
  <2>2. \A k : Done(k)' <=> Done(k)
    BY <1>2 DEF Done
  <2>3. \A k \in Retried, n \in Copies : HasRow(<<k, n>>) => HasRow(<<k, n>>)'
    BY <1>4 DEF HasRow
  <2>4. \A k \in Retried, n \in Copies : Mapped(<<k, n>>) => Mapped(<<k, n>>)'
    BY <1>1, <1>3 DEF Mapped
  <2>5. QED
    BY <1>2, <2>1, <2>2, <2>3, <2>4 DEF WholeFits
<1>11. OneRowFits'
  <2> SUFFICES ASSUME ~broken' PROVE OneRowFits'
    BY DEF OneRowFits
  <2>1. /\ \A y, z \in rows : y.rec = z.rec /\ How(y.rec).rechecked => y = z
        /\ \A y \in rows : How(y.rec).rechecked => y.rec \in DOMAIN idMap /\ idMap[y.rec] = y.id
    BY <1>2 DEF ImportIInv, OneRowFits, OneRowEach, MappedOnce
  <2>2. ASSUME NEW y \in rows', y.rec = x.rec, How(y.rec).rechecked
        PROVE  y = x
    <3>1. CASE y \in rows
      <4>1. Mapped(x.rec) /\ y.id = x.id
        BY <2>1, <2>2, <3>1 DEF Written, Mapped
      <4>2. QED
        BY <2>2, <4>1 DEF Written
    <3>2. QED
      BY <1>4, <3>1
  <2>3. \A y, z \in rows' : y.rec = z.rec /\ How(y.rec).rechecked => y = z
    BY <1>4, <2>1, <2>2
  <2>4. \A y \in rows' : How(y.rec).rechecked => y.rec \in DOMAIN ids /\ ids[y.rec] = y.id
    <3> SUFFICES ASSUME NEW y \in rows', How(y.rec).rechecked
                 PROVE  y.rec \in DOMAIN ids /\ ids[y.rec] = y.id
      OBVIOUS
    <3>1. CASE y.rec = x.rec
      BY <1>3, <2>2, <3>1
    <3>2. CASE y.rec # x.rec
      BY <1>3, <1>4, <2>1, <3>2
    <3>3. QED
      BY <3>1, <3>2
  <2>5. QED
    BY <1>1, <1>2, <2>3, <2>4 DEF OneRowFits, OneRowEach, MappedOnce, How
<1>12. QED
  BY <1>5, <1>6, <1>7, <1>8, <1>9, <1>10, <1>11 DEF ImportIInv

LEMMA ImportNotWritten ==
  ASSUME ImportIInv, OneByOne, UNCHANGED <<rows, idMap>>
  PROVE  ImportIInv'
<1>1. /\ stage \in {"upsert", "es"} /\ batch = {} /\ mode # "down"
      /\ changed' \subseteq Copies
      /\ faulted' \in BOOLEAN /\ broken' \in BOOLEAN /\ (faulted => faulted') /\ (broken => broken')
      /\ UNCHANGED <<rows, idMap, saved, mode, at, stage, batch, lastId, ended>>
  BY DEF OneByOne
<1>2. ImportShape' /\ StageFits' /\ BatchFits'
  BY <1>1 DEF ImportIInv, ImportShape, StageFits, BatchFits
<1>3. IdsFit'
  BY <1>1 DEF ImportIInv, IdsFit, IdFits, Within, How, Done, Most
<1>4. IdsApart' /\ Backed'
  BY <1>1 DEF ImportIInv, IdsApart, Backed, RowWith, Waits, Forgets, How
<1>5. FullRunMakesWhole'
  BY <1>1 DEF ImportIInv, StageFits, FullRunMakesWhole
<1>6. WholeFits'
  BY <1>1 DEF ImportIInv, WholeFits, Done, HasRow, Mapped
<1>7. OneRowFits'
  BY <1>1 DEF ImportIInv, OneRowFits, OneRowEach, MappedOnce, HasRow, How
<1>8. QED
  BY <1>2, <1>3, <1>4, <1>5, <1>6, <1>7 DEF ImportIInv

LEMMA ImportUpsert ==
  ASSUME ImportIInv, NEW n \in changed, Upsert(n)
  PROVE  ImportIInv'
<1>1. PICK r : r = <<KindHere, n>>
  OBVIOUS
<1>2. PICK x : x = Converted(r, IF Mapped(r) THEN idMap[r] ELSE Fresh(r))
  OBVIOUS
<1>3. x.rec = r /\ x.id = IF Mapped(r) THEN idMap[r] ELSE Fresh(r)
  BY <1>2, ConvertedOf
<1>4. stage = "upsert" /\ at \in 1..17 /\ at # 16 /\ n \in Copies
  BY DEF Upsert, ImportIInv, StageFits, ImportShape
<1>5. OneByOne
  <2>1. /\ faulted \in BOOLEAN /\ broken \in BOOLEAN /\ changed \subseteq Copies
        /\ batch = {} /\ mode # "down" /\ stage \in {"upsert", "es"}
    BY <1>4 DEF ImportIInv, ImportShape, StageFits
  <2>2. /\ changed' = changed \ {n}
        /\ UNCHANGED <<saved, mode, at, stage, batch, lastId, ended>>
    BY DEF Upsert
  <2>3. UNCHANGED <<faulted, broken>> \/ (faulted' = TRUE /\ broken' = broken) \/ (faulted' = TRUE /\ broken' = TRUE)
    BY <2>1 DEF Upsert, Fault, NoFault
  <2>4. QED
    BY <2>1, <2>2, <2>3 DEF OneByOne
<1>6. CASE UNCHANGED <<rows, idMap>>
  BY <1>5, <1>6, ImportNotWritten
<1>7. CASE /\ FitsAmong(x, {y \in rows : y.rec # r \/ y.id # x.id})
           /\ rows' = Upserted(x)
           /\ idMap' = WithId(r, x.id) \/ (idMap' = idMap /\ broken')
  <2>1. /\ r \in Records /\ r[1] = KindHere /\ r[2] \in Copies /\ Place[KindHere] = at
        /\ Fresh(r) = IF How(r).natural THEN r[2] ELSE lastId + r[2]
    BY <1>1, <1>4, FreshOf, PlaceOf
  <2>2. r[2] \in Nat /\ lastId \in Nat
    BY <2>1, MostOf DEF ImportIInv, ImportShape
  <2>3. x.id \in Nat /\ IdFits(r, x.id, {"single", "upsert"})
    <3>1. CASE Mapped(r)
      <4>1. idMap[r] \in Nat /\ IdFits(r, idMap[r], {"insert", "single", "upsert"})
        BY <1>4, <3>1 DEF ImportIInv, ImportShape, StageFits, IdsFit, Mapped
      <4>2. QED
        BY <1>3, <1>4, <3>1, <4>1 DEF IdFits
    <3>2. CASE ~Mapped(r)
      <4>1. x.id = IF How(r).natural THEN r[2] ELSE lastId + r[2]
        BY <1>3, <2>1, <3>2
      <4>2. QED
        BY <1>4, <2>1, <2>2, <4>1 DEF IdFits, Within
    <3>3. QED
      BY <3>1, <3>2
  <2>4. \A y \in rows : y.rec[1] = r[1] /\ y.id = x.id => y.rec = r
    BY <1>3, <1>7 DEF FitsAmong
  <2>5. /\ x \in rows' /\ rows' \subseteq rows \cup {x}
        /\ \A y \in rows : y \in rows' \/ (y.rec[1] = r[1] /\ y.id = x.id)
        /\ \A y \in rows' : y.rec[1] = r[1] /\ y.id = x.id => y = x
    BY <1>3, <1>7 DEF Upserted
  <2>6. Written(x)
    BY <1>3, <1>7, <2>1, <2>3, <2>4, <2>5 DEF Written
  <2>7. QED
    BY <1>5, <2>6, ImportWritten
<1>8. QED
  BY <1>1, <1>2, <1>6, <1>7 DEF Upsert, Fault

LEMMA ImportImportEs ==
  ASSUME ImportIInv, NEW n \in changed, ImportEs(n)
  PROVE  ImportIInv'
<1>1. PICK r : r = <<"submission", n>>
  OBVIOUS
<1>2. PICK x : x = Converted(r, Fresh(r))
  OBVIOUS
<1>3. x.rec = r /\ x.id = Fresh(r)
  BY <1>2, ConvertedOf
<1>4. stage = "es" /\ at = 16 /\ n \in Copies
  BY DEF ImportEs, ImportIInv, StageFits, ImportShape
<1>5. OneByOne
  <2>1. /\ faulted \in BOOLEAN /\ broken \in BOOLEAN /\ changed \subseteq Copies
        /\ batch = {} /\ mode # "down" /\ stage \in {"upsert", "es"}
    BY <1>4 DEF ImportIInv, ImportShape, StageFits
  <2>2. /\ changed' = changed \ {n}
        /\ UNCHANGED <<saved, mode, at, stage, batch, lastId, ended>>
    BY DEF ImportEs
  <2>3. UNCHANGED <<faulted, broken>> \/ (faulted' = TRUE /\ broken' = broken) \/ (faulted' = TRUE /\ broken' = TRUE)
    BY <2>1 DEF ImportEs, Fault, NoFault
  <2>4. QED
    BY <2>1, <2>2, <2>3 DEF OneByOne
<1>6. CASE UNCHANGED <<rows, idMap>>
  BY <1>5, <1>6, ImportNotWritten
<1>7. CASE /\ ~Mapped(r) /\ rows' = rows \cup {x}
           /\ idMap' = WithId(r, x.id) \/ (idMap' = idMap /\ broken')
  <2>1. r \in Records /\ r[1] = "submission" /\ r[2] = n /\ n \in Nat /\ 0 < n /\ n <= Most
    BY <1>1, <1>4, Kinds16, MostOf DEF Records
  <2>2. ~How(r).natural
    BY <2>1, Kinds16, KindTable DEF KindFacts, How
  <2>3. x.id = lastId + Most + n
    BY <1>3, <1>4, <2>1, <2>2, OrderOf DEF Fresh, Most
  <2>4. lastId \in Nat /\ Most \in Nat
    BY MostOf DEF ImportIInv, ImportShape
  <2>5. x.id \in Nat /\ IdFits(r, x.id, {"single", "upsert"})
    BY <1>4, <2>1, <2>3, <2>4 DEF IdFits
  <2>6. ASSUME NEW y \in rows, y.rec[1] = r[1], y.id = x.id PROVE y.rec = r
    <3>1. y.rec \in Records /\ y.rec[2] \in Nat /\ y.rec[2] <= Most
      BY RecordOf, MostOf DEF ImportIInv, ImportShape
    <3>2. IdFits(y.rec, y.id, {"single", "upsert"}) /\ ~How(y.rec).natural
      BY <1>4, <2>2, <2>6 DEF ImportIInv, StageFits, IdsFit, How
    <3>3. y.id = lastId + Most + y.rec[2]
      BY <2>1, <2>3, <2>4, <2>6, <3>1, <3>2 DEF IdFits, Within
    <3>4. y.rec[2] = n
      BY <2>1, <2>3, <2>4, <2>6, <3>1, <3>3
    <3>5. QED
      BY <1>1, <2>1, <2>6, <3>1, <3>4, RecordOf
  <2>7. Written(x)
    BY <1>3, <1>7, <2>1, <2>5, <2>6 DEF Written
  <2>8. QED
    BY <1>5, <2>7, ImportWritten
<1>8. QED
  BY <1>1, <1>2, <1>6, <1>7 DEF ImportEs, Fault

-----------------------------------------------------------------------------
(* The scorecards of a full run                                            *)

LEMMA CardOf ==
  ASSUME NEW r, NEW id, r[1] = "review", NEW c \in CardsOf(Converted(r, id))
  PROVE  Mapped(<<"scorecard", r[2]>>) /\ c = idMap[<<"scorecard", r[2]>>]
<1>1. PICK k \in How(r).needs \cup How(r).links :
        Mapped(ParentOf(r, k)) /\ k = "scorecard" /\ c = idMap[ParentOf(r, k)]
  BY DEF CardsOf, Converted
<1>2. QED
  BY <1>1 DEF ParentOf

\* Any id of the run is within its bound.
LEMMA CardBound ==
  ASSUME ImportIInv, mode # "down", NEW r \in DOMAIN idMap
  PROVE  r[1] = "scorecard" => idMap[r] \in Nat /\ idMap[r] <= lastId + 2 * Most
<1>1. Within(r, idMap[r], lastId + 2 * Most) /\ r \in Records /\ idMap[r] \in Nat
  BY DownIds DEF ImportIInv, ImportShape
<1>2. r[1] = "scorecard" => ~How(r).natural
  BY Kinds16, KindTable DEF KindFacts, How
<1>3. QED
  BY <1>1, <1>2 DEF Within

\* Rows stay, or get what the batch or the map has; the bound does not shrink.
LEMMA RowCards ==
  ASSUME CardsFit, lastId \in Nat, Most \in Nat, lastId' \in Nat,
         lastId + (IF ReviewsWritten THEN 2 * Most ELSE 0)
           <= lastId' + (IF ReviewsWritten' THEN 2 * Most ELSE 0),
         \A y \in rows' : y \in rows \/ (y.rec[1] = "review" =>
           ReviewsWritten' /\ lastId' = lastId
           /\ \A c \in CardsOf(y) : c \in Nat /\ c <= lastId + 2 * Most)
  PROVE  \A y \in rows' : y.rec[1] = "review" =>
           \A c \in CardsOf(y) : c \in Nat /\ c <= lastId' + (IF ReviewsWritten' THEN 2 * Most ELSE 0)
<1>1. SUFFICES ASSUME NEW y \in rows', y.rec[1] = "review", NEW c \in CardsOf(y)
               PROVE  c \in Nat /\ c <= lastId' + (IF ReviewsWritten' THEN 2 * Most ELSE 0)
  OBVIOUS
<1>2. CASE y \in rows
  <2>1. c \in Nat /\ c <= lastId + (IF ReviewsWritten THEN 2 * Most ELSE 0)
    BY <1>1, <1>2 DEF CardsFit
  <2> DEFINE a == lastId + (IF ReviewsWritten THEN 2 * Most ELSE 0)
             b == lastId' + (IF ReviewsWritten' THEN 2 * Most ELSE 0)
  <2>2. a \in Nat /\ b \in Nat
    <3>1. 2 * Most \in Nat
      OBVIOUS
    <3>2. a = lastId + 0 \/ a = lastId + 2 * Most
      BY Zenon
    <3>3. b = lastId' + 0 \/ b = lastId' + 2 * Most
      BY Zenon
    <3> HIDE DEF a, b
    <3>4. QED
      BY <3>1, <3>2, <3>3
  <2>3. a <= b
    OBVIOUS
  <2>4. c \in Nat /\ c <= a
    BY <2>1
  <2> HIDE DEF a, b
  <2>5. c \in Nat /\ c <= b
    BY <2>2, <2>3, <2>4
  <2>6. QED
    BY <2>5 DEF b
<1>3. CASE y \notin rows
  BY <1>1, <1>3
<1>4. QED
  BY <1>2, <1>3

LEMMA CardsStep ==
  ASSUME ImportIInv, CardsFit, [ImportNext]_importVars
  PROVE  CardsFit'
<1> DEFINE Rows == \A y \in rows' : y.rec[1] = "review" =>
             \A c \in CardsOf(y) : c \in Nat /\ c <= lastId' + (IF ReviewsWritten' THEN 2 * Most ELSE 0)
           MapCards == CardsMade' => \A r \in DOMAIN idMap' : r[1] = "scorecard" => idMap'[r] = lastId' + r[2]
           Fresh4 == \A x \in batch' : x.rec[1] = "review" =>
             CardsOf(x) # {} /\ \A c \in CardsOf(x) : c \in Nat /\ lastId' < c /\ c <= lastId' + 2 * Most
<1>0. Most \in Nat /\ lastId \in Nat /\ at \in 0..18
  BY MostOf DEF ImportIInv, ImportShape
<1>1. Rows /\ MapCards /\ Fresh4 => CardsFit'
  BY DEF CardsFit, CardsOf, Most
<1> HIDE DEF Rows, MapCards, Fresh4
<1>2. ASSUME NEW m \in {"full", "incremental"}, Start(m)
      PROVE  CardsFit'
  <2>1. /\ mode = "down" /\ mode' = m /\ at' = 1 /\ stage' = "convert"
        /\ lastId' = lastId + 2 * Most /\ rows' = rows /\ batch' = {}
    BY <1>2 DEF Start, Most, ImportIInv, StageFits
  <2>2. ReviewsWritten /\ ~CardsMade'
    BY <2>1 DEF ReviewsWritten, CardsMade
  <2>3. lastId' \in Nat /\ lastId' <= lastId' + (IF ReviewsWritten' THEN 2 * Most ELSE 0)
    BY <1>0, <2>1
  <2>4. Rows
    BY <1>0, <2>1, <2>2, <2>3, RowCards DEF Rows
  <2>5. QED
    BY <1>1, <2>1, <2>2, <2>4 DEF MapCards, Fresh4
<1>3. ASSUME Finish \/ Crash
      PROVE  CardsFit'
  <2>1. mode' = "down" /\ rows' = rows /\ batch' = {} /\ lastId' = lastId
    BY <1>3 DEF Finish, Crash, Down
  <2>2. ReviewsWritten' /\ ~CardsMade'
    BY <2>1 DEF ReviewsWritten, CardsMade
  <2>3. Rows
    BY <1>0, <2>1, <2>2, RowCards DEF Rows
  <2>4. QED
    BY <1>1, <2>1, <2>2, <2>3 DEF MapCards, Fresh4
<1>4. ASSUME UNCHANGED <<mode, lastId, idMap>>,
             at' = at \/ at' = at + 1, ReviewsWritten => ReviewsWritten', CardsMade' => CardsMade,
             batch' \subseteq batch,
             \A y \in rows' : y \in rows \/ (y.rec[1] = "review" => y \in batch /\ ReviewsWritten')
      PROVE  CardsFit'
  <2>1. Rows
    <3>1. lastId + (IF ReviewsWritten THEN 2 * Most ELSE 0)
            <= lastId' + (IF ReviewsWritten' THEN 2 * Most ELSE 0)
      BY <1>0, <1>4
    <3>2. \A y \in rows' : y \in rows \/ (y.rec[1] = "review" =>
           ReviewsWritten' /\ lastId' = lastId
           /\ \A c \in CardsOf(y) : c \in Nat /\ c <= lastId + 2 * Most)
      BY <1>4 DEF CardsFit
    <3>3. QED
      BY <1>0, <1>4, <3>1, <3>2, RowCards DEF Rows
  <2>2. MapCards /\ Fresh4
    BY <1>4 DEF CardsFit, MapCards, Fresh4
  <2>3. QED
    BY <1>1, <2>1, <2>2
<1>5. ASSUME SinglesDone \/ FindChanged \/ UpsertsDone \/ ReadEs \/ EsDone
      PROVE  CardsFit'
  <2>1. Moves
    BY <1>5, ImportMoves
  <2>2. /\ UNCHANGED <<mode, lastId, idMap, rows, batch>>
        /\ at' = at \/ at' = at + 1
    BY <2>1 DEF Moves
  <2>3. ReviewsWritten => ReviewsWritten'
    BY <1>0, <2>1 DEF Moves, ReviewsWritten
  <2>4. CardsMade' => CardsMade
    BY <1>0, <2>1 DEF Moves, CardsMade, ImportIInv, StageFits
  <2>5. QED
    BY <1>4, <2>2, <2>3, <2>4
<1>6. ASSUME InsertAll
      PROVE  CardsFit'
  <2>1. /\ stage = "insert" /\ FullPlace
        /\ UNCHANGED <<mode, lastId, idMap>> /\ batch' \subseteq batch
        /\ rows' \subseteq rows \cup batch
        /\ (at' = at + 1 /\ stage' = "convert") \/ (at' = at /\ stage' = "single")
    BY <1>6, FullAt DEF InsertAll, Proceed
  <2>2. ReviewsWritten => ReviewsWritten'
    BY <1>0, <2>1 DEF ReviewsWritten
  <2>3. CardsMade' => CardsMade
    BY <1>0, <2>1 DEF CardsMade
  <2>4. ASSUME NEW y \in batch, y.rec[1] = "review"
        PROVE  ReviewsWritten'
    <3>1. at = 8
      BY <2>1, <2>4, IdsInBatch DEF FullPlace, Place
    <3>2. QED
      BY <2>1, <3>1 DEF ReviewsWritten
  <2>5. QED
    BY <1>4, <2>1, <2>2, <2>3, <2>4
<1>7. ASSUME NEW x \in batch, InsertSingly(x)
      PROVE  CardsFit'
  <2>1. /\ stage = "single" /\ FullPlace /\ UNCHANGED <<mode, lastId, at, stage>>
        /\ batch' \subseteq batch /\ rows' \subseteq rows \cup {x}
        /\ \A r \in DOMAIN idMap' : r \in DOMAIN idMap /\ idMap'[r] = idMap[r]
    BY <1>7, FullAt DEF InsertSingly, Restrict
  <2>2. (ReviewsWritten' <=> ReviewsWritten) /\ (CardsMade' <=> CardsMade)
    BY <2>1 DEF ReviewsWritten, CardsMade
  <2>3. x.rec[1] = "review" => ReviewsWritten
    <3>1. x.rec[1] = "review" => at = 8
      BY <2>1, IdsInBatch DEF FullPlace, Place
    <3>2. QED
      BY <2>1, <3>1 DEF ReviewsWritten
  <2>4. Rows
    <3>1. \A y \in rows' : y \in rows \/ (y.rec[1] = "review" =>
           ReviewsWritten' /\ lastId' = lastId
           /\ \A c \in CardsOf(y) : c \in Nat /\ c <= lastId + 2 * Most)
      BY <2>1, <2>2, <2>3 DEF CardsFit
    <3>2. QED
      BY <1>0, <2>1, <2>2, <3>1, RowCards DEF Rows
  <2>5. MapCards /\ Fresh4
    BY <2>1, <2>2 DEF CardsFit, MapCards, Fresh4
  <2>6. QED
    BY <1>1, <2>4, <2>5
<1>8. ASSUME Convert
      PROVE  CardsFit'
  <2>1. /\ stage = "convert" /\ mode = "full" /\ at \in 1..17 /\ at # 16 /\ stage' = "insert"
        /\ UNCHANGED <<rows, mode, at, lastId>>
    BY <1>8, OrderOf DEF Convert, NoFault, ImportIInv, StageFits, ImportShape
  <2>2. KindHere \in ImportKinds /\ Place[KindHere] = at
    BY <2>1, PlaceOf
  <2>3. PICK T : T = {r \in {KindHere} \X Copies : ~Skipped(r) /\ Convertible(r)}
    OBVIOUS
  <2>4. /\ batch' = {Converted(r, Fresh(r)) : r \in T}
        /\ idMap' = [r \in DOMAIN idMap \cup T |-> IF r \in T THEN Fresh(r) ELSE idMap[r]]
    BY <1>8, <2>3 DEF Convert
  <2>5. Rows
    <3>1. ReviewsWritten' <=> ReviewsWritten
      BY <2>1 DEF ReviewsWritten
    <3>2. QED
      BY <1>0, <2>1, <3>1, RowCards DEF Rows
  <2>6. MapCards
    <3>1. CASE at = 4
      <4>1. KindHere = "scorecard"
        BY <2>2, <3>1, Kinds16 DEF Place
      <4>2. ASSUME NEW r \in DOMAIN idMap', r[1] = "scorecard"
            PROVE  idMap'[r] = lastId' + r[2]
        <5>1. r \in Records
          <6>1. r \in DOMAIN idMap \cup T
            BY <2>4, <4>2
          <6>2. T \subseteq Records
            BY <2>2, <2>3 DEF Records
          <6>3. QED
            BY <6>1, <6>2 DEF ImportIInv, ImportShape
        <5>2. r \in {KindHere} \X Copies /\ ~How(r).rechecked /\ How(r).needs = {} /\ ~How(r).natural
          BY <4>1, <4>2, <5>1, RecordOf, Kinds16, KindTable DEF How, KindFacts
        <5>3. r \in T
          BY <2>3, <5>2 DEF Skipped, Convertible
        <5>4. Fresh(r) = lastId + r[2]
          BY <2>1, <5>2, FreshOf
        <5>5. QED
          BY <2>1, <2>4, <5>3, <5>4
      <4>3. QED
        BY <4>2 DEF MapCards
    <3>2. CASE at # 4
      <4>1. CardsMade' => CardsMade
        BY <2>1, <3>2 DEF CardsMade
      <4>2. \A r \in T : r[1] # "scorecard"
        BY <2>2, <2>3, <3>2, Kinds16 DEF Place
      <4>3. QED
        BY <2>1, <2>4, <4>1, <4>2 DEF CardsFit, MapCards
    <3>3. QED
      BY <3>1, <3>2
  <2>7. ASSUME NEW r \in T, KindHere = "review"
        PROVE  /\ CardsOf(Converted(r, Fresh(r))) # {}
               /\ \A c \in CardsOf(Converted(r, Fresh(r))) :
                    c \in Nat /\ lastId < c /\ c <= lastId + 2 * Most
    <3>1. r[1] = "review" /\ r[2] \in Copies /\ Convertible(r) /\ at = 8
      BY <2>2, <2>3, <2>7 DEF Place
    <3>2. "scorecard" \in How(r).needs /\ Mapped(<<"scorecard", r[2]>>)
      <4>1. "scorecard" \in How(r).needs
        BY <3>1, Kinds16, KindTable DEF How, KindFacts
      <4>2. Mapped(ParentOf(r, "scorecard"))
        BY <3>1, <4>1 DEF Convertible
      <4>3. QED
        BY <3>1, <4>1, <4>2 DEF ParentOf
    <3>3. idMap[<<"scorecard", r[2]>>] = lastId + r[2]
      BY <2>1, <3>1, <3>2 DEF CardsFit, CardsMade, Mapped
    <3>4. r[2] \in Nat /\ 0 < r[2] /\ r[2] <= Most
      BY <3>1, MostOf
    <3>5. CardsOf(Converted(r, Fresh(r))) # {}
      <4>1. <<"scorecard", idMap[ParentOf(r, "scorecard")]>> \in Converted(r, Fresh(r)).refs
        BY <3>1, <3>2 DEF Converted, ParentOf
      <4>2. QED
        BY <4>1 DEF CardsOf
    <3>6. QED
      BY <1>0, <3>1, <3>3, <3>4, <3>5, CardOf
  <2>8. Fresh4
    <3>1. ASSUME NEW x \in batch', x.rec[1] = "review"
          PROVE  CardsOf(x) # {} /\ \A c \in CardsOf(x) : c \in Nat /\ lastId < c /\ c <= lastId + 2 * Most
      <4>1. PICK r \in T : x = Converted(r, Fresh(r))
        BY <2>4, <3>1
      <4>2. KindHere = "review"
        BY <2>3, <3>1, <4>1, ConvertedOf
      <4>3. QED
        BY <2>7, <4>1, <4>2
    <3>2. QED
      BY <2>1, <3>1 DEF Fresh4
  <2>9. QED
    BY <1>1, <2>5, <2>6, <2>8
<1>9. ASSUME NEW x, stage \in {"upsert", "es"}, mode # "down", UNCHANGED <<mode, lastId, at, stage>>, batch' = {},
             rows' \subseteq rows \cup {x},
             x.rec[1] = "review" => mode = "incremental" /\ \E r, id : r[1] = "review" /\ x = Converted(r, id),
             \/ idMap' = idMap
             \/ idMap' = WithId(x.rec, x.id) /\ (mode = "full" => x.rec[1] # "scorecard")
      PROVE  CardsFit'
  <2>1. (ReviewsWritten' <=> ReviewsWritten) /\ (CardsMade' <=> CardsMade)
    BY <1>9 DEF ReviewsWritten, CardsMade
  <2>2. ASSUME x.rec[1] = "review", NEW c \in CardsOf(x)
        PROVE  c \in Nat /\ c <= lastId + 2 * Most
    <3>1. PICK r, id : r[1] = "review" /\ x = Converted(r, id)
      BY <1>9, <2>2
    <3>2. <<"scorecard", r[2]>> \in DOMAIN idMap /\ c = idMap[<<"scorecard", r[2]>>]
      BY <2>2, <3>1, CardOf DEF Mapped
    <3>3. QED
      BY <1>9, <3>2, CardBound
  <2>3. Rows
    <3>1. \A y \in rows' : y \in rows \/ (y.rec[1] = "review" =>
           ReviewsWritten' /\ lastId' = lastId
           /\ \A c \in CardsOf(y) : c \in Nat /\ c <= lastId + 2 * Most)
      BY <1>9, <2>1, <2>2 DEF ReviewsWritten
    <3>2. QED
      BY <1>0, <1>9, <2>1, <3>1, RowCards DEF Rows
  <2>4. MapCards
    <3>1. SUFFICES ASSUME CardsMade, NEW r \in DOMAIN idMap', r[1] = "scorecard"
                   PROVE  idMap'[r] = lastId + r[2]
      BY <1>9, <2>1 DEF MapCards
    <3>2. r \in DOMAIN idMap /\ idMap'[r] = idMap[r]
      BY <1>9, <3>1 DEF WithId, CardsMade
    <3>3. QED
      BY <3>1, <3>2 DEF CardsFit
  <2>5. QED
    BY <1>1, <1>9, <2>3, <2>4 DEF Fresh4
<1>10. ASSUME NEW n \in changed, Upsert(n)
       PROVE  CardsFit'
  <2>1. PICK r : r = <<KindHere, n>>
    OBVIOUS
  <2>2. PICK id : id = IF Mapped(r) THEN idMap[r] ELSE Fresh(r)
    OBVIOUS
  <2>3. PICK x : x = Converted(r, id)
    OBVIOUS
  <2>4. x.rec = r /\ x.id = id
    BY <2>3, ConvertedOf
  <2>5. /\ stage = "upsert" /\ mode = "incremental" /\ UNCHANGED <<mode, lastId, at, stage>> /\ batch' = {}
    BY <1>10 DEF Upsert, ImportIInv, StageFits
  <2>6. rows' \subseteq rows \cup {x} /\ (idMap' = idMap \/ idMap' = WithId(x.rec, x.id))
    BY <1>10, <2>1, <2>2, <2>3, <2>4 DEF Upsert, Upserted
  <2>7. QED
    BY <1>9, <2>3, <2>4, <2>5, <2>6
<1>11. ASSUME NEW n \in changed, ImportEs(n)
       PROVE  CardsFit'
  <2>1. PICK r : r = <<"submission", n>>
    OBVIOUS
  <2>2. PICK x : x = Converted(r, Fresh(r))
    OBVIOUS
  <2>3. x.rec = r /\ x.id = Fresh(r) /\ x.rec[1] = "submission"
    BY <2>1, <2>2, ConvertedOf
  <2>4. /\ stage = "es" /\ mode # "down" /\ UNCHANGED <<mode, lastId, at, stage>> /\ batch' = {}
    BY <1>11 DEF ImportEs, ImportIInv, StageFits
  <2>5. rows' \subseteq rows \cup {x} /\ (idMap' = idMap \/ idMap' = WithId(x.rec, x.id))
    BY <1>11, <2>1, <2>2, <2>3 DEF ImportEs
  <2>6. QED
    BY <1>9, <2>3, <2>4, <2>5
<1>12. ASSUME UNCHANGED importVars
       PROVE  CardsFit'
  BY <1>12 DEF importVars, CardsFit, ReviewsWritten, CardsMade, Most, CardsOf
<1>13. QED
  BY <1>2, <1>3, <1>5, <1>6, <1>7, <1>8, <1>10, <1>11, <1>12 DEF ImportNext

-----------------------------------------------------------------------------
(* The import: theorems                                                    *)

LEMMA ImportInitial ==
  ASSUME NEW budget, ImportInit(budget)
  PROVE  ImportIInv
<1>1. /\ rows = {} /\ DOMAIN saved = {} /\ DOMAIN idMap = {} /\ mode = "down" /\ at = 0 /\ stage = "idle"
      /\ batch = {} /\ changed = {} /\ lastId = Most /\ ended = "none" /\ faulted = FALSE /\ broken = FALSE
  BY DEF ImportInit, NoIds, Most
<1>2. lastId \in Nat
  BY <1>1, MostOf
<1>3. ImportShape /\ StageFits /\ BatchFits
  <2>1. ImportShape
    <3>1. rows \cup batch = {} /\ at \in 0..18
      BY <1>1
    <3>2. faulted \in BOOLEAN /\ broken \in BOOLEAN
      BY <1>1, Zenon
    <3>3. /\ \A r \in DOMAIN saved : saved[r] \in Nat
          /\ \A r \in DOMAIN idMap : idMap[r] \in Nat
          /\ DOMAIN saved \subseteq Records /\ DOMAIN idMap \subseteq Records /\ changed \subseteq Copies
      BY <1>1
    <3>4. QED
      BY <1>1, <1>2, <3>1, <3>2, <3>3 DEF ImportShape
  <2>2. StageFits /\ BatchFits
    BY <1>1 DEF StageFits, BatchFits
  <2>3. QED
    BY <2>1, <2>2
<1>4. IdsFit /\ IdsApart /\ Backed
  BY <1>1 DEF IdsFit, IdsApart, Backed
<1>5. WholeFits /\ FullRunMakesWhole /\ OneRowFits
  BY <1>1 DEF WholeFits, FullRunMakesWhole, OneRowFits, OneRowEach, MappedOnce
<1>6. QED
  BY <1>3, <1>4, <1>5 DEF ImportIInv

LEMMA ImportStutter ==
  ASSUME ImportIInv, UNCHANGED importVars
  PROVE  ImportIInv'
<1>1. /\ UNCHANGED <<rows, saved, idMap, mode, at, stage, batch, changed, lastId, ended, faulted, broken>>
  BY DEF importVars
<1>2. ImportShape' /\ StageFits'
  BY <1>1 DEF ImportIInv, ImportShape, StageFits
<1>3. BatchFits'
  BY <1>1 DEF ImportIInv, BatchFits, KindHere, Mapped
<1>4. IdsFit'
  BY <1>1 DEF ImportIInv, IdsFit, IdFits, Within, How, Done, Most
<1>5. IdsApart' /\ Backed'
  BY <1>1 DEF ImportIInv, IdsApart, Backed, RowWith, Waits, Forgets, How
<1>6. WholeFits' /\ FullRunMakesWhole'
  BY <1>1 DEF ImportIInv, WholeFits, FullRunMakesWhole, Done, HasRow, Waits, Mapped, KindHere
<1>7. OneRowFits'
  BY <1>1 DEF ImportIInv, OneRowFits, OneRowEach, MappedOnce, HasRow, How
<1>8. QED
  BY <1>2, <1>3, <1>4, <1>5, <1>6, <1>7 DEF ImportIInv

LEMMA ImportInvariant == ImportSpec => []ImportIInv
<1>1. ASSUME NEW budget \in [ImportBudget -> Nat]
      PROVE  ImportInit(budget) => ImportIInv /\ CardsFit
  BY ImportInitial DEF ImportInit, CardsFit, CardsMade
<1>2. (\E budget \in [ImportBudget -> Nat] : ImportInit(budget)) => ImportIInv /\ CardsFit
  BY <1>1
<1>3. ImportIInv /\ CardsFit /\ [ImportNext]_importVars => ImportIInv'
  <2> SUFFICES ASSUME ImportIInv, CardsFit, [ImportNext]_importVars PROVE ImportIInv'
    OBVIOUS
  <2>1. CASE \E m \in {"full", "incremental"} : Start(m)
    BY <2>1, ImportStart
  <2>2. CASE Convert
    BY <2>2, ImportConvert
  <2>3. CASE InsertAll
    BY <2>3, ImportInsertAll
  <2>4. CASE \E x \in batch : InsertSingly(x)
    BY <2>4, ImportInsertSingly
  <2>5. CASE SinglesDone \/ FindChanged \/ UpsertsDone \/ ReadEs \/ EsDone
    BY <2>5, ImportMoves, ImportMove
  <2>6. CASE \E n \in changed : Upsert(n)
    BY <2>6, ImportUpsert
  <2>7. CASE \E n \in changed : ImportEs(n)
    BY <2>7, ImportImportEs
  <2>8. CASE Finish \/ Crash
    BY <2>8, ImportEnd
  <2>9. CASE UNCHANGED importVars
    BY <2>9, ImportStutter
  <2>10. QED
    BY <2>1, <2>2, <2>3, <2>4, <2>5, <2>6, <2>7, <2>8, <2>9 DEF ImportNext
<1>4. ImportIInv /\ CardsFit /\ [ImportNext]_importVars => CardsFit'
  BY CardsStep
<1>5. QED
  BY <1>2, <1>3, <1>4, PTL DEF ImportSpec

\* However many full and incremental runs import a record of a kind that is
\* rechecked, and whichever of its writes fail, it has one row, unless a run
\* was stopped, with its maps, or the answer to a write was lost.
THEOREM OneRowKept == ImportSpec => []OneRowEach
<1>1. ImportIInv => OneRowEach
  BY DEF ImportIInv, OneRowFits, OneRowEach
<1>2. QED
  BY <1>1, ImportInvariant, PTL

\* A full run of migrate.ts without a fault writes what earlier runs could not,
\* of all kinds but those whose failed records stay mapped and those that need
\* these or a row of a unique name.
THEOREM FullRunsMakeWhole == ImportSpec => []FullRunMakesWhole
<1>1. ImportIInv => FullRunMakesWhole
  BY DEF ImportIInv
<1>2. QED
  BY <1>1, ImportInvariant, PTL

-----------------------------------------------------------------------------
(* AiConfigs: a config, its template and the calls on them                 *)

IsWeighting(w) == \E flows \in SUBSET AiWorkflows : w \in [flows -> Nat]

ConfigLabels == {"template", "check", "insert", "fill", "write"}
TemplateLabels == {"tinsert", "tfill", "twrite", "off", "drop"}

\* What a call that is under way has checked by where it is.
CallFits(c) ==
    LET a == ask[c] IN
    /\ a = [kind |-> a.kind, template |-> a.template, weights |-> a.weights, id |-> a.id,
            flow |-> a.flow, disabled |-> a.disabled, drop |-> a.drop]
    /\ IsWeighting(a.weights)
    /\ cpc[c] \in ConfigLabels => a.kind \in {"create", "update", "delete"}
    /\ cpc[c] \in TemplateLabels => a.kind \in {"template", "edit", "disable"}
    /\ cpc[c] \in {"template", "tfill", "twrite"} => a.template \in Templates
    /\ cpc[c] \in {"insert", "fill"} => Whole(a.weights)
    /\ cpc[c] = "write" => a.weights = NoWeights \/ Whole(a.weights)
    /\ cpc[c] = "tinsert" => a.disabled \in BOOLEAN
    /\ cpc[c] = "twrite" => a.disabled \in BOOLEAN \cup {Nil} /\ a.drop \subseteq {a.template}

ConfigShape ==
    /\ cpc = [c \in ConfigCalls |-> cpc[c]] /\ ask = [c \in ConfigCalls |-> ask[c]]
    /\ \A c \in ConfigCalls : cpc[c] \in ConfigLabels \cup TemplateLabels \cup {"idle"}
    /\ template = [t \in Templates |-> template[t]]
    /\ \A t \in Templates : template[t] # Nil =>
         /\ template[t] = [disabled |-> template[t].disabled, weights |-> template[t].weights]
         /\ template[t].disabled \in BOOLEAN /\ IsWeighting(template[t].weights)
    /\ unmade \subseteq Templates /\ defaults \subseteq Templates
    /\ config # Nil => config = [id |-> config.id, template |-> config.template,
                                 weights |-> config.weights]

CallsFit == \A c \in ConfigCalls : cpc[c] # "idle" => CallFits(c)

\* As near to a whole as the columns keep it.
NearWhole(v) ==
    LET apart == Total(v) - 100000
        most == 5 * Cardinality(DOMAIN v)
    IN  -most <= apart /\ apart <= most

\* Once runs are queued no call may change the config any more.
OnConfig(c) == cpc[c] # "idle" /\ ask[c].kind \in {"create", "update", "delete"}

QueuedAlone ==
    runs # {} /\ "queue" \notin crossed => \A c \in ConfigCalls : ~OnConfig(c)

\* One call on templates at a time; a default that is disabled is about to be
\* dropped by it.
OnTemplate(c) == cpc[c] # "idle" /\ ask[c].kind \in {"template", "edit", "disable"}

TemplatesApart ==
    "defaults" \notin crossed =>
        \A c, d \in ConfigCalls : OnTemplate(c) /\ OnTemplate(d) => c = d

IsOff(t) == template[t] # Nil /\ template[t].disabled

DefaultsDropped ==
    "defaults" \notin crossed =>
        \A t \in defaults : IsOff(t) =>
            \E c \in ConfigCalls : cpc[c] = "drop" /\ t \in ask[c].drop

ConfigEditFits ==
    "defaults" \notin crossed =>
        \A c \in ConfigCalls : cpc[c] = "twrite" /\ ask[c].disabled = TRUE =>
            IsOff(ask[c].template) \/ ask[c].template \in ask[c].drop \/ template[ask[c].template] = Nil

\* What is not made yet is no template and no default.
UnmadeFits == \A t \in unmade : template[t] = Nil /\ t \notin defaults

ConfigIInv ==
    /\ ConfigShape /\ CallsFit /\ WeightsWhole /\ QueuedAlone /\ AwaitedIsQueued
    /\ TemplatesApart /\ DefaultsDropped /\ ConfigEditFits /\ UnmadeFits

\* The sum of a weighting is that of its sums over each set of workflows.
LEMMA TotalIsSum ==
  ASSUME NEW w, IsFiniteSet(DOMAIN w)
  PROVE  \E it : Sums(it, DOMAIN w, w) /\ Total(w) = it[DOMAIN w]
<1> DEFINE it == CHOOSE f : Sums(f, DOMAIN w, w)
<1>1. Total(w) = it[DOMAIN w]
  BY DEF Total, MapThenSumSet, MapThenFoldSet, Sums, SumsOver, AnyOf, Without
<1>2. Sums(it, DOMAIN w, w)
  BY SumsExist
<1>3. QED
  BY <1>1, <1>2

\* What the columns keep of a whole weighting is near to a whole.
LEMMA KeptNearWhole ==
  ASSUME NEW w, IsWeighting(w), Whole(w)
  PROVE  IsWeighting(Kept(w)) /\ NearWhole(Kept(w))
<1>1. IsFiniteSet(DOMAIN w)
  <2>1. DOMAIN w \subseteq AiWorkflows
    BY DEF IsWeighting
  <2>2. IsFiniteSet(AiWorkflows)
    BY ConfigsAssumption
  <2>3. QED
    BY <2>1, <2>2, FS_Subset
<1>2. DOMAIN Kept(w) = DOMAIN w /\ IsWeighting(Kept(w))
  BY DEF Kept, IsWeighting
<1>3. \A i \in DOMAIN w :
        /\ Kept(w)[i] \in Int /\ w[i] \in Int
        /\ -5 <= Kept(w)[i] - w[i] /\ Kept(w)[i] - w[i] <= 5
  BY DEF Kept, IsWeighting
<1>4. PICK it : Sums(it, DOMAIN w, w) /\ Total(w) = it[DOMAIN w]
  BY <1>1, TotalIsSum
<1>5. PICK kt : Sums(kt, DOMAIN w, Kept(w)) /\ Total(Kept(w)) = kt[DOMAIN w]
  BY <1>1, <1>2, TotalIsSum
<1>6. /\ kt[DOMAIN w] \in Int /\ it[DOMAIN w] \in Int
      /\ -(5 * Cardinality(DOMAIN w)) <= kt[DOMAIN w] - it[DOMAIN w]
      /\ kt[DOMAIN w] - it[DOMAIN w] <= 5 * Cardinality(DOMAIN w)
  BY <1>1, <1>3, <1>4, <1>5, SumsApart
<1>7. QED
  BY <1>2, <1>4, <1>5, <1>6 DEF NearWhole, Whole

LEMMA NearWholeAlways == WeightsWhole <=>
    (config # Nil /\ config.weights # NoWeights /\ "fill" \notin crossed => NearWhole(config.weights))
BY DEF WeightsWhole, NearWhole

LEMMA NoWeightsIsOne == IsWeighting(NoWeights) /\ DOMAIN NoWeights = {}
BY DEF IsWeighting, NoWeights

LEMMA WeightingsAre ==
  ASSUME NEW w \in Weightings \cup {NoWeights}
  PROVE  IsWeighting(w)
<1>1. CASE w = NoWeights
  BY <1>1, NoWeightsIsOne
<1>2. CASE w \in Weightings
  BY <1>2, ConfigsAssumption DEF IsWeighting
<1>3. QED
  BY <1>1, <1>2

LEMMA KeptIsOne == ASSUME NEW w, IsWeighting(w) PROVE IsWeighting(Kept(w))
BY DEF Kept, IsWeighting

LEMMA FilledIsOne ==
  ASSUME NEW v, IsWeighting(v), NEW w, IsWeighting(w)
  PROVE  IsWeighting(Filled(v, w))
<1>1. IsWeighting(Kept(w)) /\ DOMAIN Kept(w) = DOMAIN w
  BY KeptIsOne DEF Kept
<1> HIDE DEF Kept
<1>2. QED
  BY <1>1 DEF Filled, IsWeighting

LEMMA FilledFresh ==
  ASSUME NEW w, IsWeighting(w)
  PROVE  Filled(NoWeights, w) = Kept(w)
<1>1. IsWeighting(Kept(w)) /\ DOMAIN Kept(w) = DOMAIN w
  BY KeptIsOne DEF Kept
<1>2. Kept(w) = [i \in DOMAIN w |-> Kept(w)[i]]
  BY DEF Kept
<1> HIDE DEF Kept
<1>3. Filled(NoWeights, w) = [i \in DOMAIN w |-> Kept(w)[i]]
  BY NoWeightsIsOne DEF Filled
<1>4. QED
  BY <1>2, <1>3

-----------------------------------------------------------------------------
(* The steps of a call                                                     *)

Elsewhere(c) == \A d \in ConfigCalls \ {c} : cpc'[d] = cpc[d] /\ ask'[d] = ask[d]

CallsStay == UNCHANGED <<cpc, ask>>

LEMMA CallLeaves ==
  ASSUME ConfigShape, NEW c \in ConfigCalls, CLeave(c)
  PROVE  Elsewhere(c) /\ cpc'[c] = "idle"
         /\ cpc' = [d \in ConfigCalls |-> cpc'[d]] /\ ask' = [d \in ConfigCalls |-> ask'[d]]
BY DEF ConfigShape, CLeave, CGoto, Elsewhere

LEMMA CallStarts ==
  ASSUME ConfigShape, NEW c \in ConfigCalls, NEW label, NEW a,
         CGoto(c, label), ask' = [ask EXCEPT ![c] = a]
  PROVE  Elsewhere(c) /\ cpc'[c] = label /\ ask'[c] = a
         /\ cpc' = [d \in ConfigCalls |-> cpc'[d]] /\ ask' = [d \in ConfigCalls |-> ask'[d]]
BY DEF ConfigShape, CGoto, Elsewhere

\* It is enough to look at the call that moves.
LEMMA OthersFit ==
  ASSUME CallsFit, NEW c \in ConfigCalls, Elsewhere(c), cpc'[c] # "idle" => CallFits(c)'
  PROVE  CallsFit'
<1>1. ASSUME NEW d \in ConfigCalls \ {c}, cpc'[d] # "idle"
      PROVE  CallFits(d)'
  BY <1>1 DEF CallsFit, CallFits, Elsewhere
<1>2. QED
  BY <1>1 DEF CallsFit

\* A weighting that is asked for, or none.
Asked(kind, t, w, id, flow, d, drop) ==
    [kind |-> kind, template |-> t, weights |-> w, id |-> id, flow |-> flow, disabled |-> d,
     drop |-> drop]

LEMMA CallsFitStep ==
  ASSUME ConfigShape, CallsFit, NEW c \in ConfigCalls, ConfigStep(c)
  PROVE  /\ CallsFit' /\ Elsewhere(c)
         /\ cpc' = [d \in ConfigCalls |-> cpc'[d]] /\ ask' = [d \in ConfigCalls |-> ask'[d]]
         /\ cpc'[c] \in ConfigLabels \cup TemplateLabels \cup {"idle"}
         /\ cpc'[c] # "idle" => OnConfig(c)'
<1> DEFINE Result == /\ CallsFit' /\ Elsewhere(c)
                     /\ cpc' = [d \in ConfigCalls |-> cpc'[d]]
                     /\ ask' = [d \in ConfigCalls |-> ask'[d]]
                     /\ cpc'[c] \in ConfigLabels \cup TemplateLabels \cup {"idle"}
                     /\ cpc'[c] # "idle" => OnConfig(c)'
<1>1. ASSUME CLeave(c)
      PROVE  Result
  BY <1>1, CallLeaves, OthersFit DEF ConfigLabels
<1>2. ASSUME NEW label \in ConfigLabels, NEW kind \in {"create", "update", "delete"},
             NEW t, NEW w, NEW id, NEW flow, NEW dis, NEW drop,
             CGoto(c, label), ask' = [ask EXCEPT ![c] = Asked(kind, t, w, id, flow, dis, drop)],
             IsWeighting(w), label = "template" => t \in Templates,
             label \in {"insert", "fill"} => Whole(w),
             label = "write" => w = NoWeights \/ Whole(w)
      PROVE  Result
  <2> DEFINE a == Asked(kind, t, w, id, flow, dis, drop)
  <2>1. /\ Elsewhere(c) /\ cpc'[c] = label /\ ask'[c] = a
        /\ cpc' = [d \in ConfigCalls |-> cpc'[d]] /\ ask' = [d \in ConfigCalls |-> ask'[d]]
    BY <1>2, CallStarts
  <2>2. /\ a = [kind |-> a.kind, template |-> a.template, weights |-> a.weights, id |-> a.id,
                flow |-> a.flow, disabled |-> a.disabled, drop |-> a.drop]
        /\ a.kind = kind /\ a.weights = w /\ a.template = t
    BY DEF Asked
  <2> HIDE DEF a
  <2>3. label \notin TemplateLabels /\ label # "idle"
    BY <1>2 DEF ConfigLabels, TemplateLabels
  <2>4. CallFits(c)'
    BY <1>2, <2>1, <2>2, <2>3 DEF CallFits, ConfigLabels, TemplateLabels
  <2>5. OnConfig(c)'
    BY <1>2, <2>1, <2>2, <2>3 DEF OnConfig
  <2>6. QED
    BY <1>2, <2>1, <2>4, <2>5, OthersFit
<1>3. ASSUME NEW t \in Templates \cup {Nil, Unlinked}, NEW w \in Weightings \cup {NoWeights},
             CreateCheck(c, t, w) \/ UpdateCheck(c, t, w)
      PROVE  Result
  <2> DEFINE label == IF t \in Templates THEN "template" ELSE "check"
  <2>0. \E kind \in {"create", "update"} : \E id : CAsk(c, label, kind, t, w, id)
    <3>1. CASE CreateCheck(c, t, w)
      BY <3>1 DEF CreateCheck
    <3>2. CASE UpdateCheck(c, t, w)
      BY <3>2 DEF UpdateCheck
    <3>3. QED
      BY <1>3, <3>1, <3>2
  <2>1. PICK kind \in {"create", "update"} : \E id : CAsk(c, label, kind, t, w, id)
    BY <2>0
  <2>5. PICK id : CAsk(c, label, kind, t, w, id)
    BY <2>1
  <2>2. CGoto(c, label) /\ ask' = [ask EXCEPT ![c] = Asked(kind, t, w, id, Nil, Nil, {})]
    BY <2>5 DEF CAsk, Asked
  <2>3. label \in {"check", "template"} /\ (label = "template" => t \in Templates)
    OBVIOUS
  <2> HIDE DEF label
  <2>4. QED
    BY <1>2, <2>1, <2>2, <2>3, WeightingsAre DEF ConfigLabels
<1>4. ASSUME DeleteCheck(c)
      PROVE  Result
  <2>1. /\ CGoto(c, "write")
        /\ ask' = [ask EXCEPT ![c] =
                     Asked("delete", Nil, NoWeights, config.id, Nil, Nil, {})]
    BY <1>4 DEF DeleteCheck, CAsk, Asked
  <2>2. QED
    BY <1>2, <2>1, NoWeightsIsOne DEF ConfigLabels
<1>5. ASSUME NEW label \in ConfigLabels, NEW w, NEW id, cpc[c] \in ConfigLabels, CGoto(c, label),
             ask' = [ask EXCEPT ![c] = Asked(ask[c].kind, ask[c].template, w, id, ask[c].flow,
                                             ask[c].disabled, ask[c].drop)],
             IsWeighting(w), label = "template" => ask[c].template \in Templates,
             label \in {"insert", "fill"} => Whole(w),
             label = "write" => w = NoWeights \/ Whole(w)
      PROVE  Result
  <2>1. ask[c].kind \in {"create", "update", "delete"}
    BY <1>5 DEF CallsFit, CallFits, ConfigLabels
  <2>2. QED
    BY <1>2, <1>5, <2>1
<1>6. ASSUME cpc[c] \in ConfigLabels, NEW w
      PROVE  /\ CallFits(c)
             /\ [ask EXCEPT ![c].weights = w] =
                  [ask EXCEPT ![c] = Asked(ask[c].kind, ask[c].template, w, ask[c].id,
                                           ask[c].flow, ask[c].disabled, ask[c].drop)]
             /\ ask = [ask EXCEPT ![c] = Asked(ask[c].kind, ask[c].template, ask[c].weights,
                                               ask[c].id, ask[c].flow, ask[c].disabled, ask[c].drop)]
  <2>1. CallFits(c)
    BY <1>6 DEF CallsFit, ConfigLabels
  <2>2. ask = [d \in ConfigCalls |-> ask[d]]
    BY DEF ConfigShape
  <2>3. ask[c] = Asked(ask[c].kind, ask[c].template, ask[c].weights, ask[c].id,
                       ask[c].flow, ask[c].disabled, ask[c].drop)
    BY <2>1 DEF CallFits, Asked
  <2>4. [ask[c] EXCEPT !.weights = w] =
          Asked(ask[c].kind, ask[c].template, w, ask[c].id, ask[c].flow, ask[c].disabled,
                ask[c].drop)
    BY <2>3 DEF Asked
  <2>5. QED
    BY <2>1, <2>2, <2>3, <2>4
<1>7. ASSUME ReadTemplate(c)
      PROVE  Result
  <2> DEFINE t == ask[c].template
             w == IF ask[c].kind = "create" /\ ask[c].weights = NoWeights THEN template[t].weights
                  ELSE ask[c].weights
  <2>1. CASE CLeave(c)
    BY <1>1, <2>1
  <2>2. CASE ~CLeave(c)
    <3>1. cpc[c] = "template" /\ Usable(t) /\ CGoto(c, "check") /\ ask' = [ask EXCEPT ![c].weights = w]
      BY <1>7, <2>2 DEF ReadTemplate
    <3>2. cpc[c] \in ConfigLabels
      BY <3>1 DEF ConfigLabels
    <3>3. t \in Templates /\ IsWeighting(ask[c].weights)
      BY <1>6, <3>1, <3>2 DEF CallFits
    <3>4. IsWeighting(template[t].weights)
      BY <3>1, <3>3 DEF Usable, ConfigShape
    <3>5. IsWeighting(w)
      BY <3>3, <3>4
    <3> HIDE DEF w
    <3>6. "check" \in ConfigLabels
      BY DEF ConfigLabels
    <3>7. ask' = [ask EXCEPT ![c] = Asked(ask[c].kind, ask[c].template, w, ask[c].id,
                                          ask[c].flow, ask[c].disabled, ask[c].drop)]
      BY <1>6, <3>1, <3>2 DEF Asked
    <3>8. QED
      BY <1>5, <3>1, <3>2, <3>5, <3>6, <3>7
  <2>3. QED
    BY <2>1, <2>2
<1>8. ASSUME CheckWorkflows(c)
      PROVE  Result
  <2>1. CASE CLeave(c)
    BY <1>1, <2>1
  <2>2. CASE ~CLeave(c)
    <3> DEFINE label == IF ask[c].kind = "create" THEN "insert" ELSE "write"
               w == ask[c].weights
    <3>1. cpc[c] = "check" /\ CGoto(c, label) /\ ask' = ask
      BY <1>8, <2>2 DEF CheckWorkflows
    <3>2. label = "insert" => Whole(w)
      BY <1>8, <2>2 DEF CheckWorkflows
    <3>3. label = "write" => w = NoWeights \/ Whole(w)
      BY <1>8, <2>2 DEF CheckWorkflows
    <3>4. cpc[c] \in ConfigLabels /\ label \in ConfigLabels /\ label \notin {"template", "fill"}
      BY <3>1 DEF ConfigLabels
    <3>5. IsWeighting(w)
      BY <1>6, <3>4 DEF CallFits
    <3> HIDE DEF label
    <3>6. ask' = [ask EXCEPT ![c] = Asked(ask[c].kind, ask[c].template, w, ask[c].id,
                                          ask[c].flow, ask[c].disabled, ask[c].drop)]
      BY <1>6, <3>1, <3>4 DEF Asked
    <3> HIDE DEF w
    <3>7. QED
      BY <1>5, <3>1, <3>2, <3>3, <3>4, <3>5, <3>6
  <2>3. QED
    BY <2>1, <2>2
<1>9. ASSUME InsertConfig(c)
      PROVE  Result
  <2>1. CASE CLeave(c)
    BY <1>1, <2>1
  <2>2. CASE ~CLeave(c)
    <3> DEFINE w == ask[c].weights
    <3>1. cpc[c] = "insert" /\ CGoto(c, "fill") /\ ask' = [ask EXCEPT ![c].id = lastConfig + 1]
      BY <1>9, <2>2 DEF InsertConfig
    <3>2. cpc[c] \in ConfigLabels /\ "fill" \in ConfigLabels
      BY <3>1 DEF ConfigLabels
    <3>3. IsWeighting(w) /\ Whole(w)
      BY <1>6, <3>1, <3>2 DEF CallFits
    <3>4. ask[c] = Asked(ask[c].kind, ask[c].template, w, ask[c].id, ask[c].flow,
                         ask[c].disabled, ask[c].drop)
      BY <1>6, <3>2 DEF CallFits, Asked
    <3>5. [ask[c] EXCEPT !.id = lastConfig + 1] =
            Asked(ask[c].kind, ask[c].template, w, lastConfig + 1, ask[c].flow,
                  ask[c].disabled, ask[c].drop)
      BY <3>4 DEF Asked
    <3> HIDE DEF w
    <3>6. ask' = [ask EXCEPT ![c] = Asked(ask[c].kind, ask[c].template, w, lastConfig + 1,
                                          ask[c].flow, ask[c].disabled, ask[c].drop)]
      BY <3>1, <3>5 DEF ConfigShape
    <3>7. QED
      BY <1>5, <3>1, <3>2, <3>3, <3>6
  <2>3. QED
    BY <2>1, <2>2
<1>10. ASSUME Fill(c) \/ Break(c) \/ WriteConfig(c) \/ WriteRefused(c)
       PROVE  CLeave(c)
  BY <1>10 DEF Fill, Break, WriteConfig, WriteRefused
<1>11. ConfigStep(c) => Result
  BY <1>1, <1>3, <1>4, <1>7, <1>8, <1>9, <1>10 DEF ConfigStep
<1>12. QED
  BY <1>11

LEMMA TemplateCallFits ==
  ASSUME ConfigShape, CallsFit, NEW c \in ConfigCalls, TemplateStep(c)
  PROVE  /\ CallsFit' /\ Elsewhere(c)
         /\ cpc' = [d \in ConfigCalls |-> cpc'[d]] /\ ask' = [d \in ConfigCalls |-> ask'[d]]
         /\ cpc'[c] \in ConfigLabels \cup TemplateLabels \cup {"idle"}
         /\ cpc'[c] # "idle" => OnTemplate(c)'
<1> DEFINE Result == /\ CallsFit' /\ Elsewhere(c)
                     /\ cpc' = [d \in ConfigCalls |-> cpc'[d]]
                     /\ ask' = [d \in ConfigCalls |-> ask'[d]]
                     /\ cpc'[c] \in ConfigLabels \cup TemplateLabels \cup {"idle"}
                     /\ cpc'[c] # "idle" => OnTemplate(c)'
<1>1. ASSUME CLeave(c)
      PROVE  Result
  BY <1>1, CallLeaves, OthersFit DEF TemplateLabels
<1>2. ASSUME NEW label \in TemplateLabels, NEW kind \in {"template", "edit", "disable"},
             NEW t, NEW w, NEW id, NEW flow, NEW dis, NEW drop,
             CGoto(c, label), ask' = [ask EXCEPT ![c] = Asked(kind, t, w, id, flow, dis, drop)],
             IsWeighting(w), label \in {"tfill", "twrite"} => t \in Templates,
             label = "tinsert" => dis \in BOOLEAN,
             label = "twrite" => dis \in BOOLEAN \cup {Nil} /\ drop \subseteq {t}
      PROVE  Result
  <2> DEFINE a == Asked(kind, t, w, id, flow, dis, drop)
  <2>1. /\ Elsewhere(c) /\ cpc'[c] = label /\ ask'[c] = a
        /\ cpc' = [d \in ConfigCalls |-> cpc'[d]] /\ ask' = [d \in ConfigCalls |-> ask'[d]]
    BY <1>2, CallStarts
  <2>2. /\ a = [kind |-> a.kind, template |-> a.template, weights |-> a.weights, id |-> a.id,
                flow |-> a.flow, disabled |-> a.disabled, drop |-> a.drop]
        /\ a.kind = kind /\ a.weights = w /\ a.template = t /\ a.disabled = dis /\ a.drop = drop
    BY DEF Asked
  <2> HIDE DEF a
  <2>3. label \notin ConfigLabels /\ label # "idle"
    BY <1>2 DEF ConfigLabels, TemplateLabels
  <2>4. CallFits(c)'
    BY <1>2, <2>1, <2>2, <2>3 DEF CallFits, ConfigLabels, TemplateLabels
  <2>5. OnTemplate(c)'
    BY <1>2, <2>1, <2>2, <2>3 DEF OnTemplate
  <2>6. QED
    BY <1>2, <2>1, <2>4, <2>5, OthersFit
<1>3. ASSUME NEW w \in Weightings, NEW d \in BOOLEAN, TemplateCheck(c, w, d)
      PROVE  Result
  <2>1. CGoto(c, "tinsert") /\ ask' = [ask EXCEPT ![c] = Asked("template", Nil, w, 0, Nil, d, {})]
    BY <1>3 DEF TemplateCheck, Asked
  <2>2. QED
    BY <1>2, <2>1, WeightingsAre DEF TemplateLabels
<1>4. ASSUME NEW t \in Templates, NEW w \in Weightings \cup {NoWeights},
             NEW d \in BOOLEAN \cup {Nil}, EditCheck(c, t, w, d)
      PROVE  Result
  <2> DEFINE drop == IF Newly(t, d) THEN {t} ELSE {}
  <2>1. CGoto(c, "twrite") /\ ask' = [ask EXCEPT ![c] = Asked("edit", t, w, 0, Nil, d, drop)]
    BY <1>4 DEF EditCheck, Asked
  <2>2. drop \subseteq {t}
    OBVIOUS
  <2> HIDE DEF drop
  <2>3. QED
    BY <1>2, <2>1, <2>2, WeightingsAre DEF TemplateLabels
<1>5. ASSUME NEW i \in AiWorkflows, DisableCheck(c, i)
      PROVE  Result
  <2>1. /\ CGoto(c, "off")
        /\ ask' = [ask EXCEPT ![c] = Asked("disable", Nil, NoWeights, 0, i, i \in off, {})]
    BY <1>5 DEF DisableCheck, Asked
  <2>2. QED
    BY <1>2, <2>1, NoWeightsIsOne DEF TemplateLabels
<1>6. ASSUME cpc[c] \in TemplateLabels
      PROVE  /\ CallFits(c) /\ ask[c].kind \in {"template", "edit", "disable"}
             /\ ask[c] = Asked(ask[c].kind, ask[c].template, ask[c].weights, ask[c].id,
                               ask[c].flow, ask[c].disabled, ask[c].drop)
  <2>1. CallFits(c)
    BY <1>6 DEF CallsFit, TemplateLabels
  <2>2. QED
    BY <1>6, <2>1 DEF CallFits, Asked
<1>7. ASSUME InsertTemplate(c)
      PROVE  Result
  <2>1. PICK t \in unmade : ask' = [ask EXCEPT ![c].template = t]
    BY <1>7 DEF InsertTemplate
  <2>2. cpc[c] \in TemplateLabels /\ CGoto(c, "tfill") /\ "tfill" \in TemplateLabels
    BY <1>7 DEF InsertTemplate, TemplateLabels
  <2>3. t \in Templates
    BY <2>1 DEF ConfigShape
  <2> DEFINE a == Asked(ask[c].kind, t, ask[c].weights, ask[c].id, ask[c].flow, ask[c].disabled,
                        ask[c].drop)
  <2>4. [ask[c] EXCEPT !.template = t] = a
    BY <1>6, <2>2 DEF Asked
  <2>5. ask' = [ask EXCEPT ![c] = a]
    BY <2>1, <2>4 DEF ConfigShape
  <2>6. IsWeighting(ask[c].weights)
    BY <1>6, <2>2 DEF CallFits
  <2>7. QED
    BY <1>2, <1>6, <2>2, <2>3, <2>5, <2>6
<1>8. ASSUME EditWrite(c)
      PROVE  Result
  <2>1. CASE CLeave(c)
    BY <1>1, <2>1
  <2>2. CASE ~CLeave(c)
    <3>1. cpc[c] = "twrite" /\ CGoto(c, "drop") /\ ask' = ask
      BY <1>8, <2>2 DEF EditWrite
    <3>2. cpc[c] \in TemplateLabels /\ "drop" \in TemplateLabels
      BY <3>1 DEF TemplateLabels
    <3> DEFINE a == Asked(ask[c].kind, ask[c].template, ask[c].weights, ask[c].id, ask[c].flow,
                          ask[c].disabled, ask[c].drop)
    <3>3. ask[c] = a
      BY <1>6, <3>2
    <3>4. ask' = [ask EXCEPT ![c] = a]
      BY <3>1, <3>3 DEF ConfigShape
    <3>5. IsWeighting(ask[c].weights)
      BY <1>6, <3>2 DEF CallFits
    <3>6. ask[c].kind \in {"template", "edit", "disable"} /\ CGoto(c, "drop")
      BY <1>6, <3>1, <3>2
    <3>7. QED
      BY <1>2, <3>2, <3>4, <3>5, <3>6
  <2>3. QED
    BY <2>1, <2>2
<1>9. ASSUME DisableWorkflow(c)
      PROVE  Result
  <2>1. CASE CLeave(c)
    BY <1>1, <2>1
  <2>2. CASE ~CLeave(c)
    <3>1. PICK affected : ask' = [ask EXCEPT ![c].drop = affected]
      BY <1>9, <2>2 DEF DisableWorkflow
    <3>2. cpc[c] = "off" /\ CGoto(c, "drop")
      BY <1>9, <2>2 DEF DisableWorkflow
    <3>3. cpc[c] \in TemplateLabels /\ "drop" \in TemplateLabels
      BY <3>2 DEF TemplateLabels
    <3> DEFINE a == Asked(ask[c].kind, ask[c].template, ask[c].weights, ask[c].id, ask[c].flow,
                          ask[c].disabled, affected)
    <3>4. [ask[c] EXCEPT !.drop = affected] = a
      BY <1>6, <3>3 DEF Asked
    <3>5. ask' = [ask EXCEPT ![c] = a]
      BY <3>1, <3>4 DEF ConfigShape
    <3>6. IsWeighting(ask[c].weights)
      BY <1>6, <3>3 DEF CallFits
    <3>7. QED
      BY <1>2, <1>6, <3>2, <3>3, <3>5, <3>6
  <2>3. QED
    BY <2>1, <2>2
<1>10. FillTemplate(c) \/ DropDefaults(c) => CLeave(c)
  BY DEF FillTemplate, DropDefaults
<1>11. TemplateStep(c) => Result
  BY <1>1, <1>3, <1>4, <1>5, <1>7, <1>8, <1>9, <1>10 DEF TemplateStep
<1>12. QED
  BY <1>11

\* What does not come from a call on the config or a template.
OtherStep ==
    \/ Submit \/ QueueRead \/ QueueWrite \/ Judge \/ Complete
    \/ \E t \in Templates : DeleteTemplate(t) \/ AddDefault(t)
    \/ \E i \in AiWorkflows : EnableWorkflow(i)

LEMMA OtherCallsStay == OtherStep \/ UNCHANGED configVars => CallsStay
BY DEF OtherStep, Submit, QueueRead, QueueWrite, Judge, Complete, DeleteTemplate, AddDefault,
       EnableWorkflow, CallsStay, configVars

LEMMA ConfigStepKinds ==
  ASSUME [ConfigNext]_configVars
  PROVE  \/ \E c \in ConfigCalls : ConfigStep(c)
         \/ \E c \in ConfigCalls : TemplateStep(c)
         \/ OtherStep
         \/ UNCHANGED configVars
BY DEF ConfigNext, OtherStep

-----------------------------------------------------------------------------
(* Rows                                                                    *)

TemplateFits(x) ==
    x # Nil => /\ x = [disabled |-> x.disabled, weights |-> x.weights]
               /\ x.disabled \in BOOLEAN /\ IsWeighting(x.weights)

TemplatesShape ==
    /\ template = [t \in Templates |-> template[t]] /\ \A t \in Templates : TemplateFits(template[t])

LEMMA TemplateChanged ==
  ASSUME TemplatesShape, NEW t \in Templates, NEW x, TemplateFits(x),
         template' = [template EXCEPT ![t] = x]
  PROVE  TemplatesShape'
<1>1. template' = [u \in Templates |-> IF u = t THEN x ELSE template[u]]
  BY DEF TemplatesShape
<1>2. \A u \in Templates : TemplateFits(template'[u])
  BY <1>1 DEF TemplatesShape
<1>3. QED
  BY <1>1, <1>2 DEF TemplatesShape

LEMMA RowIsTemplate ==
  ASSUME NEW d \in BOOLEAN, NEW w, IsWeighting(w)
  PROVE  TemplateFits([disabled |-> d, weights |-> w])
BY DEF TemplateFits

LEMMA TemplatesStep ==
  ASSUME TemplatesShape, CallsFit, unmade \subseteq Templates, [ConfigNext]_configVars
  PROVE  TemplatesShape'
<1> USE DEF TemplatesShape
<1>1. ASSUME NEW c \in ConfigCalls, InsertTemplate(c)
      PROVE  TemplatesShape'
  <2>1. PICK t \in unmade :
          template' = [template EXCEPT ![t] = [disabled |-> ask[c].disabled, weights |-> NoWeights]]
    BY <1>1 DEF InsertTemplate
  <2>2. ask[c].disabled \in BOOLEAN
    BY <1>1 DEF InsertTemplate, CallsFit, CallFits
  <2>3. QED
    BY <2>1, <2>2, TemplateChanged, RowIsTemplate, NoWeightsIsOne
<1>2. ASSUME NEW c \in ConfigCalls, FillTemplate(c)
      PROVE  TemplatesShape'
  <2> DEFINE t == ask[c].template
  <2>1. t \in Templates /\ IsWeighting(ask[c].weights)
    BY <1>2 DEF FillTemplate, CallsFit, CallFits
  <2>2. CASE template[t] = Nil
    BY <1>2, <2>2 DEF FillTemplate
  <2>3. CASE template[t] # Nil
    <3> DEFINE x == [disabled |-> template[t].disabled,
                     weights |-> Filled(template[t].weights, ask[c].weights)]
    <3>1. TemplateFits(template[t])
      BY <2>1
    <3>2. [template[t] EXCEPT !.weights = Filled(@, ask[c].weights)] = x
      BY <2>3, <3>1 DEF TemplateFits
    <3>3. template' = [template EXCEPT ![t] = x]
      BY <1>2, <2>1, <2>3, <3>2 DEF FillTemplate
    <3>4. TemplateFits(x)
      BY <2>1, <2>3, <3>1, FilledIsOne, RowIsTemplate DEF TemplateFits
    <3>5. QED
      BY <2>1, <3>3, <3>4, TemplateChanged
  <2>4. QED
    BY <2>2, <2>3
<1>3. ASSUME NEW c \in ConfigCalls, EditWrite(c)
      PROVE  TemplatesShape'
  <2> DEFINE a == ask[c]
             t == a.template
             x == [disabled |-> IF a.disabled = Nil THEN template[t].disabled ELSE a.disabled,
                   weights |-> IF a.weights = NoWeights THEN template[t].weights ELSE Kept(a.weights)]
  <2>1. t \in Templates /\ IsWeighting(a.weights) /\ a.disabled \in BOOLEAN \cup {Nil}
    BY <1>3 DEF EditWrite, CallsFit, CallFits
  <2>2. CASE template[t] = Nil
    BY <1>3, <2>2 DEF EditWrite
  <2>3. CASE template[t] # Nil
    <3>1. template' = [template EXCEPT ![t] = x]
      BY <1>3, <2>1, <2>3 DEF EditWrite
    <3>2. TemplateFits(template[t])
      BY <2>1
    <3>3. IsWeighting(Kept(a.weights))
      BY <2>1, KeptIsOne
    <3>4. TemplateFits(x)
      BY <2>1, <2>3, <3>2, <3>3 DEF TemplateFits
    <3>5. QED
      BY <2>1, <3>1, <3>4, TemplateChanged
  <2>4. QED
    BY <2>2, <2>3
<1>4. ASSUME NEW c \in ConfigCalls, DisableWorkflow(c)
      PROVE  TemplatesShape'
  <2> DEFINE affected == IF ask[c].disabled THEN {} ELSE With(ask[c].flow)
  <2>1. template' = [t \in Templates |-> IF t \in affected THEN [template[t] EXCEPT !.disabled = TRUE]
                                         ELSE template[t]]
    BY <1>4 DEF DisableWorkflow
  <2>2. \A t \in affected : template[t] # Nil
    BY DEF With
  <2> HIDE DEF affected
  <2>3. ASSUME NEW t \in Templates, t \in affected
        PROVE  TemplateFits([template[t] EXCEPT !.disabled = TRUE])
    <3>1. PICK d, w : template[t] = [disabled |-> d, weights |-> w] /\ IsWeighting(w)
      BY <2>2, <2>3 DEF TemplateFits
    <3>2. \A e : [[disabled |-> d, weights |-> w] EXCEPT !.disabled = e] = [disabled |-> e, weights |-> w]
      OBVIOUS
    <3>3. [template[t] EXCEPT !.disabled = TRUE] = [disabled |-> TRUE, weights |-> w]
      BY <3>1, <3>2
    <3>4. QED
      BY <3>1, <3>3, RowIsTemplate
  <2>4. \A t \in Templates : TemplateFits(template'[t])
    BY <2>1, <2>3
  <2>5. QED
    BY <2>1, <2>4
<1>5. ASSUME NEW t \in Templates, DeleteTemplate(t)
      PROVE  TemplatesShape'
  <2>1. TemplateFits(Nil)
    BY DEF TemplateFits
  <2>2. QED
    BY <1>5, <2>1, TemplateChanged DEF DeleteTemplate
<1>6. ASSUME NEW c \in ConfigCalls, ConfigStep(c)
      PROVE  UNCHANGED template
  BY <1>6 DEF ConfigStep, CreateCheck, UpdateCheck, DeleteCheck, ReadTemplate, CheckWorkflows,
     InsertConfig, Fill, Break, WriteConfig, WriteRefused, templateRows
<1>7. ASSUME NEW c \in ConfigCalls, TemplateStep(c)
      PROVE  \/ InsertTemplate(c) \/ FillTemplate(c) \/ EditWrite(c) \/ DisableWorkflow(c)
             \/ UNCHANGED template
  BY <1>7 DEF TemplateStep, TemplateCheck, EditCheck, DisableCheck, DropDefaults, templateRows
<1>8. ASSUME OtherStep \/ UNCHANGED configVars
      PROVE  (\E t \in Templates : DeleteTemplate(t)) \/ UNCHANGED template
  BY <1>8 DEF OtherStep, Submit, QueueRead, QueueWrite, Judge, Complete, AddDefault, EnableWorkflow,
     templateRows, configVars
<1>9. UNCHANGED template => TemplatesShape'
  OBVIOUS
<1>10. QED
  BY <1>1, <1>2, <1>3, <1>4, <1>5, <1>6, <1>7, <1>8, <1>9, ConfigStepKinds

ConfigRowShape ==
    config # Nil => config = [id |-> config.id, template |-> config.template,
                              weights |-> config.weights]

\* What a step may make of the config's weights.
NewWeights(w) ==
    \/ w = NoWeights
    \/ config # Nil /\ w = config.weights
    \/ \E v : IsWeighting(v) /\ Whole(v) /\ w = Kept(v)
    \/ "fill" \in crossed'

LEMMA ConfigChanges ==
  ASSUME ConfigRowShape, CallsFit, [ConfigNext]_configVars
  PROVE  \/ config' \in {config, Nil}
         \/ \E id, t, w : NewWeights(w) /\ config' = [id |-> id, template |-> t, weights |-> w]
<1> DEFINE Result == \/ config' \in {config, Nil}
                     \/ \E id, t, w : /\ NewWeights(w)
                                      /\ config' = [id |-> id, template |-> t, weights |-> w]
<1>1. ASSUME NEW c \in ConfigCalls, InsertConfig(c)
      PROVE  Result
  BY <1>1 DEF InsertConfig, NewWeights, configRow
<1>2. ASSUME NEW c \in ConfigCalls, Fill(c)
      PROVE  Result
  <2>1. CASE config = Nil \/ config.id # ask[c].id
    BY <1>2, <2>1 DEF Fill
  <2>2. CASE ~(config = Nil \/ config.id # ask[c].id)
    <3> DEFINE w == Filled(config.weights, ask[c].weights)
    <3>1. config' = [id |-> config.id, template |-> config.template, weights |-> w]
      BY <1>2, <2>2 DEF Fill, ConfigRowShape
    <3>2. IsWeighting(ask[c].weights) /\ Whole(ask[c].weights)
      BY <1>2 DEF Fill, CallsFit, CallFits
    <3>3. CASE config.weights = NoWeights
      BY <3>1, <3>2, <3>3, FilledFresh DEF NewWeights
    <3>4. CASE config.weights # NoWeights
      BY <1>2, <2>2, <3>1, <3>4 DEF Fill, NewWeights
    <3>5. QED
      BY <3>3, <3>4
  <2>3. QED
    BY <2>1, <2>2
<1>3. ASSUME NEW c \in ConfigCalls, WriteConfig(c)
      PROVE  Result
  <2> DEFINE a == ask[c]
  <2>1. CASE config = Nil \/ config.id # a.id \/ a.kind = "delete"
    BY <1>3, <2>1 DEF WriteConfig
  <2>2. CASE ~(config = Nil \/ config.id # a.id \/ a.kind = "delete")
    <3> DEFINE t == IF a.template \in Templates THEN a.template
                    ELSE IF a.template = Unlinked THEN Nil ELSE config.template
               w == IF a.weights = NoWeights THEN config.weights ELSE Kept(a.weights)
    <3>1. config' = [id |-> config.id, template |-> t, weights |-> w]
      BY <1>3, <2>2 DEF WriteConfig, ConfigRowShape
    <3>2. IsWeighting(a.weights) /\ (a.weights = NoWeights \/ Whole(a.weights))
      BY <1>3 DEF WriteConfig, CallsFit, CallFits
    <3>3. NewWeights(w)
      BY <2>2, <3>2 DEF NewWeights
    <3>4. QED
      BY <3>1, <3>3
  <2>3. QED
    BY <2>1, <2>2
<1>4. ASSUME NEW t \in Templates, DeleteTemplate(t)
      PROVE  Result
  <2>1. CASE ~(config # Nil /\ config.template = t)
    BY <1>4, <2>1 DEF DeleteTemplate
  <2>2. CASE config # Nil /\ config.template = t
    <3>1. config' = [id |-> config.id, template |-> Nil, weights |-> config.weights]
      BY <1>4, <2>2 DEF DeleteTemplate, ConfigRowShape
    <3>2. QED
      BY <2>2, <3>1 DEF NewWeights
  <2>3. QED
    BY <2>1, <2>2
<1>5. ASSUME NEW c \in ConfigCalls, ConfigStep(c)
      PROVE  InsertConfig(c) \/ Fill(c) \/ WriteConfig(c) \/ UNCHANGED config
  BY <1>5 DEF ConfigStep, CreateCheck, UpdateCheck, DeleteCheck, ReadTemplate, CheckWorkflows, Break,
     WriteRefused, configRow
<1>6. ASSUME NEW c \in ConfigCalls, TemplateStep(c)
      PROVE  UNCHANGED config
  BY <1>6 DEF TemplateStep, TemplateCheck, InsertTemplate, FillTemplate, EditCheck, EditWrite,
     DropDefaults, DisableCheck, DisableWorkflow, configRow
<1>7. ASSUME OtherStep \/ UNCHANGED configVars
      PROVE  (\E t \in Templates : DeleteTemplate(t)) \/ UNCHANGED config
  BY <1>7 DEF OtherStep, Submit, QueueRead, QueueWrite, Judge, Complete, AddDefault, EnableWorkflow,
     configRow, configVars
<1>8. QED
  BY <1>1, <1>2, <1>3, <1>4, <1>5, <1>6, <1>7, ConfigStepKinds

\* What calls met is not forgotten.
LEMMA CrossedStays ==
  ASSUME [ConfigNext]_configVars
  PROVE  \A x : x \in crossed => x \in crossed'
<1>1. ASSUME NEW c \in ConfigCalls, ConfigStep(c)
      PROVE  \A x : x \in crossed => x \in crossed'
  BY <1>1 DEF ConfigStep, CreateCheck, UpdateCheck, DeleteCheck, ReadTemplate, CheckWorkflows,
     InsertConfig, Fill, Break, WriteConfig, WriteRefused
<1>2. ASSUME NEW c \in ConfigCalls, TemplateStep(c)
      PROVE  \A x : x \in crossed => x \in crossed'
  BY <1>2 DEF TemplateStep, TemplateCheck, InsertTemplate, FillTemplate, EditCheck, EditWrite,
     DropDefaults, DisableCheck, DisableWorkflow, Meeting
<1>3. ASSUME OtherStep \/ UNCHANGED configVars
      PROVE  \A x : x \in crossed => x \in crossed'
  BY <1>3 DEF OtherStep, Submit, QueueRead, QueueWrite, Judge, Complete, AddDefault, EnableWorkflow,
     DeleteTemplate, configVars
<1>4. QED
  BY <1>1, <1>2, <1>3, ConfigStepKinds

\* WeightsWhole, about a row.
WholeOnce(row, seen) ==
    row # Nil /\ row.weights # NoWeights /\ "fill" \notin seen => NearWhole(row.weights)

LEMMA WeightsStep ==
  ASSUME ConfigRowShape, CallsFit, WholeOnce(config, crossed), [ConfigNext]_configVars
  PROVE  ConfigRowShape' /\ WholeOnce(config', crossed')
<1>1. CASE config' \in {config, Nil}
  BY <1>1, CrossedStays DEF ConfigRowShape, WholeOnce
<1>2. CASE \E id, t, w : NewWeights(w) /\ config' = [id |-> id, template |-> t, weights |-> w]
  <2>1. PICK id, t, w : NewWeights(w) /\ config' = [id |-> id, template |-> t, weights |-> w]
    BY <1>2
  <2>2. ConfigRowShape' /\ config'.weights = w
    BY <2>1 DEF ConfigRowShape
  <2>3. CASE w = NoWeights
    BY <2>2, <2>3 DEF WholeOnce
  <2>4. CASE config # Nil /\ w = config.weights
    BY <2>2, <2>4, CrossedStays DEF WholeOnce
  <2>5. CASE \E v : IsWeighting(v) /\ Whole(v) /\ w = Kept(v)
    BY <2>2, <2>5, KeptNearWhole DEF WholeOnce
  <2>6. CASE "fill" \in crossed'
    BY <2>2, <2>6 DEF WholeOnce
  <2>7. QED
    BY <2>1, <2>3, <2>4, <2>5, <2>6 DEF NewWeights
<1>3. QED
  BY <1>1, <1>2, ConfigChanges

LEMMA WholeOnceIs == WeightsWhole <=> WholeOnce(config, crossed)
BY DEF WeightsWhole, WholeOnce, NearWhole

-----------------------------------------------------------------------------
(* The queue                                                               *)

\* Once runs are queued, only calls that stop have a step.
LEMMA NoConfigStep ==
  ASSUME CallsFit, QueuedAlone, runs # {}, "queue" \notin crossed,
         NEW c \in ConfigCalls, ConfigStep(c)
  PROVE  Break(c)
<1>1. cpc[c] \notin ConfigLabels
  <2>1. cpc[c] \in ConfigLabels => OnConfig(c)
    BY DEF CallsFit, CallFits, OnConfig, ConfigLabels
  <2>2. QED
    BY <2>1 DEF QueuedAlone
<1>2. QED
  BY <1>1 DEF ConfigStep, CreateCheck, UpdateCheck, DeleteCheck, ReadTemplate, CheckWorkflows,
     InsertConfig, Fill, WriteConfig, WriteRefused, Changeable, ConfigLabels

LEMMA QueueStep ==
  ASSUME ConfigShape, CallsFit, QueuedAlone, AwaitedIsQueued, [ConfigNext]_configVars
  PROVE  QueuedAlone' /\ AwaitedIsQueued'
<1>1. SUFFICES ASSUME runs' # {}, "queue" \notin crossed'
               PROVE  /\ \A d \in ConfigCalls : ~OnConfig(d)'
                      /\ config' # Nil => DOMAIN config'.weights \subseteq runs'
  BY DEF QueuedAlone, AwaitedIsQueued
<1>2. "queue" \notin crossed
  BY <1>1, CrossedStays
<1>3. ASSUME QueueWrite
      PROVE  /\ \A d \in ConfigCalls : ~OnConfig(d)'
             /\ config' # Nil => DOMAIN config'.weights \subseteq runs'
  BY <1>1, <1>3 DEF QueueWrite, OnConfig, configRow, templateRows
<1>4. ASSUME UNCHANGED runs, UNCHANGED config, \A d \in ConfigCalls : OnConfig(d)' => OnConfig(d)
      PROVE  /\ \A d \in ConfigCalls : ~OnConfig(d)'
             /\ config' # Nil => DOMAIN config'.weights \subseteq runs'
  BY <1>1, <1>2, <1>4 DEF QueuedAlone, AwaitedIsQueued
<1>5. ASSUME NEW c \in ConfigCalls, ConfigStep(c)
      PROVE  UNCHANGED runs /\ UNCHANGED config /\ \A d \in ConfigCalls : OnConfig(d)' => OnConfig(d)
  <2>1. UNCHANGED runs
    BY <1>5 DEF ConfigStep, CreateCheck, UpdateCheck, DeleteCheck, ReadTemplate, CheckWorkflows,
       InsertConfig, Fill, Break, WriteConfig, WriteRefused, challengeSide
  <2>2. Break(c)
    BY <1>1, <1>2, <1>5, <2>1, NoConfigStep
  <2>3. UNCHANGED config /\ CLeave(c)
    BY <2>2 DEF Break, configRow
  <2>4. QED
    BY <2>1, <2>3, CallLeaves DEF OnConfig, Elsewhere
<1>6. ASSUME NEW c \in ConfigCalls, TemplateStep(c)
      PROVE  UNCHANGED runs /\ UNCHANGED config /\ \A d \in ConfigCalls : OnConfig(d)' => OnConfig(d)
  <2>1. UNCHANGED runs /\ UNCHANGED config
    BY <1>6 DEF TemplateStep, TemplateCheck, InsertTemplate, FillTemplate, EditCheck, EditWrite,
       DropDefaults, DisableCheck, DisableWorkflow, challengeSide, configRow
  <2>2. Elsewhere(c) /\ (cpc'[c] # "idle" => OnTemplate(c)')
    BY <1>6, TemplateCallFits
  <2>3. ~OnConfig(c)'
    BY <2>2 DEF OnConfig, OnTemplate
  <2>4. \A d \in ConfigCalls \ {c} : OnConfig(d)' => OnConfig(d)
    BY <2>2 DEF Elsewhere, OnConfig
  <2>5. QED
    BY <2>1, <2>3, <2>4
<1>7. ASSUME NEW t \in Templates, DeleteTemplate(t)
      PROVE  /\ \A d \in ConfigCalls : ~OnConfig(d)'
             /\ config' # Nil => DOMAIN config'.weights \subseteq runs'
  <2>1. UNCHANGED runs /\ UNCHANGED <<cpc, ask>>
    BY <1>7 DEF DeleteTemplate, challengeSide
  <2>2. \A d \in ConfigCalls : ~OnConfig(d)'
    BY <1>1, <1>2, <2>1 DEF QueuedAlone, OnConfig
  <2>3. config' # Nil => config # Nil /\ config'.weights = config.weights
    BY <1>7 DEF DeleteTemplate, ConfigShape
  <2>4. QED
    BY <1>1, <1>2, <2>1, <2>2, <2>3 DEF AwaitedIsQueued
<1>8. ASSUME OtherStep \/ UNCHANGED configVars
      PROVE  \/ QueueWrite \/ \E t \in Templates : DeleteTemplate(t)
             \/ UNCHANGED <<runs, config, cpc, ask>>
  BY <1>8 DEF OtherStep, Submit, QueueRead, Judge, Complete, AddDefault, EnableWorkflow,
     configRow, challengeSide, configVars
<1>9. UNCHANGED <<cpc, ask>> => \A d \in ConfigCalls : OnConfig(d)' => OnConfig(d)
  BY DEF OnConfig
<1>10. QED
  BY <1>3, <1>4, <1>5, <1>6, <1>7, <1>8, <1>9, ConfigStepKinds

-----------------------------------------------------------------------------
(* Templates and defaults                                                  *)

LEMMA OnlyOneMeets ==
  ASSUME ConfigShape, CallsFit, TemplatesApart, [ConfigNext]_configVars
  PROVE  TemplatesApart'
<1>1. SUFFICES ASSUME "defaults" \notin crossed', NEW d \in ConfigCalls, NEW e \in ConfigCalls,
                      OnTemplate(d)', OnTemplate(e)'
               PROVE  d = e
  BY DEF TemplatesApart
<1>2. "defaults" \notin crossed
  BY <1>1, CrossedStays
<1>3. CASE \A u \in ConfigCalls : OnTemplate(u)' => OnTemplate(u)
  BY <1>1, <1>2, <1>3 DEF TemplatesApart
<1>4. ASSUME NEW c \in ConfigCalls, ConfigStep(c)
      PROVE  \A u \in ConfigCalls : OnTemplate(u)' => OnTemplate(u)
  <2>1. Elsewhere(c) /\ (cpc'[c] # "idle" => OnConfig(c)')
    BY <1>4, CallsFitStep
  <2>2. QED
    BY <2>1 DEF Elsewhere, OnTemplate, OnConfig
<1>5. ASSUME NEW c \in ConfigCalls, TemplateStep(c)
      PROVE  d = e
  <2>1. Elsewhere(c)
    BY <1>5, TemplateCallFits
  <2>2. CASE TemplatesMeet
    <3>1. ~Meeting
      BY <1>1, <2>2 DEF Meeting
    <3>2. cpc[c] \in TemplateLabels
      BY <1>5, <3>1 DEF TemplateStep, TemplateCheck, EditCheck, DisableCheck, InsertTemplate,
         FillTemplate, EditWrite, DropDefaults, DisableWorkflow, TemplateLabels
    <3>3. OnTemplate(c)
      BY <3>2 DEF CallsFit, CallFits, OnTemplate, TemplateLabels
    <3>4. \A u \in ConfigCalls : OnTemplate(u)' => OnTemplate(u)
      BY <2>1, <3>3 DEF Elsewhere, OnTemplate
    <3>5. QED
      BY <1>3, <3>4
  <2>3. CASE ~TemplatesMeet
    <3>1. \A u \in ConfigCalls \ {c} : ~OnTemplate(u)'
      BY <2>1, <2>3 DEF Elsewhere, OnTemplate, TemplatesMeet
    <3>2. QED
      BY <1>1, <3>1
  <2>4. QED
    BY <2>2, <2>3
<1>6. CASE OtherStep \/ UNCHANGED configVars
  <2>1. UNCHANGED <<cpc, ask>>
    BY <1>6, OtherCallsStay DEF CallsStay
  <2>2. QED
    BY <1>3, <2>1 DEF OnTemplate
<1>7. QED
  BY <1>3, <1>4, <1>5, <1>6, ConfigStepKinds

\* A call in the middle of its work on templates is the only one.
LEMMA Alone ==
  ASSUME CallsFit, TemplatesApart, "defaults" \notin crossed,
         NEW c \in ConfigCalls, cpc[c] \in TemplateLabels,
         NEW d \in ConfigCalls, cpc[d] \in TemplateLabels
  PROVE  c = d
BY DEF CallsFit, CallFits, TemplatesApart, OnTemplate, TemplateLabels

DropsDefault(t) == \E c \in ConfigCalls : cpc[c] = "drop" /\ t \in ask[c].drop

\* A step that drops nothing and switches nothing off.
LEMMA NothingOff ==
  ASSUME DefaultsDropped, "defaults" \notin crossed, NEW t \in defaults,
         IsOff(t)' => IsOff(t),
         \A c \in ConfigCalls : cpc[c] = "drop" => cpc'[c] = "drop" /\ ask'[c] = ask[c],
         IsOff(t)'
  PROVE  DropsDefault(t)'
BY DEF DefaultsDropped, DropsDefault

LEMMA DropsStep ==
  ASSUME ConfigShape, CallsFit, TemplatesApart, DefaultsDropped, ConfigEditFits,
         UnmadeFits,          [ConfigNext]_configVars
  PROVE  DefaultsDropped'
<1>1. SUFFICES ASSUME "defaults" \notin crossed', NEW t \in defaults', IsOff(t)'
               PROVE  DropsDefault(t)'
  BY DEF DefaultsDropped, DropsDefault
<1>2. "defaults" \notin crossed
  BY <1>1, CrossedStays
<1>3. ASSUME NEW c \in ConfigCalls, ConfigStep(c)
      PROVE  DropsDefault(t)'
  <2>1. Elsewhere(c)
    BY <1>3, CallsFitStep
  <2>2. UNCHANGED <<template, defaults>>
    BY <1>3 DEF ConfigStep, CreateCheck, UpdateCheck, DeleteCheck, ReadTemplate, CheckWorkflows,
       InsertConfig, Fill, Break, WriteConfig, WriteRefused, templateRows
  <2>3. cpc[c] # "drop"
    <3>1. cpc[c] = "drop" => Break(c)
      BY <1>3 DEF ConfigStep, CreateCheck, UpdateCheck, DeleteCheck, ReadTemplate, CheckWorkflows,
         InsertConfig, Fill, WriteConfig, WriteRefused, CAsk
    <3>2. QED
      BY <1>1, <3>1 DEF Break
  <2>4. \A d \in ConfigCalls : cpc[d] = "drop" => cpc'[d] = "drop" /\ ask'[d] = ask[d]
    BY <2>1, <2>3 DEF Elsewhere
  <2>5. t \in defaults /\ (IsOff(t)' => IsOff(t))
    BY <2>2 DEF IsOff
  <2>6. QED
    BY <1>1, <1>2, <2>4, <2>5, NothingOff
<1>4. ASSUME NEW c \in ConfigCalls, TemplateStep(c), UNCHANGED <<template, defaults>>, cpc[c] # "drop"
      PROVE  DropsDefault(t)'
  <2>1. Elsewhere(c)
    BY <1>4, TemplateCallFits
  <2>2. \A d \in ConfigCalls : cpc[d] = "drop" => cpc'[d] = "drop" /\ ask'[d] = ask[d]
    BY <2>1, <1>4 DEF Elsewhere
  <2>3. t \in defaults /\ (IsOff(t)' => IsOff(t))
    BY <1>4 DEF IsOff
  <2>4. QED
    BY <1>1, <1>2, <2>2, <2>3, NothingOff
<1>5. ASSUME NEW c \in ConfigCalls,
             \/ \E w \in Weightings, d \in BOOLEAN : TemplateCheck(c, w, d)
             \/ \E u \in Templates, w \in Weightings \cup {NoWeights}, d \in BOOLEAN \cup {Nil} :
                  EditCheck(c, u, w, d)
             \/ \E i \in AiWorkflows : DisableCheck(c, i)
      PROVE  UNCHANGED <<template, defaults>> /\ cpc[c] # "drop" /\ TemplateStep(c)
  BY <1>5 DEF TemplateStep, TemplateCheck, EditCheck, DisableCheck, CAsk, templateRows
<1>6. ASSUME NEW c \in ConfigCalls, InsertTemplate(c)
      PROVE  DropsDefault(t)'
  <2>1. PICK u \in unmade :
          template' = [template EXCEPT ![u] = [disabled |-> ask[c].disabled, weights |-> NoWeights]]
    BY <1>6 DEF InsertTemplate
  <2>0. t # u
    BY <1>1, <1>6, <2>1 DEF InsertTemplate, UnmadeFits
  <2>2. t # u /\ template'[t] = template[t]
    BY <1>1, <2>0, <2>1 DEF ConfigShape, IsOff
  <2>3. t \in defaults /\ cpc[c] = "tinsert" /\ TemplateStep(c)
    BY <1>6 DEF InsertTemplate, TemplateStep
  <2>4. Elsewhere(c)
    BY <2>3, TemplateCallFits
  <2>5. \A d \in ConfigCalls : cpc[d] = "drop" => cpc'[d] = "drop" /\ ask'[d] = ask[d]
    BY <2>3, <2>4 DEF Elsewhere
  <2>6. IsOff(t)' => IsOff(t)
    BY <2>2 DEF IsOff
  <2>7. QED
    BY <1>1, <1>2, <2>3, <2>5, <2>6, NothingOff
<1>7. ASSUME NEW c \in ConfigCalls, FillTemplate(c)
      PROVE  DropsDefault(t)'
  <2> DEFINE u == ask[c].template
  <2>1. t \in defaults /\ cpc[c] = "tfill" /\ TemplateStep(c) /\ t \in Templates /\ u \in Templates
    BY <1>7 DEF FillTemplate, TemplateStep, CallsFit, CallFits, ConfigShape
  <2>2. Elsewhere(c)
    BY <2>1, TemplateCallFits
  <2>3. \A d \in ConfigCalls : cpc[d] = "drop" => cpc'[d] = "drop" /\ ask'[d] = ask[d]
    BY <2>1, <2>2 DEF Elsewhere
  <2>4. IsOff(t)' => IsOff(t)
    <3>1. CASE template[u] = Nil \/ t # u
      BY <1>7, <2>1, <3>1 DEF FillTemplate, IsOff, ConfigShape
    <3>2. CASE template[u] # Nil /\ t = u
      <4>1. template'[t] = [template[t] EXCEPT !.weights = Filled(@, ask[c].weights)]
        BY <1>7, <2>1, <3>2 DEF FillTemplate, ConfigShape
      <4>2. template[t] = [disabled |-> template[t].disabled, weights |-> template[t].weights]
        BY <2>1, <3>2 DEF ConfigShape
      <4>3. template'[t].disabled = template[t].disabled
        BY <4>1, <4>2
      <4>4. QED
        BY <3>2, <4>3 DEF IsOff
    <3>3. QED
      BY <3>1, <3>2
  <2>5. QED
    BY <1>1, <1>2, <2>1, <2>3, <2>4, NothingOff
<1>8. ASSUME NEW c \in ConfigCalls, cpc[c] \in {"twrite", "off"}, t \in defaults
      PROVE  ~IsOff(t)
  <2>1. \A d \in ConfigCalls : cpc[d] # "drop"
    BY <1>2, <1>8, Alone DEF TemplateLabels
  <2>2. QED
    BY <1>2, <1>8, <2>1 DEF DefaultsDropped
<1>9. ASSUME NEW c \in ConfigCalls, EditWrite(c)
      PROVE  DropsDefault(t)'
  <2> DEFINE a == ask[c]
             u == a.template
             x == [disabled |-> IF a.disabled = Nil THEN template[u].disabled ELSE a.disabled,
                   weights |-> IF a.weights = NoWeights THEN template[u].weights ELSE Kept(a.weights)]
  <2>1. t \in defaults /\ cpc[c] = "twrite" /\ t \in Templates
    BY <1>9 DEF EditWrite, ConfigShape
  <2>2. u \in Templates /\ a.disabled \in BOOLEAN \cup {Nil}
    BY <2>1 DEF CallsFit, CallFits
  <2>3. ~IsOff(t)
    BY <1>8, <2>1
  <2>4. template' # template /\ t = u
    BY <1>1, <1>9, <2>1, <2>3 DEF EditWrite, IsOff, ConfigShape
  <2>5. template[u] # Nil /\ template' = [template EXCEPT ![u] = x]
    BY <1>9, <2>2, <2>4 DEF EditWrite
  <2>6. template'[t] = x
    BY <2>1, <2>4, <2>5 DEF ConfigShape
  <2>7. x.disabled
    BY <1>1, <2>6 DEF IsOff
  <2>8. a.disabled = TRUE
    <3>1. CASE a.disabled = Nil
      BY <2>3, <2>4, <2>5, <2>7, <3>1 DEF IsOff
    <3>2. CASE a.disabled # Nil
      BY <2>2, <2>7, <3>2
    <3>3. QED
      BY <3>1, <3>2
  <2>9. t \in a.drop
    BY <1>2, <2>1, <2>3, <2>4, <2>5, <2>8 DEF ConfigEditFits
  <2>10. CGoto(c, "drop") /\ ask' = ask
    BY <1>9, <2>5, <2>9 DEF EditWrite
  <2>11. QED
    BY <2>9, <2>10 DEF CGoto, DropsDefault, ConfigShape
<1>10. ASSUME NEW c \in ConfigCalls, DisableWorkflow(c)
       PROVE  DropsDefault(t)'
  <2> DEFINE affected == IF ask[c].disabled THEN {} ELSE With(ask[c].flow)
  <2>1. t \in defaults /\ cpc[c] = "off" /\ t \in Templates
    BY <1>10 DEF DisableWorkflow, ConfigShape
  <2>2. ~IsOff(t)
    BY <1>8, <2>1
  <2>3. /\ template' = [u \in Templates |-> IF u \in affected THEN [template[u] EXCEPT !.disabled = TRUE]
                                            ELSE template[u]]
        /\ IF affected = {} THEN CLeave(c)
           ELSE CGoto(c, "drop") /\ ask' = [ask EXCEPT ![c].drop = affected]
    BY <1>10 DEF DisableWorkflow
  <2> HIDE DEF affected
  <2>4. t \in affected
    BY <1>1, <2>1, <2>2, <2>3 DEF IsOff
  <2>5. CGoto(c, "drop") /\ ask' = [ask EXCEPT ![c].drop = affected]
    BY <2>3, <2>4
  <2>6. ask'[c].drop = affected
    <3>1. CallFits(c)
      BY <2>1 DEF CallsFit
    <3>2. ask[c] = [kind |-> ask[c].kind, template |-> ask[c].template, weights |-> ask[c].weights,
                    id |-> ask[c].id, flow |-> ask[c].flow, disabled |-> ask[c].disabled,
                    drop |-> ask[c].drop]
      BY <3>1 DEF CallFits
    <3>3. ask'[c] = [ask[c] EXCEPT !.drop = affected]
      BY <2>5 DEF ConfigShape
    <3>4. QED
      BY <3>2, <3>3
  <2>7. cpc'[c] = "drop"
    BY <2>5 DEF CGoto, ConfigShape
  <2>8. QED
    BY <2>4, <2>6, <2>7 DEF DropsDefault
<1>11. ASSUME NEW c \in ConfigCalls, DropDefaults(c)
       PROVE  DropsDefault(t)'
  <2>1. /\ t \in defaults /\ t \notin ask[c].drop /\ UNCHANGED template
        /\ TemplateStep(c)
    BY <1>11 DEF DropDefaults, TemplateStep
  <2>2. IsOff(t)
    BY <1>1, <2>1 DEF IsOff
  <2>3. PICK d \in ConfigCalls : cpc[d] = "drop" /\ t \in ask[d].drop
    BY <1>2, <2>1, <2>2 DEF DefaultsDropped
  <2>4. d # c /\ Elsewhere(c)
    BY <2>1, <2>3, TemplateCallFits
  <2>5. QED
    BY <2>3, <2>4 DEF Elsewhere, DropsDefault
<1>12. ASSUME OtherStep \/ UNCHANGED configVars
       PROVE  DropsDefault(t)'
  <2>1. UNCHANGED <<cpc, ask>>
    BY <1>12, OtherCallsStay DEF CallsStay
  <2>2. CASE \E u \in Templates : AddDefault(u)
    <3>1. PICK u \in Templates : AddDefault(u)
      BY <2>2
    <3>2. t # u /\ t \in defaults /\ IsOff(t)
      BY <1>1, <3>1 DEF AddDefault, Usable, IsOff
    <3>3. QED
      BY <1>1, <1>2, <2>1, <3>2, NothingOff
  <2>3. CASE \E u \in Templates : DeleteTemplate(u)
    <3>1. PICK u \in Templates : DeleteTemplate(u)
      BY <2>3
    <3>2. t # u /\ t \in defaults /\ IsOff(t)
      BY <1>1, <3>1 DEF DeleteTemplate, IsOff, ConfigShape
    <3>3. QED
      BY <1>1, <1>2, <2>1, <3>2, NothingOff
  <2>4. CASE UNCHANGED <<template, defaults>>
    <3>1. t \in defaults /\ IsOff(t)
      BY <1>1, <2>4 DEF IsOff
    <3>2. QED
      BY <1>1, <1>2, <2>1, <3>1, NothingOff
  <2>5. QED
    BY <1>12, <2>2, <2>3, <2>4 DEF OtherStep, Submit, QueueRead, QueueWrite, Judge, Complete,
       EnableWorkflow, templateRows, configVars
<1>13. QED
  BY <1>3, <1>4, <1>5, <1>6, <1>7, <1>9, <1>10, <1>11, <1>12, ConfigStepKinds DEF TemplateStep

\* An edit that switches a template off, and is not to drop it, found it off.
EditFit(c) ==
    cpc[c] = "twrite" /\ ask[c].disabled = TRUE =>
        IsOff(ask[c].template) \/ ask[c].template \in ask[c].drop \/ template[ask[c].template] = Nil

LEMMA EditStays ==
  ASSUME ConfigEditFits, "defaults" \notin crossed, NEW c \in ConfigCalls, cpc[c] = "twrite",
         cpc'[c] = cpc[c], ask'[c] = ask[c],
         \/ template'[ask[c].template] = template[ask[c].template]
         \/ template'[ask[c].template] = Nil
  PROVE  EditFit(c)'
BY DEF ConfigEditFits, EditFit, IsOff

LEMMA ConfigEditStep ==
  ASSUME ConfigShape, CallsFit, TemplatesApart, ConfigEditFits, [ConfigNext]_configVars
  PROVE  ConfigEditFits'
<1>1. SUFFICES ASSUME "defaults" \notin crossed', NEW c \in ConfigCalls, cpc'[c] = "twrite"
               PROVE  EditFit(c)'
  BY DEF ConfigEditFits, EditFit
<1>2. "defaults" \notin crossed
  BY <1>1, CrossedStays
<1>3. ASSUME NEW d \in ConfigCalls, ConfigStep(d)
      PROVE  EditFit(c)'
  <2>1. Elsewhere(d) /\ (cpc'[d] # "idle" => OnConfig(d)') /\ CallsFit'
    BY <1>3, CallsFitStep
  <2>2. c # d
    BY <1>1, <2>1 DEF OnConfig, CallsFit, CallFits, TemplateLabels
  <2>3. UNCHANGED template
    BY <1>3 DEF ConfigStep, CreateCheck, UpdateCheck, DeleteCheck, ReadTemplate, CheckWorkflows,
       InsertConfig, Fill, Break, WriteConfig, WriteRefused, templateRows
  <2>4. cpc[c] = "twrite" /\ cpc'[c] = cpc[c] /\ ask'[c] = ask[c]
    BY <1>1, <2>1, <2>2 DEF Elsewhere
  <2>5. QED
    BY <1>2, <2>3, <2>4, EditStays
<1>4. ASSUME NEW d \in ConfigCalls, TemplateStep(d), d # c
      PROVE  EditFit(c)'
  <2>1. Elsewhere(d)
    BY <1>4, TemplateCallFits
  <2>2. cpc[c] = "twrite" /\ cpc'[c] = cpc[c] /\ ask'[c] = ask[c]
    BY <1>1, <1>4, <2>1 DEF Elsewhere
  <2>3. cpc[d] \notin TemplateLabels
    BY <1>2, <1>4, <2>2, Alone DEF TemplateLabels
  <2>4. UNCHANGED template
    BY <1>4, <2>3 DEF TemplateStep, TemplateCheck, EditCheck, DisableCheck, InsertTemplate,
       FillTemplate, EditWrite, DropDefaults, DisableWorkflow, TemplateLabels, templateRows
  <2>5. QED
    BY <1>2, <2>2, <2>4, EditStays
<1>5. ASSUME TemplateStep(c)
      PROVE  EditFit(c)'
  <2>1. \E t \in Templates, w \in Weightings \cup {NoWeights}, d \in BOOLEAN \cup {Nil} :
          EditCheck(c, t, w, d)
    <3>1. \A label : cpc' = [cpc EXCEPT ![c] = label] => label = "twrite"
      BY <1>1 DEF ConfigShape
    <3>2. \A w \in Weightings, d \in BOOLEAN : ~TemplateCheck(c, w, d)
      BY <3>1 DEF TemplateCheck, CGoto
    <3>3. ~InsertTemplate(c) /\ ~FillTemplate(c) /\ ~DropDefaults(c)
      BY <3>1 DEF InsertTemplate, FillTemplate, DropDefaults, CGoto, CLeave
    <3>4. ~EditWrite(c)
      BY <3>1 DEF EditWrite, CGoto, CLeave
    <3>5. ~DisableWorkflow(c) /\ \A i \in AiWorkflows : ~DisableCheck(c, i)
      BY <3>1 DEF DisableWorkflow, DisableCheck, CGoto, CLeave
    <3>6. QED
      BY <1>5, <3>2, <3>3, <3>4, <3>5 DEF TemplateStep
  <2>2. PICK t \in Templates, w \in Weightings \cup {NoWeights}, d \in BOOLEAN \cup {Nil} :
          EditCheck(c, t, w, d)
    BY <2>1
  <2> DEFINE drop == IF Newly(t, d) THEN {t} ELSE {}
  <2>3. /\ template[t] # Nil /\ UNCHANGED template
        /\ ask' = [ask EXCEPT ![c] = [kind |-> "edit", template |-> t, weights |-> w, id |-> 0,
                                      flow |-> Nil, disabled |-> d, drop |-> drop]]
    BY <2>2 DEF EditCheck, templateRows
  <2>4. ask'[c].template = t /\ ask'[c].disabled = d /\ ask'[c].drop = drop
    BY <2>3 DEF ConfigShape
  <2>5. d = TRUE => template[t].disabled \/ t \in drop
    BY DEF Newly
  <2>6. d = TRUE => IsOff(t)' \/ t \in drop
    BY <2>3, <2>5 DEF IsOff
  <2>7. QED
    BY <2>4, <2>6 DEF EditFit, IsOff
<1>6. ASSUME OtherStep \/ UNCHANGED configVars
      PROVE  EditFit(c)'
  <2>1. UNCHANGED <<cpc, ask>>
    BY <1>6, OtherCallsStay DEF CallsStay
  <2>2. cpc[c] = "twrite" /\ cpc'[c] = cpc[c] /\ ask'[c] = ask[c]
    BY <1>1, <2>1
  <2>3. ask[c].template \in Templates
    BY <2>2 DEF CallsFit, CallFits
  <2>4. \/ UNCHANGED template \/ \E t \in Templates : template' = [template EXCEPT ![t] = Nil]
    BY <1>6 DEF OtherStep, Submit, QueueRead, QueueWrite, Judge, Complete, AddDefault, DeleteTemplate,
       EnableWorkflow, templateRows, configVars
  <2>5. \/ template'[ask[c].template] = template[ask[c].template]
        \/ template'[ask[c].template] = Nil
    BY <2>3, <2>4 DEF ConfigShape
  <2>6. QED
    BY <1>2, <2>2, <2>5, EditStays
<1>7. QED
  BY <1>3, <1>4, <1>5, <1>6, ConfigStepKinds

-----------------------------------------------------------------------------
(* Together                                                                *)

LEMMA ConfigShapeParts ==
  ConfigShape <=>
    /\ cpc = [c \in ConfigCalls |-> cpc[c]] /\ ask = [c \in ConfigCalls |-> ask[c]]
    /\ \A c \in ConfigCalls : cpc[c] \in ConfigLabels \cup TemplateLabels \cup {"idle"}
    /\ TemplatesShape /\ unmade \subseteq Templates /\ defaults \subseteq Templates
    /\ ConfigRowShape
BY DEF ConfigShape, TemplatesShape, TemplateFits, ConfigRowShape

LEMMA NamesStay ==
  ASSUME unmade \subseteq Templates, defaults \subseteq Templates, [ConfigNext]_configVars
  PROVE  unmade' \subseteq Templates /\ defaults' \subseteq Templates
<1>1. ASSUME NEW c \in ConfigCalls, ConfigStep(c)
      PROVE  UNCHANGED <<unmade, defaults>>
  BY <1>1 DEF ConfigStep, CreateCheck, UpdateCheck, DeleteCheck, ReadTemplate, CheckWorkflows,
     InsertConfig, Fill, Break, WriteConfig, WriteRefused, templateRows
<1>2. ASSUME NEW c \in ConfigCalls, TemplateStep(c)
      PROVE  unmade' \subseteq Templates /\ defaults' \subseteq Templates
  BY <1>2 DEF TemplateStep, TemplateCheck, InsertTemplate, FillTemplate, EditCheck, EditWrite,
     DropDefaults, DisableCheck, DisableWorkflow, templateRows
<1>3. ASSUME OtherStep \/ UNCHANGED configVars
      PROVE  unmade' \subseteq Templates /\ defaults' \subseteq Templates
  BY <1>3 DEF OtherStep, Submit, QueueRead, QueueWrite, Judge, Complete, AddDefault, EnableWorkflow,
     DeleteTemplate, templateRows, configVars
<1>4. QED
  BY <1>1, <1>2, <1>3, ConfigStepKinds

LEMMA UnmadeStep ==
  ASSUME ConfigShape, CallsFit, UnmadeFits, [ConfigNext]_configVars
  PROVE  UnmadeFits'
<1>1. SUFFICES ASSUME NEW t \in unmade'
               PROVE  template'[t] = Nil /\ t \notin defaults'
  BY DEF UnmadeFits
<1>2. ASSUME NEW c \in ConfigCalls, ConfigStep(c)
      PROVE  UNCHANGED <<unmade, template, defaults>>
  BY <1>2 DEF ConfigStep, CreateCheck, UpdateCheck, DeleteCheck, ReadTemplate, CheckWorkflows,
     InsertConfig, Fill, Break, WriteConfig, WriteRefused, templateRows
<1>3. ASSUME NEW c \in ConfigCalls, InsertTemplate(c)
      PROVE  template'[t] = Nil /\ t \notin defaults'
  <2>1. PICK u \in unmade : \E x : template' = [template EXCEPT ![u] = x] /\ unmade' = unmade \ {u}
    BY <1>3 DEF InsertTemplate
  <2>2. t # u /\ t \in unmade /\ t \in Templates /\ UNCHANGED defaults
    BY <1>1, <1>3, <2>1 DEF InsertTemplate, ConfigShape
  <2>3. template'[t] = template[t]
    BY <2>1, <2>2 DEF ConfigShape
  <2>4. QED
    BY <2>2, <2>3 DEF UnmadeFits
<1>4. ASSUME NEW c \in ConfigCalls, TemplateStep(c), ~InsertTemplate(c)
      PROVE  template'[t] = Nil /\ t \notin defaults'
  <2>1. UNCHANGED unmade /\ \A u \in defaults' : u \in defaults
    BY <1>4 DEF TemplateStep, TemplateCheck, FillTemplate, EditCheck, EditWrite, DropDefaults,
       DisableCheck, DisableWorkflow, templateRows
  <2>2. t \in unmade /\ t \in Templates /\ template[t] = Nil /\ t \notin defaults
    BY <1>1, <2>1 DEF UnmadeFits, ConfigShape
  <2>3. ASSUME FillTemplate(c) \/ EditWrite(c)
        PROVE  template'[t] = Nil
    <3>1. \/ UNCHANGED template
          \/ \E u, x : template[u] # Nil /\ template' = [template EXCEPT ![u] = x]
      BY <2>3 DEF FillTemplate, EditWrite
    <3>2. QED
      BY <2>2, <3>1 DEF ConfigShape
  <2>4. ASSUME DisableWorkflow(c)
        PROVE  template'[t] = Nil
    <3> DEFINE affected == IF ask[c].disabled THEN {} ELSE With(ask[c].flow)
    <3>1. template' = [u \in Templates |-> IF u \in affected THEN [template[u] EXCEPT !.disabled = TRUE]
                                            ELSE template[u]]
      BY <2>4 DEF DisableWorkflow
    <3>2. t \notin affected
      BY <2>2 DEF With
    <3> HIDE DEF affected
    <3>3. QED
      BY <2>2, <3>1, <3>2
  <2>5. FillTemplate(c) \/ EditWrite(c) \/ DisableWorkflow(c) \/ UNCHANGED template
    BY <1>4 DEF TemplateStep, TemplateCheck, EditCheck, DropDefaults, DisableCheck, templateRows
  <2>6. QED
    BY <2>1, <2>2, <2>3, <2>4, <2>5
<1>5. ASSUME OtherStep \/ UNCHANGED configVars
      PROVE  template'[t] = Nil /\ t \notin defaults'
  <2>1. /\ UNCHANGED unmade
        /\ \/ UNCHANGED <<template, defaults>>
           \/ \E u \in Templates : template' = [template EXCEPT ![u] = Nil] /\ UNCHANGED defaults
           \/ \E u \in Templates : template[u] # Nil /\ UNCHANGED template /\ defaults' = defaults \cup {u}
    BY <1>5 DEF OtherStep, Submit, QueueRead, QueueWrite, Judge, Complete, AddDefault, EnableWorkflow,
       DeleteTemplate, Usable, templateRows, configVars
  <2>2. t \in Templates /\ template[t] = Nil /\ t \notin defaults
    BY <1>1, <2>1 DEF UnmadeFits, ConfigShape
  <2>3. QED
    BY <2>1, <2>2 DEF ConfigShape
<1>6. ASSUME UNCHANGED <<unmade, template, defaults>>
      PROVE  template'[t] = Nil /\ t \notin defaults'
  BY <1>1, <1>6 DEF UnmadeFits
<1>7. QED
  BY <1>2, <1>3, <1>4, <1>5, <1>6, ConfigStepKinds

LEMMA CallsStep ==
  ASSUME ConfigShape, CallsFit, [ConfigNext]_configVars
  PROVE  /\ CallsFit'
         /\ cpc' = [d \in ConfigCalls |-> cpc'[d]] /\ ask' = [d \in ConfigCalls |-> ask'[d]]
         /\ \A d \in ConfigCalls : cpc'[d] \in ConfigLabels \cup TemplateLabels \cup {"idle"}
<1>1. ASSUME NEW c \in ConfigCalls, ConfigStep(c) \/ TemplateStep(c)
      PROVE  /\ CallsFit'
             /\ cpc' = [d \in ConfigCalls |-> cpc'[d]] /\ ask' = [d \in ConfigCalls |-> ask'[d]]
             /\ \A d \in ConfigCalls : cpc'[d] \in ConfigLabels \cup TemplateLabels \cup {"idle"}
  <2>1. /\ CallsFit' /\ Elsewhere(c)
        /\ cpc' = [d \in ConfigCalls |-> cpc'[d]] /\ ask' = [d \in ConfigCalls |-> ask'[d]]
        /\ cpc'[c] \in ConfigLabels \cup TemplateLabels \cup {"idle"}
    BY <1>1, CallsFitStep, TemplateCallFits
  <2>2. QED
    BY <2>1 DEF Elsewhere, ConfigShape
<1>2. ASSUME OtherStep \/ UNCHANGED configVars
      PROVE  /\ CallsFit'
             /\ cpc' = [d \in ConfigCalls |-> cpc'[d]] /\ ask' = [d \in ConfigCalls |-> ask'[d]]
             /\ \A d \in ConfigCalls : cpc'[d] \in ConfigLabels \cup TemplateLabels \cup {"idle"}
  <2>1. UNCHANGED <<cpc, ask>>
    BY <1>2, OtherCallsStay DEF CallsStay
  <2>2. CallsFit'
    BY <2>1 DEF CallsFit, CallFits
  <2>3. QED
    BY <2>1, <2>2 DEF ConfigShape
<1>3. QED
  BY <1>1, <1>2, ConfigStepKinds

LEMMA ConfigStepIInv == ConfigIInv /\ [ConfigNext]_configVars => ConfigIInv'
<1>1. SUFFICES ASSUME ConfigIInv, [ConfigNext]_configVars
               PROVE  ConfigIInv'
  OBVIOUS
<1>2. /\ ConfigShape /\ CallsFit /\ WeightsWhole /\ QueuedAlone /\ AwaitedIsQueued
      /\ TemplatesApart /\ DefaultsDropped /\ ConfigEditFits /\ UnmadeFits
      /\ TemplatesShape /\ unmade \subseteq Templates /\ defaults \subseteq Templates
      /\ ConfigRowShape /\ WholeOnce(config, crossed)
  BY <1>1, ConfigShapeParts, WholeOnceIs DEF ConfigIInv
<1>3. TemplatesShape' /\ unmade' \subseteq Templates /\ defaults' \subseteq Templates
  BY <1>1, <1>2, TemplatesStep, NamesStay
<1>4. ConfigRowShape' /\ WholeOnce(config', crossed')
  BY <1>1, <1>2, WeightsStep
<1>5. CallsFit' /\ ConfigShape'
  BY <1>1, <1>2, <1>3, <1>4, CallsStep DEF ConfigShape, TemplatesShape, TemplateFits, ConfigRowShape
<1>6. WeightsWhole'
  BY <1>4 DEF WeightsWhole, WholeOnce, NearWhole
<1>7. QueuedAlone' /\ AwaitedIsQueued'
  BY <1>1, <1>2, QueueStep
<1>8. TemplatesApart' /\ DefaultsDropped' /\ ConfigEditFits'
  BY <1>1, <1>2, OnlyOneMeets, DropsStep, ConfigEditStep
<1>9. UnmadeFits'
  BY <1>1, <1>2, UnmadeStep
<1>10. QED
  BY <1>5, <1>6, <1>7, <1>8, <1>9 DEF ConfigIInv

LEMMA ConfigInitIInv == ASSUME NEW budget, ConfigInit(budget) PROVE ConfigIInv
<1>1. ConfigShape
  BY DEF ConfigInit, ConfigShape
<1>2. CallsFit /\ TemplatesApart /\ DefaultsDropped /\ ConfigEditFits /\ UnmadeFits
  BY DEF ConfigInit, UnmadeFits, CallsFit, TemplatesApart, OnTemplate, DefaultsDropped, ConfigEditFits
<1>3. WeightsWhole /\ QueuedAlone /\ AwaitedIsQueued
  BY DEF ConfigInit, WeightsWhole, QueuedAlone, AwaitedIsQueued
<1>4. QED
  BY <1>1, <1>2, <1>3 DEF ConfigIInv

\* Between calls no default is waiting to be dropped.
LEMMA DefaultsAreUsable == ConfigIInv => DefaultsUsable
<1>1. SUFFICES ASSUME ConfigIInv, "defaults" \notin crossed, ~TemplatesMeet,
                      NEW t \in defaults, template[t] # Nil
               PROVE  ~template[t].disabled
  BY DEF DefaultsUsable
<1>2. \A c \in ConfigCalls : cpc[c] # "drop"
  BY <1>1 DEF ConfigIInv, CallsFit, CallFits, TemplatesMeet, TemplateLabels
<1>3. ~IsOff(t)
  BY <1>1, <1>2 DEF ConfigIInv, DefaultsDropped
<1>4. QED
  BY <1>1, <1>3 DEF IsOff

\* A config that runs were queued from is not changed any more, its weights are a
\* whole but for what the columns round, and no default of the challenge platform is a
\* disabled template, for any workflows, weightings, templates and calls in flight.
THEOREM ConfigsAreServing == ConfigSpec => []ConfigsServe
<1>1. (\E budget \in [ConfigBudget -> Nat] : ConfigInit(budget)) => ConfigIInv
  BY ConfigInitIInv
<1>2. ConfigIInv => ConfigsServe
  BY DefaultsAreUsable DEF ConfigIInv, ConfigsServe
<1>3. QED
  BY <1>1, <1>2, ConfigStepIInv, PTL DEF ConfigSpec

=============================================================================

