---------------------------- MODULE Applications ----------------------------
(***************************************************************************)
(* Review opportunities of one challenge, the applications of members to   *)
(* them, and what accepting or rejecting one does: the reviewer's resource *)
(* in the resource database, the event that tells autopilot of it, the     *)
(* status of the application and the mail to the member.  Three databases  *)
(* and two services take part and no transaction spans them.               *)
(*                                                                         *)
(* An application is known by its member and its role, which fixes the     *)
(* opportunity it is for (unique keys).  Nothing deletes one.              *)
(***************************************************************************)
EXTENDS Naturals, FiniteSets

CONSTANTS
    Members,
    AppRoles,        \* roles applied for
    Types,           \* types of opportunity, one opportunity each
    TypeOf,          \* ReviewApplicationRoleOpportunityTypeMap
    ResourceRoleOf,  \* the resource role an application is given
    Regular,         \* the role and type of a regular review
    Iterative,       \* resource role of an iterative reviewer
    AppCalls,        \* calls of administrators in flight
    NoApp

ASSUME ApplicationsAssumption ==
    /\ TypeOf \in [AppRoles -> Types]
    /\ Regular \subseteq AppRoles

Apps == Members \X AppRoles

AppBudget == {"applications", "decisions", "failures", "configs"}

VARIABLES
    posted,        \* types with an opportunity
    application,   \* status of each application
    iterative,     \* the challenge opens iterative reviews to members
    resource,      \* rows of the resource database
    told,          \* resources whose creation was published
    mail,          \* the last mail about an application
    apc, job,      \* a call: where it is, what it is about
    appLeft,       \* what is left of each bound
    approvedTwice, \* auxiliary: members with two approvals at a time
    mixed          \* auxiliary: applications two calls met on, or a mail failed about

appData == <<posted, application, iterative, resource, told, mail>>
appVars == <<appData, apc, job, appLeft, approvedTwice, mixed>>

ResourceRoles == {ResourceRoleOf[r] : r \in AppRoles} \cup {Iterative}

\* What a call is about: the applications, and those it decides and writes of.
Job == [kind : {"approve", "reject", "rejectAll"}, scope : SUBSET Apps, apps : SUBSET Apps,
        role : ResourceRoles \cup {NoApp}, id : Nat]

AppTypeOK ==
    /\ posted \subseteq Types /\ iterative \in BOOLEAN
    /\ application \in [Apps -> {"none", "PENDING", "APPROVED", "REJECTED"}]
    /\ resource \subseteq [id : Nat, member : Members, role : ResourceRoles]
    /\ told \subseteq {x.id : x \in resource}
    /\ mail \in [Apps -> {"none", "APPROVED", "REJECTED"}]
    /\ apc \in [AppCalls -> {"idle", "look", "make", "publish", "approve", "sweep", "mail"}]
    /\ job \in [AppCalls -> Job \cup {NoApp}]
    /\ appLeft \in [AppBudget -> Nat]
    /\ approvedTwice \subseteq Members /\ mixed \subseteq Apps

AppInit(budget) ==
    /\ posted = {} /\ iterative = FALSE
    /\ application = [a \in Apps |-> "none"]
    /\ resource = {} /\ told = {}
    /\ mail = [a \in Apps |-> "none"]
    /\ apc = [c \in AppCalls |-> "idle"]
    /\ job = [c \in AppCalls |-> NoApp]
    /\ appLeft = budget
    /\ approvedTwice = {} /\ mixed = {}

-----------------------------------------------------------------------------
Existing(a) == application[a] # "none"

OfType(t) == {a \in Apps : TypeOf[a[2]] = t}

Working == {c \in AppCalls : apc[c] # "idle"}

Busy(a) == \E c \in Working : a \in job[c].scope

AppSpend(b) == appLeft[b] > 0 /\ appLeft' = [appLeft EXCEPT ![b] = @ - 1]

AppGoto(c, label) == apc' = [apc EXCEPT ![c] = label]

AppLeave(c) == AppGoto(c, "idle") /\ job' = [job EXCEPT ![c] = NoApp]

Decide(c, label, about) ==
    /\ apc[c] = "idle" /\ AppSpend("decisions")
    /\ AppGoto(c, label)
    /\ job' = [job EXCEPT ![c] = about]
    /\ mixed' = mixed \cup {a \in about.scope : Busy(a)}

-----------------------------------------------------------------------------
(* Opportunities and applications.                                         *)

\* Of two that post one at the same time the unique key refuses one.
Post(t) ==
    /\ t \notin posted
    /\ posted' = posted \cup {t}
    /\ UNCHANGED <<application, iterative, resource, told, mail, apc, job, appLeft,
                   approvedTwice, mixed>>

\* The opportunity must exist; neither its status nor its positions count.
Apply(m, r) ==
    /\ TypeOf[r] \in posted /\ ~Existing(<<m, r>>)
    /\ AppSpend("applications")
    /\ application' = [application EXCEPT ![<<m, r>>] = "PENDING"]
    /\ mixed' = IF Busy(<<m, r>>) THEN mixed \cup {<<m, r>>} ELSE mixed
    /\ UNCHANGED <<posted, iterative, resource, told, mail, apc, job, approvedTwice>>

\* The challenge's reviewer configuration changes (external).
Reconfigure ==
    /\ AppSpend("configs")
    /\ iterative' = ~iterative
    /\ UNCHANGED <<posted, application, resource, told, mail, apc, job, approvedTwice, mixed>>

-----------------------------------------------------------------------------
(* approve                                                                 *)

\* getResourceRoleNameForApproval
ApprovalRole(a) == IF a[2] \in Regular /\ iterative THEN Iterative ELSE ResourceRoleOf[a[2]]

\* No status refuses it: a rejected application may be approved.
ApproveStart(c, a) ==
    /\ Existing(a)
    /\ Decide(c, "look", [kind |-> "approve", scope |-> {a}, apps |-> {a},
                          role |-> ApprovalRole(a), id |-> 0])
    /\ approvedTwice' = IF \E d \in Working : job[d].kind = "approve"
                                              /\ \E b \in job[d].apps : b[1] = a[1]
                        THEN approvedTwice \cup {a[1]} ELSE approvedTwice
    /\ UNCHANGED appData

Member(c) == (CHOOSE a \in job[c].apps : TRUE)[1]

\* The resources found for the member in the role.
HeldOnceApproved(c) ==
    {x \in resource : /\ x.member = Member(c) /\ x.role = job[c].role
                      /\ \E a \in job[c].apps : application[a] = "APPROVED"}

Held(c) == {x \in resource : x.member = Member(c) /\ x.role = job[c].role}

\* A resource that was there is announced again.
AfterLookNewOnly(found) == IF found THEN "approve" ELSE "make"

AfterLook(found) == IF found THEN "publish" ELSE "make"

Look(c) ==
    /\ apc[c] = "look"
    /\ AppGoto(c, AfterLook(Held(c) # {}))
    /\ \/ Held(c) = {} /\ UNCHANGED job
       \/ \E x \in Held(c) : job' = [job EXCEPT ![c].id = x.id]
    /\ UNCHANGED <<appData, appLeft, approvedTwice, mixed>>

Make(c) ==
    LET id == Cardinality(resource) + 1 IN
    /\ apc[c] = "make"
    /\ resource' = resource \cup {[id |-> id, member |-> Member(c), role |-> job[c].role]}
    /\ AppGoto(c, "publish")
    /\ job' = [job EXCEPT ![c].id = id]
    /\ UNCHANGED <<posted, application, iterative, told, mail, appLeft, approvedTwice, mixed>>

Publish(c) ==
    /\ apc[c] = "publish"
    /\ told' = told \cup {job[c].id}
    /\ AppGoto(c, "approve")
    /\ UNCHANGED <<posted, application, iterative, resource, mail, job, appLeft, approvedTwice,
                   mixed>>

SetApproved(c) ==
    /\ apc[c] = "approve"
    /\ application' = [a \in Apps |-> IF a \in job[c].apps THEN "APPROVED" ELSE application[a]]
    /\ AppGoto(c, "mail")
    /\ UNCHANGED <<posted, iterative, resource, told, mail, job, appLeft, approvedTwice, mixed>>

\* A call to a database or to the bus fails, or the instance stops: the event
\* may have been sent.  The administrator may call again.
ApproveFails(c) ==
    /\ apc[c] \in {"look", "make", "publish", "approve", "sweep"}
    /\ AppSpend("failures")
    /\ told' \in {told} \cup {told \cup {job[c].id} : x \in {d \in {c} : apc[d] = "publish"}}
    /\ AppLeave(c)
    /\ UNCHANGED <<posted, application, iterative, resource, mail, approvedTwice, mixed>>

-----------------------------------------------------------------------------
(* reject and rejectAllPending                                             *)

\* Whatever its status; the resource of an approved one stays.
Reject(c, a) ==
    /\ Existing(a)
    /\ Decide(c, "mail", [kind |-> "reject", scope |-> {a}, apps |-> {a}, role |-> NoApp, id |-> 0])
    /\ application' = [application EXCEPT ![a] = "REJECTED"]
    /\ UNCHANGED <<posted, iterative, resource, told, mail, approvedTwice>>

PendingOf(t) == {a \in OfType(t) : application[a] = "PENDING"}

RejectAllRead(c, t) ==
    /\ PendingOf(t) # {}
    /\ Decide(c, "sweep", [kind |-> "rejectAll", scope |-> OfType(t), apps |-> PendingOf(t),
                           role |-> NoApp, id |-> 0])
    /\ UNCHANGED <<appData, approvedTwice>>

\* Those pending now, be they among those read or not.
Swept(c) == {a \in job[c].scope : application[a] = "PENDING"}

Sweep(c) ==
    /\ apc[c] = "sweep"
    /\ application' = [a \in Apps |-> IF a \in Swept(c) THEN "REJECTED" ELSE application[a]]
    /\ AppGoto(c, "mail")
    /\ UNCHANGED <<posted, iterative, resource, told, mail, job, appLeft, approvedTwice, mixed>>

\* sendEmails, to the applicants that were read
Mail(c) ==
    LET status == IF job[c].kind = "approve" THEN "APPROVED" ELSE "REJECTED" IN
    /\ apc[c] = "mail"
    /\ \/ /\ mail' = [a \in Apps |-> IF a \in job[c].apps THEN status ELSE mail[a]]
          /\ UNCHANGED <<appLeft, mixed>>
       \/ /\ AppSpend("failures") /\ mixed' = mixed \cup job[c].apps
          /\ UNCHANGED mail
    /\ AppLeave(c)
    /\ UNCHANGED <<posted, application, iterative, resource, told, approvedTwice>>

-----------------------------------------------------------------------------
AppNext ==
    \/ \E t \in Types : Post(t)
    \/ \E m \in Members, r \in AppRoles : Apply(m, r)
    \/ Reconfigure
    \/ \E c \in AppCalls :
         \/ \E a \in Apps : ApproveStart(c, a) \/ Reject(c, a)
         \/ \E t \in Types : RejectAllRead(c, t)
         \/ Look(c) \/ Make(c) \/ Publish(c) \/ SetApproved(c) \/ ApproveFails(c)
         \/ Sweep(c) \/ Mail(c)

AppSpec == (\E budget \in [AppBudget -> Nat] : AppInit(budget)) /\ [][AppNext]_appVars

-----------------------------------------------------------------------------
(* Properties                                                              *)

\* An application becomes approved only when its member has a resource that
\* autopilot has been told of: a call that failed between the two is made up
\* for by the next, whatever the order.
ApprovedIsAnnounced ==
    \A a \in Apps : application[a] = "APPROVED" =>
        \E x \in resource : /\ x.member = a[1] /\ x.id \in told
                            /\ x.role \in {Iterative, ResourceRoleOf[a[2]]}

\* A member holds a role once, through failed and repeated approvals and those
\* of two applications for one resource role, unless two approvals of the
\* member met (the table has no unique key).
OneResourceEach ==
    \A x, y \in resource : x.member = y.member /\ x.role = y.role =>
        x = y \/ x.member \in approvedTwice

\* Between calls the last mail a member had tells how the application stands,
\* unless two calls met on it or a mail failed.
MailTellsStatus ==
    \A a \in Apps \ mixed : ~Busy(a) =>
        mail[a] = IF application[a] \in {"none", "PENDING"} THEN "none" ELSE application[a]

\* What was decided about applications was carried out and told.
DecisionsFollow == ApprovedIsAnnounced /\ MailTellsStatus

=============================================================================
