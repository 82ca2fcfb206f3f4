--------------------------- MODULE ChallengePhases ---------------------------
(***************************************************************************)
(* A challenge as ChallengeApiService reads it from the challenge          *)
(* database: its status, its phases and the members its whitelist shuts    *)
(* out.  The challenge platform moves them (external); review-api derives  *)
(* from them whether a phase is open, and by that what a member may do.    *)
(*                                                                         *)
(* Dates are read against the clock only, so a phase keeps what they tell: *)
(* whether it has an actual start, an actual end, and whether now is       *)
(* between its scheduled start and end.                                    *)
(***************************************************************************)
EXTENDS Naturals, FiniteSets

CONSTANTS
    Phases,      \* names of the phases, in the order they run: 1..N
    Users,       \* who calls review-api
    Machines,    \* the users with a machine token
    Overrun,     \* phases that may be scheduled before an earlier one is over
    Parallel,    \* phases that start while an earlier one is open
    MaxBars      \* bound: members removed from the whitelist

ASSUME PhasesAssumption == Phases \subseteq Nat
ASSUME UsersAssumption == Machines \subseteq Users
ASSUME BarsAssumption == MaxBars \in Nat /\ Overrun \cup Parallel \subseteq Phases

VARIABLES
    phase,       \* phases of the challenge
    challenge,   \* status of the challenge
    barred       \* members a whitelist of the challenge shuts out

challengeVars == <<phase, challenge, barred>>

PhaseRow == [isOpen : BOOLEAN, started : BOOLEAN, ended : BOOLEAN, due : BOOLEAN]

ChallengeTypeOK ==
    /\ phase \in [Phases -> PhaseRow]
    /\ challenge \in {"ACTIVE", "COMPLETED", "CANCELLED"}
    /\ barred \in SUBSET Users

\* Phase n is open, those before it are over.
ChallengeInit(n) ==
    /\ phase = [p \in Phases |->
                  [isOpen |-> p = n, started |-> p <= n, ended |-> p < n, due |-> p = n]]
    /\ challenge = "ACTIVE"
    /\ barred = {}

-----------------------------------------------------------------------------
(* What review-api derives.                                                *)

\* An actual start without an actual end outlives the schedule; without an
\* actual start the schedule alone decides.
PhaseWindowOpen(p) ==
    /\ phase[p].started \/ phase[p].due
    /\ ~phase[p].ended

\* The flag of any of the phases first, then their windows.
IsPhaseOpen(names) ==
    \/ \E p \in names : phase[p].isOpen
    \/ \E p \in names : PhaseWindowOpen(p)

\* hasChallengePhaseCompleted
PhaseCompleted(p) == ~phase[p].isOpen /\ phase[p].ended

\* Machine tokens bypass the whitelist.
WhitelistAllows(u) == u \in Machines \/ u \notin barred

-----------------------------------------------------------------------------
(* The challenge platform.                                                 *)

Before(p) == {q \in Phases : q < p}

\* The scheduled window of a phase begins, or ends, while an earlier one overruns.
Schedule(p) ==
    /\ p \in Overrun
    /\ ~phase[p].started
    /\ \E q \in Before(p) : phase[q].isOpen
    /\ phase' = [phase EXCEPT ![p].due = ~@]
    /\ UNCHANGED <<challenge, barred>>

StartPhase(p) ==
    /\ challenge = "ACTIVE"
    /\ ~phase[p].started
    /\ \A q \in Before(p) : phase[q].ended \/ (p \in Parallel /\ phase[q].started)
    /\ phase' = [phase EXCEPT ![p].isOpen = TRUE, ![p].started = TRUE, ![p].due = TRUE]
    /\ UNCHANGED <<challenge, barred>>

EndPhase(p) ==
    /\ phase[p].isOpen
    /\ phase' = [phase EXCEPT ![p].isOpen = FALSE, ![p].ended = TRUE]
    /\ UNCHANGED <<challenge, barred>>

EndChallenge ==
    /\ challenge = "ACTIVE"
    /\ \A p \in Phases : ~phase[p].isOpen
    /\ \E p \in Phases : phase[p].ended
    /\ challenge' = IF \A p \in Phases : phase[p].ended THEN "COMPLETED" ELSE "CANCELLED"
    /\ UNCHANGED <<phase, barred>>

Bar(u) ==
    /\ Cardinality(barred) < MaxBars /\ u \notin barred
    /\ barred' = barred \cup {u}
    /\ UNCHANGED <<phase, challenge>>

ChallengeNext ==
    \/ \E p \in Phases : Schedule(p) \/ StartPhase(p) \/ EndPhase(p)
    \/ EndChallenge
    \/ \E u \in Users \ Machines : Bar(u)

=============================================================================
