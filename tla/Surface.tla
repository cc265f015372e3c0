------------------------------ MODULE Surface ------------------------------
(***************************************************************************)
(* The exposure surface of the Signer: the origins on which ceremonies may *)
(* run, the administrator's desired exposure mode and what the Broker      *)
(* reports to be in effect.                                                *)
(*                                                                         *)
(* The status is one durable row; every operation reads it, computes the   *)
(* next one and commits it under custody_completion_barrier, so each is    *)
(* one action.  The localhost surface is always active; the remote one is  *)
(* absent until the relay's allocation is installed, and is then the only  *)
(* thing the modes and the reports switch.                                 *)
(***************************************************************************)
EXTENDS Integers, FiniteSets

CONSTANTS
    Reports,        \* what a Broker may report: SurfaceEffectiveReports without
                    \* their revision
    MaxRevision     \* bound on desired_revision

ASSUME SurfaceAssumption ==
    /\ Reports \subseteq [tls : BOOLEAN, routing : BOOLEAN, closed : BOOLEAN]
    /\ MaxRevision \in Nat

VARIABLES
    status,     \* SurfaceStatus, as stored
    proven      \* auxiliary: the revision at which the Broker has shown this
                \* process that the remote surface is up, or Unproven

surfaceVars == <<status, proven>>

Modes == {"remote", "localhost"}
Surfaces == {"local", "remote"}
Unproven == -1

Statuses ==
    [lifecycle : {"absent", "disabled", "active"},  \* of the remote surface
     desired : Modes, desiredRevision : 0 .. MaxRevision,
     effective : Modes, effectiveRevision : 0 .. MaxRevision,
     observed : BOOLEAN]        \* remote_tls_ready or remote_routing_ready

SurfaceTypeOK ==
    /\ status \in Statuses
    /\ proven \in {Unproven} \union (0 .. MaxRevision)

\* default_surface_status.
SurfaceInit ==
    /\ status = [lifecycle |-> "absent", desired |-> "remote", desiredRevision |-> 0,
                 effective |-> "localhost", effectiveRevision |-> 0, observed |-> FALSE]
    /\ proven = Unproven

\* require_surface: may a ceremony run, or a credential be enrolled, on s?
Eligible(s) == s = "remote" => status.lifecycle = "active"

\* install_remote_surface, of a verified allocation.  A repetition changes
\* nothing.
InstallRemote ==
    /\ status.lifecycle = "absent"
    /\ status' = [status EXCEPT !.lifecycle = "disabled"]
    /\ UNCHANGED proven

Closed(st) == IF st.lifecycle = "absent" THEN "absent" ELSE "disabled"

\* Does a report show that the remote surface is up?
Up(report) == report.tls /\ report.routing /\ ~ report.closed

\* The status after an accepted report.
Reported(report) ==
    LET up == status.desired = "remote" /\ Up(report) IN
    [status EXCEPT !.lifecycle = IF up THEN "active" ELSE Closed(status),
                   !.effective = IF up THEN "remote" ELSE "localhost",
                   !.effectiveRevision = status.desiredRevision,
                   !.observed = report.tls \/ report.routing]

\* A report is about the revision the Broker had read; one about another
\* revision is refused.
CurrentRevision(revision) == revision = status.desiredRevision

\* report_effective, of a report that may have been delayed or repeated.  The
\* surface comes up only where it is installed, and the localhost mode only
\* takes effect once the Broker has closed the remote side.
ReportEffective(revision, report) ==
    /\ CurrentRevision(revision)
    /\ status.desired = "remote" /\ Up(report) => status.lifecycle # "absent"
    /\ status.desired = "localhost" => report.closed
    /\ status' = Reported(report)
    /\ proven' = IF report.tls /\ report.routing /\ ~ report.closed THEN revision ELSE Unproven

\* The revision after a change of the desired mode.
SameRevision(st) == st.desiredRevision
NextRevision(st) == st.desiredRevision + 1

\* set_exposure_mode, of a mode that is not the desired one; mayClose is the
\* preflight over the wallets.
SetExposureMode(mode, mayClose) ==
    /\ status.desired # mode
    /\ status.desiredRevision < MaxRevision
    /\ IF mode = "localhost" THEN mayClose ELSE status.lifecycle # "absent"
    /\ status' = [status EXCEPT
                    !.lifecycle = IF mode = "localhost" THEN Closed(status) ELSE @,
                    !.desired = mode,
                    !.desiredRevision = NextRevision(status),
                    !.observed = FALSE]
    /\ UNCHANGED proven

\* What a new process finds: SignerCeremonyService fences the stored remote
\* surface by reporting it closed itself.
Unfenced == status
Fenced ==
    IF status.effective = "remote" \/ status.observed
    THEN Reported([tls |-> FALSE, routing |-> FALSE, closed |-> TRUE])
    ELSE status

Restarted ==
    /\ status' = Fenced
    /\ proven' = Unproven

-----------------------------------------------------------------------------
(* Properties *)

\* A ceremony runs on the remote surface only while the administrator wants it
\* and the Broker has shown this very process, at this revision, that its
\* listener and its route are up: no restart, late report or earlier period of
\* remote access leaves the surface open.
RemoteIsProven ==
    status.lifecycle = "active" =>
        status.desired = "remote" /\ proven = status.desiredRevision

\* What `bloom-signer admin` waits for (the effective mode is the desired one,
\* at the desired revision) is true of the surface when it sees it, whatever
\* commands, reports and restarts came between.
ConfirmedModeIsReal ==
    status.effective = status.desired
      /\ status.effectiveRevision = status.desiredRevision
    => (status.lifecycle = "active" <=> status.desired = "remote")
=============================================================================
