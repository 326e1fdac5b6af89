-------------------------- MODULE BackupScheduler --------------------------
(***************************************************************************)
(* scripts/backup-scheduler.sh on top of the queue: the background loop of   *)
(* each scheduler replica (claim, execute through the Docker action client,  *)
(* record the outcome), the cron entries beside it, the portal that admits   *)
(* jobs and an operator who reconciles what is left in running.              *)
(*                                                                           *)
(* The loop runs under "set -e": a failing claim is caught and retried, a    *)
(* failing finish or mark-unknown ends the loop while crond stays up.        *)
(* The clock stands still here: the rate window is the queue's own subject.  *)
(***************************************************************************)
EXTENDS BackupQueue

CONSTANTS
    Replicas,    \* scheduler containers, each with one queue loop
    Portals,     \* Control Center request handlers
    Operators    \* shells that run backup-queue-control.mjs by hand

ASSUME RolesAssumption ==
    /\ Procs = Replicas \cup Portals \cup Operators
    /\ Replicas \cap (Portals \cup Operators) = {}
    /\ Portals \cap Operators = {}

VARIABLES
    loop,     \* where the shell loop of a replica stands
    work,     \* the job it has claimed
    cron,     \* whether a cron entry of the replica is executing
    started   \* history: how often the executor was started for a job

svars == <<vars, loop, work, cron, started>>

-----------------------------------------------------------------------------
LoopStates == {"poll", "claiming", "claimed", "executing", "settling", "dead", "down"}

\* The exit codes of docker-action-client.mjs that the shell tells apart.
Outcomes == {"done", "failed", "unknown"}

SchedulerInit ==
    /\ Init
    /\ loop = [r \in Replicas |-> "poll"]
    /\ work = [r \in Replicas |-> AnyJob]
    /\ cron = [r \in Replicas |-> FALSE]
    /\ started = [j \in Jobs |-> 0]

\* Replicas that hold a claimed job.
Busy == {r \in Replicas : loop[r] \in {"claimed", "executing", "settling"}}

-----------------------------------------------------------------------------
(* The queue loop                                                            *)

LoopClaim(r) ==
    /\ loop[r] = "poll"
    /\ RequestClaim(r)
    /\ loop' = [loop EXCEPT ![r] = "claiming"]
    /\ UNCHANGED <<work, cron, started>>

\* queue_control claim exits: a path on stdout, nothing, or an error that the
\* loop answers with a sleep and a retry.
LoopClaimReturns(r) ==
    /\ loop[r] = "claiming"
    /\ \/ /\ ReleaseLock(r)
          /\ IF res[r] = "ok"
             THEN /\ loop' = [loop EXCEPT ![r] = "claimed"]
                  /\ work' = [work EXCEPT ![r] = call[r].job]
             ELSE /\ loop' = [loop EXCEPT ![r] = "poll"]
                  /\ UNCHANGED work
       \/ /\ LockTimeout(r)
          /\ loop' = [loop EXCEPT ![r] = "poll"]
          /\ UNCHANGED work
    /\ UNCHANGED <<cron, started>>

\* node docker-action-client.mjs execute-backup-job
LoopExecute(r) ==
    /\ loop[r] = "claimed"
    /\ loop' = [loop EXCEPT ![r] = "executing"]
    /\ started' = [started EXCEPT ![work[r]] = @ + 1]
    /\ UNCHANGED <<vars, work, cron>>

\* Mutant: a failed execution goes back to polling without a finish.
LoopSettleForgets(r) ==
    /\ loop[r] = "executing"
    /\ \/ /\ Request(r, "finish", work[r], "done", AnyLease)
          /\ loop' = [loop EXCEPT ![r] = "settling"]
       \/ /\ UNCHANGED vars
          /\ loop' = [loop EXCEPT ![r] = "poll"]
    /\ UNCHANGED <<work, cron, started>>

\* The client exits; exit 74 keeps the job in running, 0 and the rest finish it.
LoopSettle(r) ==
    /\ loop[r] = "executing"
    /\ \E outcome \in Outcomes :
        IF outcome = "unknown"
        THEN Request(r, "unknown", work[r], "done", AnyLease)
        ELSE Request(r, "finish", work[r], outcome, AnyLease)
    /\ loop' = [loop EXCEPT ![r] = "settling"]
    /\ UNCHANGED <<work, cron, started>>

\* Mutant: a failed finish leaves the loop in no state it knows.
LoopSettledOutside(r) ==
    /\ loop[r] = "settling"
    /\ ReleaseLock(r) \/ LockTimeout(r)
    /\ loop' = [loop EXCEPT ![r] = res[r]]
    /\ UNCHANGED <<work, cron, started>>

\* A failure of finish or mark-unknown is not caught: set -e ends the loop.
LoopSettled(r) ==
    /\ loop[r] = "settling"
    /\ \/ /\ ReleaseLock(r)
          /\ loop' = [loop EXCEPT ![r] = IF res[r] = "ok" THEN "poll" ELSE "dead"]
       \/ /\ LockTimeout(r)
          /\ loop' = [loop EXCEPT ![r] = "dead"]
    /\ UNCHANGED <<work, cron, started>>

\* The steps of backup-queue-control.mjs between the lock and its release.
LoopInside(r) ==
    /\ loop[r] \in {"claiming", "settling"}
    /\ TakeLock(r) \/ LockedStep(r)
    /\ UNCHANGED <<loop, work, cron, started>>

LoopIOFailure(r) ==
    /\ loop[r] \in {"claiming", "settling"}
    /\ IOFailure(r)
    /\ UNCHANGED <<loop, work, cron, started>>

\* The node child is killed inside a queue call; the shell sees a failure.
ChildKilled(r) ==
    /\ loop[r] \in {"claiming", "settling"}
    /\ Crash(r)
    /\ loop' = [loop EXCEPT ![r] = IF @ = "claiming" THEN "poll" ELSE "dead"]
    /\ UNCHANGED <<work, cron, started>>

\* The container stops, in or outside a queue call; its cron entries stop too.
ContainerStops(r) ==
    /\ loop[r] # "down"
    /\ IF pc[r] = "idle" THEN UNCHANGED vars ELSE Crash(r)
    /\ loop' = [loop EXCEPT ![r] = "down"]
    /\ cron' = [cron EXCEPT ![r] = FALSE]
    /\ UNCHANGED <<work, started>>

\* Mutant: a starting container puts what it finds in running back in the queue.
ContainerRequeues(r) ==
    /\ loop[r] = "down"
    /\ loop' = [loop EXCEPT ![r] = "poll"]
    /\ dir' = [dir EXCEPT !["queued"] = Active, !["running"] = {}]
    /\ doc' = [j \in Jobs |-> IF j \in dir["running"] THEN NoDoc ELSE doc[j]]
    /\ UNCHANGED <<ledger, leases, lock, pc, call, res, clock, admissions>>
    /\ UNCHANGED <<work, cron, started>>

\* The container starts again: a fresh loop that remembers nothing.
ContainerStarts(r) ==
    /\ loop[r] = "down"
    /\ loop' = [loop EXCEPT ![r] = "poll"]
    /\ UNCHANGED <<vars, work, cron, started>>

-----------------------------------------------------------------------------
(* Cron                                                                      *)

\* "backup-scheduler.sh --run <operation>" ends in exec node docker-action-client:
\* no queue call, hence no scheduler lease, comes before it.
CronStarts(r) ==
    /\ loop[r] # "down"
    /\ ~cron[r]
    /\ cron' = [cron EXCEPT ![r] = TRUE]
    /\ UNCHANGED <<vars, loop, work, started>>

CronEnds(r) ==
    /\ cron[r]
    /\ cron' = [cron EXCEPT ![r] = FALSE]
    /\ UNCHANGED <<vars, loop, work, started>>

-----------------------------------------------------------------------------
(* The portal and the operator                                               *)

\* enqueueBackupJob draws a fresh random identifier for every request.
PortalAdmits(p) ==
    /\ \E j \in Jobs :
        /\ \A a \in admissions : a.job # j
        /\ \A q \in Procs : call[q].op = "admit" => call[q].job # j
        /\ Request(p, "admit", j, "done", AnyLease)
    /\ UNCHANGED <<loop, work, cron, started>>

\* Manual reconciliation of a job that no live replica works on.
OperatorReconciles(p) ==
    /\ \E j \in dir["running"], st \in TerminalStatuses :
        /\ \A r \in Busy : work[r] # j
        /\ \A r \in Replicas : loop[r] # "claiming"
        /\ Request(p, "finish", j, st, AnyLease)
    /\ UNCHANGED <<loop, work, cron, started>>

OtherInside(p) ==
    /\ TakeLock(p) \/ LockTimeout(p) \/ ReleaseLock(p) \/ LockedStep(p)
    /\ UNCHANGED <<loop, work, cron, started>>
OtherIOFailure(p) == IOFailure(p) /\ UNCHANGED <<loop, work, cron, started>>
OtherKilled(p) == Crash(p) /\ UNCHANGED <<loop, work, cron, started>>
ClearLock == OperatorClearsLock /\ UNCHANGED <<loop, work, cron, started>>

-----------------------------------------------------------------------------
LoopStep(r) ==
    \/ LoopClaim(r) \/ LoopClaimReturns(r) \/ LoopExecute(r)
    \/ LoopSettle(r) \/ LoopSettled(r) \/ LoopInside(r)

Faults ==
    \/ \E r \in Replicas : \/ ChildKilled(r) \/ LoopIOFailure(r)
                           \/ ContainerStops(r) \/ ContainerStarts(r)
    \/ \E p \in Portals \cup Operators : OtherKilled(p) \/ OtherIOFailure(p)
    \/ ClearLock

Healthy ==
    \/ \E r \in Replicas : LoopStep(r)
    \/ \E p \in Portals : PortalAdmits(p) \/ OtherInside(p)

SchedulerNext ==
    \/ Healthy
    \/ Faults
    \/ \E r \in Replicas : CronStarts(r) \/ CronEnds(r)
    \/ \E p \in Operators : OperatorReconciles(p) \/ OtherInside(p)

SchedulerSpec == SchedulerInit /\ [][SchedulerNext]_svars

\* No process dies and no write fails; the loop and the portal calls that are
\* under way keep taking steps. Cron does not matter here.
HealthySpec ==
    /\ SchedulerInit
    /\ [][Healthy]_svars
    /\ \A r \in Replicas : WF_svars(LoopStep(r))
    /\ \A p \in Portals : WF_svars(OtherInside(p))

-----------------------------------------------------------------------------
(* Properties                                                                *)

\* The values the loops of backup-scheduler.sh and its cron entries take.
SchedulerTypeOK ==
    /\ TypeOK
    /\ loop \in [Replicas -> LoopStates]
    /\ work \in [Replicas -> Jobs]
    /\ cron \in [Replicas -> BOOLEAN]
    /\ started \in [Jobs -> Nat]

\* "A queued file is moved to running before the executor sees it" and never
\* comes back: no crash, restart, failed claim or dead loop makes the executor
\* run a job twice.
ExecutedAtMostOnce == \A j \in Jobs : started[j] =< 1

\* The reasons for which the loop leaves queued work alone for good: an outcome
\* nobody knows holds the slot, a loop has ended without recording its job, or
\* all of them have ended.
FailClosed ==
    \/ \E j \in dir["running"] : doc[j].unknown
    \/ \E r \in Replicas : loop[r] = "dead" /\ work[r] \in dir["running"]
    \/ \A r \in Replicas : loop[r] = "dead"

\* Without crashes and I/O errors every admitted job is taken up and settled,
\* unless the queue has stopped in one of its fail-closed states.
QueueDrains ==
    \A j \in Jobs : (j \in Active) ~> (j \notin Active \/ FailClosed)

\* "the scheduler records the terminal state": a claimed job gets an outcome.
ClaimedJobIsRecorded ==
    \A r \in Replicas : \A j \in Jobs :
        (loop[r] = "executing" /\ work[r] = j)
            ~> (j \notin dir["running"] \/ doc[j].unknown)
=============================================================================
