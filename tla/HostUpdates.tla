---------------------------- MODULE HostUpdates ----------------------------
(* The maintenance of the operating system: the operations of                 *)
(* platform_runtime_updates.py (host_job, host_reboot_job, the two            *)
(* reconciliations, initialize), the worker of platform_host_updates.py that  *)
(* runs in a unit of its own, and the reboot of the host.  The bridge is one  *)
(* executor thread and request handlers; it may end at any step, and the      *)
(* worker goes on without it.                                                 *)
EXTENDS Naturals, Sequences, FiniteSets

CONSTANTS
    Ops,             \* operations
    MaxHostFaults,   \* lost pipes, failed calls and writes, ends of the bridge,
                     \* reboots that nobody here asked for
    NoOp             \* no operation

ASSUME HostAssumption == NoOp \notin Ops /\ MaxHostFaults \in Nat

VARIABLES
    ops,        \* per operation: its kind and its public record
    execution,  \* per operation: dispatched, verifiedResult and its deadline
    reboot,     \* per operation: the intent and its acknowledgement
    worker,     \* per operation: its spool record, its unit, what APT did
    waiting,    \* the queue of the executor
    runner,     \* its thread
    poll,       \* a reconciliation of a request: what it has read
    bridge,     \* the process: whether it serves, and a child it gave up waiting for
    boot,       \* the boot identity
    needed,     \* the host asks for a reboot
    timer,      \* operations with a scheduled reboot
    hostFaults

hostVars == <<ops, execution, reboot, worker, waiting, runner, poll, bridge, boot, needed, timer, hostFaults>>
machine == <<boot, needed, timer>>

HostKinds == {"upgrade", "check", "reboot"}
NoRecord == [kind |-> "none", status |-> "none", recovery |-> FALSE]
Idle == [op |-> NoOp, at |-> "idle", intent |-> "none"]
Serving == [up |-> TRUE, child |-> NoOp]
NoPoll == [op |-> NoOp, rec |-> NoRecord, local |-> FALSE, spool |-> "none", alive |-> "no"]

HostInit ==
    /\ ops = [o \in Ops |-> NoRecord]
    /\ execution = [o \in Ops |-> [dispatched |-> FALSE, verified |-> FALSE, overdue |-> FALSE]]
    /\ reboot = [o \in Ops |-> [ack |-> FALSE, intent |-> "none", before |-> 0]]
    /\ worker = [o \in Ops |-> [spool |-> "none", alive |-> FALSE, apt |-> "untouched"]]
    /\ waiting = <<>> /\ runner = Idle /\ poll = NoPoll
    /\ bridge = Serving /\ boot = 0 /\ needed \in BOOLEAN /\ timer = {}
    /\ hostFaults = 0

HostFault == hostFaults < MaxHostFaults /\ hostFaults' = hostFaults + 1

----------------------------------------------------------------------------
(* Requests, under GATE                                                       *)

Live(o) == ops[o].status \in {"queued", "running"}
\* Mutant: an operation that asks for recovery does not close the host.
ClosedWhileLive == \E o \in Ops : Live(o)

Closed == \E o \in Ops : Live(o) \/ ops[o].recovery
PackageManagerBusy == \E o \in Ops : worker[o].apt = "changing"

\* active_maintenance: a run that took too long was left alone, and until it
\* ends this process runs no other command.
ActiveMaintenance == bridge.child # NoOp /\ worker[bridge.child].alive

\* submit_host; prepare_reboot asks the package manager and the host first.
SubmitHost(o, kind) ==
    /\ bridge.up /\ ~Closed /\ ops[o] = NoRecord
    /\ kind = "reboot" => needed /\ ~PackageManagerBusy /\ ~ActiveMaintenance
    /\ ops' = [ops EXCEPT ![o] = [kind |-> kind, status |-> "queued", recovery |-> FALSE]]
    /\ IF kind = "reboot"
       THEN /\ reboot' = [reboot EXCEPT ![o] = [ack |-> FALSE, intent |-> "queued", before |-> boot]]
            /\ UNCHANGED waiting
       ELSE waiting' = Append(waiting, o) /\ UNCHANGED reboot
    /\ UNCHANGED <<execution, worker, runner, poll, bridge, machine, hostFaults>>

\* acknowledge_host_reboot, after the response or after the one of a retry.
Acknowledge(o) ==
    /\ bridge.up /\ ops[o].kind = "reboot" /\ Live(o)
    /\ ~reboot[o].ack /\ reboot[o].intent = "queued"
    /\ reboot' = [reboot EXCEPT ![o].ack = TRUE]
    /\ waiting' = Append(waiting, o)
    /\ UNCHANGED <<ops, execution, worker, runner, poll, bridge, machine, hostFaults>>

----------------------------------------------------------------------------
(* The outcomes of an upgrade and of a check                                  *)

SetStatus(o, status, recovery) == ops' = [ops EXCEPT ![o].status = status, ![o].recovery = recovery]

\* finish_host_upgrade: the result of the worker is kept, then the services
\* that ran before must be up within a minute.
FinishUpgrade(o) ==
    /\ execution' = [execution EXCEPT ![o].verified = TRUE]
    /\ \/ SetStatus(o, "succeeded", FALSE)
       \/ ~execution[o].overdue /\ SetStatus(o, "running", ops[o].recovery)
       \/ execution[o].overdue /\ SetStatus(o, "failed", TRUE)

\* The minute of the verification passes.
Overdue(o) ==
    /\ execution[o].verified /\ ~execution[o].overdue /\ Live(o)
    /\ execution' = [execution EXCEPT ![o].overdue = TRUE]
    /\ UNCHANGED <<ops, reboot, worker, waiting, runner, poll, bridge, machine, hostFaults>>

\* reconcile_host_jobs skips what has succeeded and what is over.
Reconcilable(rec) ==
    /\ rec.kind \in {"upgrade", "check"} /\ rec.status # "succeeded"
    /\ rec.status \in {"queued", "running"} \/ rec.recovery

\* What it leaves alone once it has read the spool and the unit: an operation
\* of this process whose worker has not written its first record, or that
\* cannot be read.
Undecided(o, local, spool, alive) ==
    /\ local
    /\ \/ alive = "error"
       \/ spool = "none" /\ alive # "yes" /\ ~(ops[o].kind = "upgrade" /\ execution[o].verified)

\* Mutant: an upgrade without a verified outcome asks for no recovery.
ReconcileForgives(o, rec, spool, alive) ==
    IF alive # "error" /\ rec.kind = "upgrade" /\ (execution[o].verified \/ spool = "succeeded")
    THEN FinishUpgrade(o)
    ELSE /\ UNCHANGED execution
         /\ IF spool = "succeeded" THEN SetStatus(o, "succeeded", FALSE)
            ELSE IF alive \in {"yes", "unknown"} THEN SetStatus(o, "running", rec.recovery)
            ELSE SetStatus(o, "interrupted", FALSE)

\* What it decides from what was read before.
Reconcile(o, rec, spool, alive) ==
    IF alive # "error" /\ rec.kind = "upgrade" /\ (execution[o].verified \/ spool = "succeeded")
    THEN FinishUpgrade(o)
    ELSE /\ UNCHANGED execution
         /\ CASE alive = "error" -> SetStatus(o, "interrupted", rec.kind = "upgrade")
              [] alive # "error" /\ spool = "succeeded" -> SetStatus(o, "succeeded", FALSE)
              [] alive = "yes" /\ spool # "succeeded" -> SetStatus(o, "running", rec.recovery)
              [] alive = "unknown" /\ spool = "running" -> SetStatus(o, "running", TRUE)
              [] OTHER -> SetStatus(o, IF spool = "failed" THEN "failed" ELSE "interrupted", rec.kind = "upgrade")

\* worker_alive: systemd's answer, unknown while a package manager runs or when
\* it cannot be asked.
Alive(o) ==
    IF ActiveMaintenance THEN "unknown"
    ELSE IF worker[o].alive THEN "yes" ELSE IF PackageManagerBusy THEN "unknown" ELSE "no"

Read(o, alive) ==
    [op |-> o, rec |-> ops[o], local |-> runner.op = o, spool |-> worker[o].spool, alive |-> alive]

\* A request reads the record, the spool and the unit; a moment later it
\* decides.  The start of the bridge does the same before it serves requests.
PollRead(o) ==
    /\ bridge.up /\ poll = NoPoll /\ Reconcilable(ops[o])
    /\ \/ poll' = Read(o, Alive(o)) /\ UNCHANGED hostFaults
       \/ HostFault /\ \E alive \in {"unknown", "error"} : poll' = Read(o, alive)
    /\ UNCHANGED <<ops, execution, reboot, worker, waiting, runner, bridge, machine>>

PollDecide ==
    /\ poll # NoPoll /\ poll' = NoPoll
    /\ IF Undecided(poll.op, poll.local, poll.spool, poll.alive) THEN UNCHANGED <<ops, execution>>
       ELSE Reconcile(poll.op, poll.rec, poll.spool, poll.alive)
    /\ UNCHANGED <<reboot, worker, waiting, runner, bridge, machine, hostFaults>>

RebootOpen(o) ==
    /\ ops[o].kind = "reboot" /\ ops[o].status \in {"queued", "running", "failed"}
    /\ reboot[o].ack \/ boot # reboot[o].before

\* reconcile_host_reboots: acknowledged intents and changed boots.
PollReboot(o) ==
    /\ bridge.up /\ RebootOpen(o)
    /\ \/ /\ boot = reboot[o].before
          /\ reboot' = [reboot EXCEPT ![o].intent = "waiting"] /\ SetStatus(o, "running", FALSE)
       \/ /\ boot # reboot[o].before
          /\ reboot' = [reboot EXCEPT ![o].intent = "succeeded"] /\ SetStatus(o, "succeeded", FALSE)
       \/ /\ boot # reboot[o].before
          /\ reboot' = [reboot EXCEPT ![o].intent = "verifying"] /\ SetStatus(o, "running", FALSE)
    /\ UNCHANGED <<execution, worker, waiting, runner, poll, bridge, machine, hostFaults>>

\* Its except clause: the intent could not be saved.
PollRebootFails(o) ==
    /\ bridge.up /\ RebootOpen(o)
    /\ HostFault /\ SetStatus(o, "running", ops[o].recovery)
    /\ UNCHANGED <<execution, reboot, worker, waiting, runner, poll, bridge, machine>>

----------------------------------------------------------------------------
(* The executor: host_job                                                     *)

Goes(step) == runner' = [runner EXCEPT !.at = step]
Doing(step) == runner.at = step
Op == runner.op

\* The next job; host_reboot_job reads the intent first.
Begin ==
    /\ bridge.up /\ Doing("idle") /\ waiting # <<>>
    /\ runner' = [op |-> Head(waiting), at |-> "lock", intent |-> reboot[Head(waiting)].intent]
    /\ waiting' = Tail(waiting)
    /\ UNCHANGED <<ops, execution, reboot, worker, poll, bridge, machine, hostFaults>>

\* wait_operation_lock: the host may stay busy, or the plan expire.
WaitLock ==
    /\ Doing("lock") /\ ops[Op].kind # "reboot"
    /\ \/ ops' = [ops EXCEPT ![Op].status = "running"] /\ Goes("dispatch")
       \/ UNCHANGED ops /\ Goes("except")
    /\ UNCHANGED <<execution, reboot, worker, waiting, poll, bridge, machine, hostFaults>>

\* The services that run are recorded with the mark, before the worker starts.
Dispatch ==
    /\ Doing("dispatch")
    /\ \/ execution' = [execution EXCEPT ![Op].dispatched = TRUE] /\ Goes("run") /\ UNCHANGED hostFaults
       \/ HostFault /\ Goes("except") /\ UNCHANGED execution
    /\ UNCHANGED <<ops, reboot, worker, waiting, poll, bridge, machine>>

\* run_transient; when it fails the unit may have been started.
RunTransient ==
    /\ Doing("run")
    /\ \/ ActiveMaintenance /\ Goes("except") /\ UNCHANGED <<worker, hostFaults>>
       \/ /\ ~ActiveMaintenance /\ UNCHANGED hostFaults
          /\ worker' = [worker EXCEPT ![Op].alive = TRUE] /\ Goes("wait")
       \/ /\ ~ActiveMaintenance /\ HostFault /\ Goes("except")
          /\ worker' \in {worker, [worker EXCEPT ![Op].alive = TRUE]}
    /\ UNCHANGED <<ops, execution, reboot, waiting, poll, bridge, machine>>

\* The result comes through the pipe, or the pipe ends without one: the worker
\* failed, or the pipe or the time was lost while it goes on.
Result ==
    /\ Doing("wait")
    /\ \/ worker[Op].spool = "succeeded" /\ Goes("finish") /\ UNCHANGED <<bridge, hostFaults>>
       \/ /\ ~worker[Op].alive /\ worker[Op].spool # "succeeded"
          /\ Goes("except") /\ UNCHANGED <<bridge, hostFaults>>
       \/ HostFault /\ Goes("except") /\ bridge' \in {bridge, [bridge EXCEPT !.child = Op]}
    /\ UNCHANGED <<ops, execution, reboot, worker, waiting, poll, machine>>

JobFailed == SetStatus(Op, "failed", ops[Op].kind = "upgrade" /\ execution[Op].dispatched)

\* The end of the job raises, and the reconciliation of the except clause too;
\* the result of the worker may have been kept.
JobRaises ==
    /\ HostFault /\ JobFailed
    /\ \/ UNCHANGED execution
       \/ /\ ops[Op].kind = "upgrade" /\ worker[Op].spool = "succeeded"
          /\ execution' = [execution EXCEPT ![Op].verified = TRUE]

JobFinishes ==
    /\ IF ops[Op].kind = "upgrade" THEN FinishUpgrade(Op) ELSE SetStatus(Op, "succeeded", FALSE) /\ UNCHANGED execution
    /\ UNCHANGED hostFaults

FinishJob ==
    /\ Doing("finish") /\ runner' = Idle
    /\ JobFinishes \/ JobRaises
    /\ UNCHANGED <<reboot, worker, waiting, poll, bridge, machine>>

\* The except clause: a reconciliation of its own, and the record of a failure
\* when that decides nothing.
JobExcept ==
    /\ IF Reconcilable(ops[Op]) /\ ~Undecided(Op, TRUE, worker[Op].spool, Alive(Op))
       THEN Reconcile(Op, ops[Op], worker[Op].spool, Alive(Op))
       ELSE JobFailed /\ UNCHANGED execution
    /\ UNCHANGED hostFaults

ExceptJob ==
    /\ Doing("except") /\ runner' = Idle
    /\ JobExcept \/ JobRaises
    /\ UNCHANGED <<reboot, worker, waiting, poll, bridge, machine>>

----------------------------------------------------------------------------
(* The executor: host_reboot_job                                              *)

WaitRebootLock ==
    /\ Doing("lock") /\ ops[Op].kind = "reboot"
    /\ \/ Goes("schedule") /\ UNCHANGED ops
       \/ runner' = Idle /\ SetStatus(Op, "failed", FALSE)
    /\ UNCHANGED <<execution, reboot, worker, waiting, poll, bridge, machine, hostFaults>>

RebootNotConfirmed == runner' = Idle /\ SetStatus(Op, "failed", TRUE)
Schedulable ==
    /\ needed /\ ~PackageManagerBusy /\ ~ActiveMaintenance
    /\ runner.intent = "queued" /\ boot = reboot[Op].before

\* schedule_reboot, with the intent that was read first; when systemd-run fails
\* the timer may have been set.
ScheduleReboot ==
    /\ Doing("schedule")
    /\ \/ /\ Schedulable /\ timer' = timer \cup {Op} /\ Goes("save")
          /\ UNCHANGED <<ops, hostFaults>>
       \/ ~Schedulable /\ RebootNotConfirmed /\ UNCHANGED <<timer, hostFaults>>
       \/ /\ Schedulable /\ HostFault /\ RebootNotConfirmed
          /\ timer' \in {timer, timer \cup {Op}}
    /\ UNCHANGED <<execution, reboot, worker, waiting, poll, bridge, boot, needed>>

SaveReboot ==
    /\ Doing("save") /\ runner' = Idle
    /\ reboot' = [reboot EXCEPT ![Op].intent = "waiting"]
    /\ ops' = [ops EXCEPT ![Op].status = "running"]
    /\ UNCHANGED <<execution, worker, waiting, poll, bridge, machine, hostFaults>>

----------------------------------------------------------------------------
(* The worker: _execute_worker                                                *)

\* A durable record comes before anything else.
Spool(o) ==
    /\ worker[o].alive /\ worker[o].spool = "none"
    /\ \/ worker' = [worker EXCEPT ![o].spool = "running"] /\ UNCHANGED hostFaults
       \/ HostFault /\ worker' = [worker EXCEPT ![o].alive = FALSE]
    /\ UNCHANGED <<ops, execution, reboot, waiting, runner, poll, bridge, machine>>

\* apply checks the plan against the host, then APT changes packages.
StartApt(o) ==
    /\ worker[o].alive /\ worker[o].spool = "running" /\ ops[o].kind = "upgrade"
    /\ worker[o].apt = "untouched"
    /\ worker' = [worker EXCEPT ![o].apt = "changing"]
    /\ UNCHANGED <<ops, execution, reboot, waiting, runner, poll, bridge, machine, hostFaults>>

\* The packages, the marks, the removals and the audit are as approved.
EndApt(o) ==
    /\ worker[o].alive /\ worker[o].apt = "changing"
    /\ worker' = [worker EXCEPT ![o].apt = "done"]
    /\ needed' \in {needed, TRUE}
    /\ UNCHANGED <<ops, execution, reboot, waiting, runner, poll, bridge, boot, timer, hostFaults>>

\* The result is durable before it is sent.
Succeed(o) ==
    /\ worker[o].alive /\ worker[o].spool = "running"
    /\ worker[o].apt = (IF ops[o].kind = "upgrade" THEN "done" ELSE "untouched")
    /\ worker' = [worker EXCEPT ![o].spool = "succeeded"]
    /\ UNCHANGED <<ops, execution, reboot, waiting, runner, poll, bridge, machine, hostFaults>>

\* A refused plan, a failed or half-done change, a check that fails: the record
\* says so, or cannot be written either.
Fail(o) ==
    /\ worker[o].alive /\ worker[o].spool = "running"
    /\ \/ worker' = [worker EXCEPT ![o].spool = "failed", ![o].alive = FALSE,
                                   ![o].apt = IF @ = "untouched" THEN @ ELSE "broken"]
          /\ UNCHANGED hostFaults
       \/ /\ HostFault
          /\ worker' = [worker EXCEPT ![o].alive = FALSE,
                                     ![o].apt = IF @ = "untouched" THEN @ ELSE "broken"]
    /\ UNCHANGED <<ops, execution, reboot, waiting, runner, poll, bridge, machine>>

Exit(o) ==
    /\ worker[o].alive /\ worker[o].spool = "succeeded"
    /\ worker' = [worker EXCEPT ![o].alive = FALSE]
    /\ UNCHANGED <<ops, execution, reboot, waiting, runner, poll, bridge, machine, hostFaults>>

----------------------------------------------------------------------------
(* The bridge ends and starts; the host reboots                               *)

Lose == waiting' = <<>> /\ runner' = Idle /\ poll' = NoPoll /\ bridge' = [Serving EXCEPT !.up = FALSE]

EndBridge ==
    /\ bridge.up /\ HostFault /\ Lose
    /\ UNCHANGED <<ops, execution, reboot, worker, machine>>

\* initialize leaves the operations of the host to their reconciliations.
StartBridge ==
    /\ ~bridge.up /\ bridge' = Serving
    /\ UNCHANGED <<ops, execution, reboot, worker, waiting, runner, poll, machine, hostFaults>>

Killed(w) == [w EXCEPT !.alive = FALSE, !.apt = IF @ = "changing" THEN "broken" ELSE @]

Boot ==
    /\ boot' = boot + 1 /\ needed' = FALSE /\ timer' = {} /\ Lose
    /\ worker' = [o \in Ops |-> Killed(worker[o])]
    /\ UNCHANGED <<ops, execution, reboot>>

\* The scheduled reboot comes after five seconds.
TimerFires == timer # {} /\ Boot /\ UNCHANGED hostFaults

\* An administrator or a power loss.
OtherReboot == HostFault /\ Boot

HostNext ==
    \/ \E o \in Ops : \/ \E kind \in HostKinds : SubmitHost(o, kind)
                       \/ Acknowledge(o) \/ Overdue(o) \/ PollRead(o) \/ PollReboot(o) \/ PollRebootFails(o)
                       \/ Spool(o) \/ StartApt(o) \/ EndApt(o) \/ Succeed(o) \/ Fail(o) \/ Exit(o)
    \/ PollDecide
    \/ Begin \/ WaitLock \/ Dispatch \/ RunTransient \/ Result \/ FinishJob \/ ExceptJob
    \/ WaitRebootLock \/ ScheduleReboot \/ SaveReboot
    \/ EndBridge \/ StartBridge \/ TimerFires \/ OtherReboot

HostSpec == HostInit /\ [][HostNext]_hostVars

----------------------------------------------------------------------------
(* Properties                                                                 *)

\* The values the variables of the host maintenance take.
HostTypeOK ==
    /\ \A o \in Ops :
          /\ ops[o].kind \in HostKinds \cup {"none"}
          /\ ops[o].status \in {"none", "queued", "running", "succeeded", "failed", "interrupted"}
          /\ ops[o].recovery \in BOOLEAN
          /\ reboot[o].intent \in {"none", "queued", "waiting", "verifying", "succeeded"}
          /\ worker[o].spool \in {"none", "running", "succeeded", "failed"}
          /\ worker[o].apt \in {"untouched", "changing", "done", "broken"}
    /\ waiting \in Seq(Ops) /\ runner.op \in Ops \cup {NoOp} /\ poll.op \in Ops \cup {NoOp}
    /\ timer \subseteq Ops /\ bridge.child \in Ops \cup {NoOp}

\* reconcile_host_jobs and host_job: while APT changes packages, and after a
\* change that did not end well, the operation is running or asks for recovery,
\* so that no other maintenance is accepted; it succeeds only when the change
\* was completed.
UpgradeAccounted ==
    \A o \in Ops :
        /\ worker[o].apt \in {"changing", "broken"} => Live(o) \/ ops[o].recovery
        /\ ops[o].kind = "upgrade" /\ ops[o].status = "succeeded" => worker[o].apt = "done"

\* prepare_reboot, schedule_reboot and GATE: no reboot is pending while APT
\* changes packages.
RebootSparesPackages == timer # {} => ~PackageManagerBusy

\* Expected to fail.  RUNTIME-UPDATES.md: a reboot is "journaled before
\* acknowledgement, and scheduled after the HTTP response": an operation that
\* says it waits for the reboot has one scheduled, or is about to.
WaitingIsScheduled ==
    \A o \in Ops :
        ops[o].kind = "reboot" /\ ops[o].status = "running" /\ boot = reboot[o].before =>
            o \in timer \/ runner.op = o \/ \E i \in DOMAIN waiting : waiting[i] = o
=============================================================================
