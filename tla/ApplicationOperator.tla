------------------------ MODULE ApplicationOperator ------------------------
(* The native clone operator of a host,                                       *)
(* deployment/host/libexec/platform-application-operator.py: a daemon that    *)
(* keeps clone jobs in SQLite, copies one application at a time on a worker   *)
(* thread, and serves clone, activate and cancel from one thread per request. *)
(*                                                                            *)
(* clone and activate hold self.lock; cancel holds nothing, and every UPDATE  *)
(* of a row is unconditional.  A step of the model is one SQLite statement or *)
(* one external command with its effect.  External commands (docker, nginx,   *)
(* the copy, the dump) may fail at any time; SQLite statements succeed.       *)
(* status, plan and list change nothing and are left out.                     *)
EXTENDS Naturals, Sequences, FiniteSets

CONSTANTS
    Jobs,       \* request identifiers
    Targets,    \* clone destinations
    Threads,    \* request threads of the ThreadingMixIn server
    Worker,     \* the only thread of self.pool
    Frontend,   \* jobs whose source has a static companion
    NoJob, NoTarget

ASSUME AgentsDistinct == Worker \notin Threads
ASSUME FrontendJobs == Frontend \subseteq Jobs
ASSUME NoneOutside == NoJob \notin Jobs /\ NoTarget \notin Targets

VARIABLES
    daemon,     \* down, starting (Operator.__init__) or up (serve_forever)
    boot,       \* jobs __init__ has yet to stop
    row,        \* the jobs table: status, target and cancel of each request
    dirs,       \* destinations that exist under cloneRoot
    up,         \* the containers of a job that run
    conf,       \* jobs whose nginx route file exists
    queue,      \* jobs submitted to self.pool and not taken
    proc,       \* what each thread is doing
    executed,   \* history: how often execute has begun on a job
    swallowed,  \* history: jobs with a clean-up error the code ignored
    orphaned    \* history: jobs a crash took from a thread with their row not
                \* in flight, which the next start does not look at

disk == <<row, dirs, up, conf>>
vars == <<daemon, boot, disk, queue, proc, executed, swallowed, orphaned>>

Agents == Threads \cup {Worker}
Parts == {"app", "web", "deps"}       \* the app, its companion, SQL and Redis
InFlight == {"queued", "running", "activating"}
Statuses == InFlight \cup {"none", "staged", "available", "failed",
                           "activation_failed", "cancelled", "interrupted"}
StoppedByCancel == {"staged", "available", "activation_failed"}

\* The statements of the try blocks of execute and of activate: whatever
\* raises there ends in the except clause.
BuildSteps == {"check", "mkdir", "deps", "late", "create"}
ActivateSteps == {"check", "mark", "start", "health", "startWeb", "healthWeb",
                  "recheck", "publish", "reload", "confirm", "finish"}
StopSteps == {"stopApp", "stopWeb", "stopDeps"}
UnpublishSteps == {"look", "unlink", "unreload"}

Idle == [op |-> "none", job |-> NoJob, pc |-> "idle", seen |-> "none"]

Init ==
    /\ daemon = "down"
    /\ boot = {}
    /\ row = [j \in Jobs |-> [status |-> "none", target |-> NoTarget,
                              cancel |-> FALSE]]
    /\ dirs = {}
    /\ up = [j \in Jobs |-> {}]
    /\ conf = {}
    /\ queue = <<>>
    /\ proc = [a \in Agents |-> Idle]
    /\ executed = [j \in Jobs |-> 0]
    /\ swallowed = {}
    /\ orphaned = {}

-----------------------------------------------------------------------------
(* Helpers.                                                                   *)

At(a, op, pc) == proc[a].op = op /\ proc[a].pc = pc
Goto(a, pc) == proc' = [proc EXCEPT ![a].pc = pc]
Return(a) == proc' = [proc EXCEPT ![a] = Idle]
SetStatus(j, s) == row' = [row EXCEPT ![j].status = s]

\* self.lock is held exactly while an activation runs; clone takes it for one
\* transaction.
LockFree == \A t \in Threads : proc[t].op # "activate"

\* check(rid): raises Cancelled when the row carries the cancel mark.
Checked(a, ok, cancelled) ==
    Goto(a, IF row[proc[a].job].cancel THEN cancelled ELSE ok)

-----------------------------------------------------------------------------
(* The daemon.                                                                *)

\* A crash or a kill of the daemon: its threads, its lock and its pool are
\* gone; the table, the directories, the containers and the routes stay.
Crash ==
    /\ daemon # "down"
    /\ daemon' = "down"
    /\ boot' = {}
    /\ queue' = <<>>
    /\ proc' = [a \in Agents |-> Idle]
    /\ orphaned' = orphaned \cup
          {j \in Jobs : /\ j \in boot \/ \E a \in Agents : proc[a].job = j
                        /\ row[j].status \notin InFlight}
    /\ UNCHANGED <<disk, executed, swallowed>>

\* The rows of the jobs in flight change to what restart says of them.
BootRows(restart) ==
    row' = [j \in Jobs |-> IF row[j].status \in InFlight
                           THEN [row[j] EXCEPT !.status = restart[@]]
                           ELSE row[j]]

\* Mutant: work that had been running is submitted again.
BootReplays ==
    /\ daemon = "down"
    /\ daemon' = "up"
    /\ BootRows([s \in InFlight |-> "queued"])
    /\ queue' = SelectSeq(<<CHOOSE j \in Jobs : TRUE>>,
                          LAMBDA j : row[j].status \in InFlight)
    /\ UNCHANGED <<boot, dirs, up, conf, proc, executed, swallowed, orphaned>>

\* Operator.__init__: one transaction selects the jobs in flight and marks
\* them interrupted.
BootMark ==
    /\ daemon = "down"
    /\ daemon' = "starting"
    /\ boot' = {j \in Jobs : row[j].status \in InFlight}
    /\ BootRows([s \in InFlight |-> "interrupted"])
    /\ UNCHANGED <<dirs, up, conf, queue, proc, executed, swallowed, orphaned>>

\* stop_clones for one selected job; a failing docker command is ignored.
BootStop ==
    /\ daemon = "starting"
    /\ \E j \in boot : \E left \in SUBSET up[j] :
          /\ boot' = boot \ {j}
          /\ up' = [up EXCEPT ![j] = left]
          /\ swallowed' = IF left = {} THEN swallowed ELSE swallowed \cup {j}
    /\ UNCHANGED <<daemon, row, dirs, conf, queue, proc, executed, orphaned>>

\* serve_forever.
BootServe ==
    /\ daemon = "starting"
    /\ boot = {}
    /\ daemon' = "up"
    /\ UNCHANGED <<boot, disk, queue, proc, executed, swallowed, orphaned>>

-----------------------------------------------------------------------------
(* stop_clones and unpublish, run by a thread on its job.                     *)

StopPart == [stopApp |-> "app", stopWeb |-> "web", stopDeps |-> "deps"]

\* Where a thread continues after stop_clones.
AfterStop(op) == IF op = "execute" THEN "record" ELSE "look"

\* One container of stop_clones: inspect it, check its label, stop it; an
\* error is ignored.
Stop(a) ==
    LET p == proc[a]
    IN /\ p.pc \in StopSteps
       /\ \/ /\ up' = [up EXCEPT ![p.job] = @ \ {StopPart[p.pc]}]
             /\ UNCHANGED swallowed
          \/ /\ StopPart[p.pc] \in up[p.job]
             /\ swallowed' = swallowed \cup {p.job}
             /\ UNCHANGED up
       /\ Goto(a, CASE p.pc = "stopApp" -> "stopWeb"
                    [] p.pc = "stopWeb" -> "stopDeps"
                    [] OTHER -> AfterStop(p.op))
       /\ UNCHANGED <<daemon, boot, row, dirs, conf, queue, executed, orphaned>>

\* unpublish: no route file, nothing to do.
UnpublishLook(t) ==
    /\ proc[t].pc = "look"
    /\ Goto(t, IF proc[t].job \in conf THEN "unlink" ELSE "settle")
    /\ UNCHANGED <<daemon, boot, disk, queue, executed, swallowed, orphaned>>

\* unpublish: the file is removed; another thread may have removed it since,
\* and then unlink raises.
UnpublishUnlink(t) ==
    /\ proc[t].pc = "unlink"
    /\ proc[t].job \in conf
    /\ conf' = conf \ {proc[t].job}
    /\ Goto(t, "unreload")
    /\ UNCHANGED <<daemon, boot, row, dirs, up, queue, executed, swallowed,
                   orphaned>>

\* unpublish: nginx -t and nginx -s reload.
UnpublishReload(t) ==
    /\ proc[t].pc = "unreload"
    /\ Goto(t, "settle")
    /\ UNCHANGED <<daemon, boot, disk, queue, executed, swallowed, orphaned>>

\* unpublish raises (the ingress identity, a missing file, nginx): cancel
\* reports the error and leaves the row, activate goes on to its last UPDATE.
UnpublishFails(t) ==
    /\ proc[t].pc \in {"unlink", "unreload"}
    /\ \/ /\ proc[t].op = "cancel"
          /\ Return(t)
          /\ UNCHANGED swallowed
       \/ /\ proc[t].op = "activate"
          /\ Goto(t, "settle")
          /\ swallowed' = swallowed \cup {proc[t].job}
    /\ UNCHANGED <<daemon, boot, disk, queue, executed, orphaned>>

-----------------------------------------------------------------------------
(* clone: a request for a new job, under self.lock in one transaction.  A     *)
(* known identifier answers with its row, or is rejected for another target.  *)

Unreserved(tgt) ==
    /\ tgt \notin dirs
    /\ \A j \in Jobs : row[j].target # tgt

Clone(j, tgt) ==
    /\ daemon = "up"
    /\ LockFree
    /\ row[j].status = "none"
    /\ Unreserved(tgt)
    /\ row' = [row EXCEPT ![j] = [status |-> "queued", target |-> tgt,
                                  cancel |-> FALSE]]
    /\ queue' = Append(queue, j)
    /\ UNCHANGED <<daemon, boot, dirs, up, conf, proc, executed, swallowed,
                   orphaned>>

-----------------------------------------------------------------------------
(* execute, on the worker thread.                                             *)

\* The worker takes a job and marks it running, whatever its row says.
Take ==
    /\ daemon = "up"
    /\ proc[Worker] = Idle
    /\ queue # <<>>
    /\ LET j == Head(queue)
       IN /\ SetStatus(j, "running")
          /\ executed' = [executed EXCEPT ![j] = @ + 1]
          /\ proc' = [proc EXCEPT ![Worker] =
                [op |-> "execute", job |-> j, pc |-> "check",
                 seen |-> "staged"]]
    /\ queue' = Tail(queue)
    /\ UNCHANGED <<daemon, boot, dirs, up, conf, swallowed, orphaned>>

\* The except clauses: remember the status to record, then stop the clones.
BuildAborts(status) ==
    proc' = [proc EXCEPT ![Worker].pc = "stopApp", ![Worker].seen = status]

\* A check between the steps of the copy.
BuildCheck ==
    /\ proc[Worker].op = "execute"
    /\ proc[Worker].pc \in {"check", "late"}
    /\ IF row[proc[Worker].job].cancel
       THEN BuildAborts("cancelled")
       ELSE Goto(Worker, IF proc[Worker].pc = "check" THEN "mkdir"
                                                      ELSE "create")
    /\ UNCHANGED <<daemon, boot, disk, queue, executed, swallowed, orphaned>>

\* directory.mkdir, which raises when the destination exists.
BuildDirectory ==
    /\ At(Worker, "execute", "mkdir")
    /\ LET tgt == row[proc[Worker].job].target
       IN /\ dirs' = dirs \cup {tgt}
          /\ IF tgt \in dirs THEN BuildAborts("failed")
                            ELSE Goto(Worker, "deps")
    /\ UNCHANGED <<daemon, boot, row, up, conf, queue, executed, swallowed,
                   orphaned>>

\* The copies, the network, the dedicated database and cache, which run from
\* here on.
BuildDependencies ==
    /\ At(Worker, "execute", "deps")
    /\ up' = [up EXCEPT ![proc[Worker].job] = @ \cup {"deps"}]
    /\ Goto(Worker, "late")
    /\ UNCHANGED <<daemon, boot, row, dirs, conf, queue, executed, swallowed,
                   orphaned>>

\* The credentials and docker create of the app and its companion, stopped;
\* the copy of the companion's site still looks at the cancel mark.
BuildCreate ==
    /\ At(Worker, "execute", "create")
    /\ \/ Goto(Worker, "record")
       \/ /\ proc[Worker].job \in Frontend
          /\ row[proc[Worker].job].cancel
          /\ BuildAborts("cancelled")
    /\ UNCHANGED <<daemon, boot, disk, queue, executed, swallowed, orphaned>>

\* Any other exception of the try block.
BuildFails ==
    /\ proc[Worker].op = "execute"
    /\ proc[Worker].pc \in BuildSteps
    /\ BuildAborts("failed")
    /\ UNCHANGED <<daemon, boot, disk, queue, executed, swallowed, orphaned>>

\* Mutant: the result of a job that was cancelled meanwhile is not recorded.
BuildRecordUnlessCancelled ==
    /\ At(Worker, "execute", "record")
    /\ IF row[proc[Worker].job].cancel
       THEN UNCHANGED row
       ELSE SetStatus(proc[Worker].job, proc[Worker].seen)
    /\ Return(Worker)
    /\ UNCHANGED <<daemon, boot, dirs, up, conf, queue, executed, swallowed,
                   orphaned>>

\* The last UPDATE of execute.
BuildRecord ==
    /\ At(Worker, "execute", "record")
    /\ SetStatus(proc[Worker].job, proc[Worker].seen)
    /\ Return(Worker)
    /\ UNCHANGED <<daemon, boot, dirs, up, conf, queue, executed, swallowed,
                   orphaned>>

-----------------------------------------------------------------------------
(* cancel, which takes no lock.                                               *)

\* current = self.status(rid).
CancelRead(t, j) ==
    /\ daemon = "up"
    /\ proc[t] = Idle
    /\ row[j].status # "none"
    /\ proc' = [proc EXCEPT ![t] = [op |-> "cancel", job |-> j, pc |-> "flag",
                                    seen |-> row[j].status]]
    /\ UNCHANGED <<daemon, boot, disk, queue, executed, swallowed, orphaned>>

\* UPDATE jobs SET cancel=1; the status read before decides what follows.
CancelFlag(t) ==
    /\ At(t, "cancel", "flag")
    /\ row' = [row EXCEPT ![proc[t].job].cancel = TRUE]
    /\ IF proc[t].seen \in StoppedByCancel THEN Goto(t, "stopApp")
                                            ELSE Return(t)
    /\ UNCHANGED <<daemon, boot, dirs, up, conf, queue, executed, swallowed,
                   orphaned>>

\* After stop_clones and unpublish: status='cancelled'.
CancelSettle(t) ==
    /\ At(t, "cancel", "settle")
    /\ SetStatus(proc[t].job, "cancelled")
    /\ Return(t)
    /\ UNCHANGED <<daemon, boot, dirs, up, conf, queue, executed, swallowed,
                   orphaned>>

-----------------------------------------------------------------------------
(* activate, under self.lock from here to its end.                            *)

\* A fresh receipt for a staged job; other requests change nothing.
ActivateBegin(t, j) ==
    /\ daemon = "up"
    /\ proc[t] = Idle
    /\ LockFree
    /\ row[j].status = "staged"
    /\ proc' = [proc EXCEPT ![t] = [op |-> "activate", job |-> j,
                                    pc |-> "check", seen |-> "staged"]]
    /\ UNCHANGED <<daemon, boot, disk, queue, executed, swallowed, orphaned>>

NextCheck == [check |-> "mark", recheck |-> "publish", confirm |-> "finish"]

\* The checks before, in the middle of and after the publication.
ActivateCheck(t) ==
    /\ proc[t].op = "activate"
    /\ proc[t].pc \in DOMAIN NextCheck
    /\ Checked(t, NextCheck[proc[t].pc], "stopApp")
    /\ UNCHANGED <<daemon, boot, disk, queue, executed, swallowed, orphaned>>

\* UPDATE jobs SET status='activating'.
ActivateMark(t) ==
    /\ At(t, "activate", "mark")
    /\ SetStatus(proc[t].job, "activating")
    /\ Goto(t, "start")
    /\ UNCHANGED <<daemon, boot, dirs, up, conf, queue, executed, swallowed,
                   orphaned>>

\* docker network connect and docker start of the app.
ActivateStart(t) ==
    /\ At(t, "activate", "start")
    /\ up' = [up EXCEPT ![proc[t].job] = @ \cup {"app"}]
    /\ Goto(t, "health")
    /\ UNCHANGED <<daemon, boot, row, dirs, conf, queue, executed, swallowed,
                   orphaned>>

\* The health loop: it leaves on the cancel mark, on a container that does not
\* run, and after 60 polls; a poll that decides nothing is no step.
ActivateHealth(t) ==
    /\ At(t, "activate", "health")
    /\ Checked(t, CASE "app" \notin up[proc[t].job] -> "stopApp"
                    [] proc[t].job \in Frontend -> "startWeb"
                    [] OTHER -> "recheck", "stopApp")
    /\ UNCHANGED <<daemon, boot, disk, queue, executed, swallowed, orphaned>>

\* docker start of the static companion.
ActivateStartWeb(t) ==
    /\ At(t, "activate", "startWeb")
    /\ up' = [up EXCEPT ![proc[t].job] = @ \cup {"web"}]
    /\ Goto(t, "healthWeb")
    /\ UNCHANGED <<daemon, boot, row, dirs, conf, queue, executed, swallowed,
                   orphaned>>

\* The health loop of the companion.
ActivateHealthWeb(t) ==
    /\ At(t, "activate", "healthWeb")
    /\ Checked(t, IF "web" \in up[proc[t].job] THEN "recheck" ELSE "stopApp",
               "stopApp")
    /\ UNCHANGED <<daemon, boot, disk, queue, executed, swallowed, orphaned>>

\* publish: the route file is created exclusively.
ActivatePublish(t) ==
    /\ At(t, "activate", "publish")
    /\ conf' = conf \cup {proc[t].job}
    /\ Goto(t, IF proc[t].job \in conf THEN "stopApp" ELSE "reload")
    /\ UNCHANGED <<daemon, boot, row, dirs, up, queue, executed, swallowed,
                   orphaned>>

\* Mutant: nobody looks at the cancel mark after the publication.
ActivateReloadUnconfirmed(t) ==
    /\ At(t, "activate", "reload")
    /\ \/ /\ Goto(t, "finish")
          /\ UNCHANGED conf
       \/ /\ conf' = conf \ {proc[t].job}
          /\ Goto(t, "stopApp")
    /\ UNCHANGED <<daemon, boot, row, dirs, up, queue, executed, swallowed,
                   orphaned>>

\* publish: nginx -t and reload; on an error the file is removed.
ActivateReload(t) ==
    /\ At(t, "activate", "reload")
    /\ \/ /\ Goto(t, "confirm")
          /\ UNCHANGED conf
       \/ /\ conf' = conf \ {proc[t].job}
          /\ Goto(t, "stopApp")
    /\ UNCHANGED <<daemon, boot, row, dirs, up, queue, executed, swallowed,
                   orphaned>>

\* UPDATE jobs SET status='available'; the lock is released.
ActivateFinish(t) ==
    /\ At(t, "activate", "finish")
    /\ SetStatus(proc[t].job, "available")
    /\ Return(t)
    /\ UNCHANGED <<daemon, boot, dirs, up, conf, queue, executed, swallowed,
                   orphaned>>

\* An exception of the try block: a failed command, an unhealthy container.
ActivateFails(t) ==
    /\ proc[t].op = "activate"
    /\ proc[t].pc \in ActivateSteps \ {"reload"}
    /\ Goto(t, "stopApp")
    /\ UNCHANGED <<daemon, boot, disk, queue, executed, swallowed, orphaned>>

\* The end of the except clause: status='activation_failed'; lock released.
ActivateSettle(t) ==
    /\ At(t, "activate", "settle")
    /\ SetStatus(proc[t].job, "activation_failed")
    /\ Return(t)
    /\ UNCHANGED <<daemon, boot, dirs, up, conf, queue, executed, swallowed,
                   orphaned>>

-----------------------------------------------------------------------------

Boot == BootMark \/ BootStop \/ BootServe

\* A step of the call or job a thread is in.
ThreadStep(t) ==
    \/ Stop(t) \/ UnpublishLook(t) \/ UnpublishUnlink(t) \/ UnpublishReload(t)
    \/ UnpublishFails(t)
    \/ CancelFlag(t) \/ CancelSettle(t)
    \/ ActivateCheck(t) \/ ActivateMark(t) \/ ActivateStart(t)
    \/ ActivateHealth(t) \/ ActivateStartWeb(t) \/ ActivateHealthWeb(t)
    \/ ActivatePublish(t) \/ ActivateReload(t) \/ ActivateFinish(t)
    \/ ActivateFails(t) \/ ActivateSettle(t)

WorkerStep ==
    \/ Take \/ BuildCheck \/ BuildDirectory \/ BuildDependencies \/ BuildCreate
    \/ BuildFails \/ BuildRecord \/ Stop(Worker)

Request ==
    \/ \E j \in Jobs, tgt \in Targets : Clone(j, tgt)
    \/ \E t \in Threads, j \in Jobs : CancelRead(t, j) \/ ActivateBegin(t, j)

Next ==
    \/ Crash \/ Boot \/ WorkerStep \/ Request
    \/ \E t \in Threads : ThreadStep(t)

Spec == Init /\ [][Next]_vars

\* systemd restarts the daemon; the threads of the daemon are scheduled and
\* every command they wait for has a timeout.  Nothing is assumed of requests
\* or of crashes.
FairSpec ==
    /\ Spec
    /\ WF_vars(Boot)
    /\ WF_vars(WorkerStep)
    /\ \A t \in Threads : WF_vars(ThreadStep(t))

-----------------------------------------------------------------------------
(* Properties.                                                                *)

TypeOK ==
    /\ daemon \in {"down", "starting", "up"}
    /\ boot \subseteq Jobs
    /\ row \in [Jobs -> [status : Statuses, target : Targets \cup {NoTarget},
                         cancel : BOOLEAN]]
    /\ dirs \subseteq Targets
    /\ up \in [Jobs -> SUBSET Parts]
    /\ conf \subseteq Jobs
    /\ queue \in Seq(Jobs)
    /\ proc \in [Agents -> [op : {"none", "execute", "cancel", "activate"},
                            job : Jobs \cup {NoJob},
                            pc : BuildSteps \cup ActivateSteps \cup StopSteps
                                 \cup UnpublishSteps
                                 \cup {"idle", "flag", "settle", "record"},
                            seen : Statuses]]
    /\ executed \in [Jobs -> Nat]
    /\ swallowed \subseteq Jobs
    /\ orphaned \subseteq Jobs

\* No thread of the daemon works on the job.
Quiet(j) == daemon = "up" /\ \A a \in Agents : proc[a].job # j

\* "Never automatically replay an interrupted DB mutation": whatever crashes
\* and is sent again, the copy and the database restore of a job begin once.
ExecutedOnce == \A j \in Jobs : executed[j] =< 1

\* A job that ended without success leaves nothing running behind it, and no
\* route unless the daemon died, although cancel, activation and the worker
\* start, stop and publish the same containers without a common lock and a
\* crash may fall anywhere.  Excepted are errors of docker and nginx that the
\* code ignores by design, and jobs whose row hid the crash from the next start.
EndedIsDown ==
    \A j \in Jobs :
        /\ row[j].status \in {"failed", "cancelled", "activation_failed",
                              "interrupted"}
        /\ Quiet(j)
        /\ j \notin swallowed \cup orphaned
        => up[j] = {} /\ (j \in conf => row[j].status = "interrupted")

\* Work in flight ends: its worker or its activation ends it, or the daemon
\* that restarts marks it interrupted.
InFlightSettles ==
    \A j \in Jobs : row[j].status \in InFlight ~> row[j].status \notin InFlight

\* APPLICATION-OPERATOR.md: "`available` requires all these steps" (start,
\* health, route): the row turns available only with the app up and routed.
AvailableIsServed ==
    [][\A j \in Jobs :
          /\ row'[j].status = "available" /\ row[j].status # "available"
          => "app" \in up[j] /\ j \in conf]_vars
=============================================================================
