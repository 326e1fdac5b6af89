# Formal models of platform-infrastructure

TLA+ models of the parts of this repository that keep durable state while several
processes, threads or a crash may come between any two steps. Paths are relative
to the root of the repository. TLC checks the models on small instances, TLAPS
proves the theorems for every value of the constants, and `PROJECT.json` maps every
definition to the lines it stands for.

## 1. The system

The repository is an infrastructure platform for one host: a Control Center (web
server), privileged brokers and operators it calls over Unix sockets, schedulers
in containers, and operator scripts. Little of it is distributed; what is hard is
that privileged, non-idempotent work (backups, restores, container, database and
package mutations) is requested by one process, admitted by another and executed
by a third, each with its own files and each free to die at any instant.

| Component | Source | State | Operations | What is hard | What makes it correct |
|---|---|---|---|---|---|
| Backup queue admission | `control-center/backup/queue-admission.mjs` | four status directories, admission ledger, scheduler leases, `.admission.lock` | admit, claim, finish, mark-unknown, acquire/release lease, prune | several processes, crash between any two writes, old clock readings, a lock nobody steals | budget, rate and retention limits; one home per job; nothing lost; half-done work fails closed |
| Backup scheduler | `scripts/backup-scheduler.sh`, `scripts/backup-queue-control.mjs` | shell loop per replica, crontab | poll, claim, execute, settle, cron, run-on-start | `set -e`, restarts, work outside the queue | a job executes once; the queue drains |
| Docker action broker | `scripts/docker-action-broker.mjs` | replay ledger, `active.lock` with a hash-chained journal, worker containers, response | admit, journal, create/start/wait/delete workers, settle, release, recover | crash, timeout, lost peer and failed Engine calls at every point; replayed requests | at most one execution; no container without a journal entry; no forgotten effect; recovery ends |
| Application operator | `deployment/host/libexec/platform-application-operator.py` | SQLite job table, clone directories, containers, nginx routes | clone, activate, cancel, restart | cancel without the lock of activate, unconditional UPDATEs, crash during clean-up | a copy begins once; what ended serves nothing; work in flight ends |
| Hosting lifecycle | `control-center/hosting/lifecycle.mjs`, `application-operator.mjs` | `hostingJobs`, project catalog | tick, clone, cancel, visibility | whole-job saves across awaits, calls that time out and go on in the operator | a cancelled clone ends in the operator; the catalog follows; a copy is first served behind Access |
| Cloudflare visibility | `control-center/providers/cloudflare-access.mjs` | Access applications, DNS records, tunnel routes, managed-state file | plan, apply (Public, Private, Offline) | calls that end half way, related hosts one after the other, wildcards, another writer | never served without Access unless the owner asked for Public |
| Managed databases | `control-center/server.mjs`, `database/ownership.mjs`, `database/destructive-workflow.mjs` | live databases and principals, registry, credential files, delete operations | create, update, rotate, request, approve and execute a deletion | one request is many durable writes and client commands; stale lists; a killed client whose DROP goes on | nothing dropped twice or unaccounted; no principal without a binding |
| Control state store | `control-center/state/file-store.mjs` | dataset files with revision metadata, lock files | read, write, update, append, import, rollback | stale-lock removal, two files per write, half-written lines | every call one atomic change; torn logs fail closed; a failed import is undone |
| Status executor and stream | `control-center/status/*.mjs`, `server.mjs`, `styles/control-center.js` | retained event log, subscriptions, browsers | emit, publish, subscribe, replay, pump, reconnect | overflow, back pressure, catch-up against live events, lost connections | every persisted event once and in order, or a definite end; slots come back |
| Runtime updates | `deployment/host/libexec/platform_runtime_updates.py` | containers, rollback journal, signed admission profile, operation records | plan, apply, undo, restart | calls that have their effect and fail, two-file profile, databases that must not be downgraded, deployments | an operation that asks for no recovery leaves every family whole |
| Host updates | the same and `platform_host_updates.py` | operation records, worker spool, APT, reboot intent, boot identity | check, upgrade, reboot, acknowledge, reconcile | a worker that outlives its caller, polls that decide on old readings, foreign reboots | a package change is never forgotten; no reboot during one |
| Passkey authentication | `control-center/auth/app-passkey.mjs` | challenges, sessions, counters (PostgreSQL) | begin, finish, revoke | replayed and expired ceremonies | a challenge is used once |
| Vault, activation, VPS backup, router, alerts, scripts | see `PROJECT.json` | various | various | mostly I/O, cryptography and external tools | |

How they interact: the Control Center calls `admit` of the queue in its own process;
scheduler containers call `claim`, `finish` and the rest through
`backup-queue-control.mjs`, on the same directory under the same lock, and execute a
job by sending a signed request to the Docker action broker; the broker runs worker
containers and answers over the socket. The hosting lifecycle polls the application
operator over HTTP on a Unix socket and asks the visibility provider whether Access
stands before the target. The status pages read the log the executor appends to. The
update bridge serves the portal over its own socket, replaces containers through the
Engine and starts the host worker as a transient systemd unit.

`PROJECT.json` lists every component with its status, and under `hazards` each place
where the code is exposed to something a test hardly reaches, with the properties
that cover it.

## 2. Modules

| Module | Models | Used by |
|---|---|---|
| `BackupQueue` | the queue, one durable write per step | `BackupScheduler`, `MCBackupQueue`, `BackgroundProofs` |
| `BackupScheduler` | EXTENDS `BackupQueue`: replicas of the shell loop, cron, portal and operator as callers of the queue | `MCBackupScheduler`, `MCBackground`, `BackgroundProofs` |
| `StatusStream` | executor, event broker, pumps and browsers | `MCBackground`, `BackgroundProofs` |
| `DockerActionLease` | replay ledger, lease, journal, executor, settlement, recovery | `MCDockerActionLease`, `MCHostAgents`, `DockerActionLeaseProofs` |
| `ApplicationOperator` | the clone operator's daemon, worker and request threads | `HostingLifecycle`, `MCApplicationOperator`, `MCHostAgents`, `ApplicationOperatorProofs` |
| `HostingLifecycle` | EXTENDS `ApplicationOperator`: the portal's side, over calls that fail or time out | `MCHostingLifecycle`, `HostingLifecycleProofs` |
| `AtomicStore` | what callers of the state store rely on | `FileStateStore` |
| `FileStateStore` | the state store, one file operation per step; implements `AtomicStore` | `MCFileStateStore`, `FileStateStoreProofs` |
| `ManagedDatabases` | databases, principals, credentials, deletions | `MCControlCenter`, `ControlCenterProofs` |
| `CloudflareVisibility` | Access, DNS and routes of one project | `MCControlCenter`, `ControlCenterProofs` |
| `RuntimeUpdates` | container updates with journal, undo and admission | `MCControlCenter`, `RuntimeUpdatesProofs` |
| `HostUpdates` | check, upgrade and reboot of the host | `MCControlCenter`, `HostUpdatesProofs` |
| `MC*` | values of the constants, symmetry, and which part runs | the `.cfg` files |
| `*Proofs` | theorems and lemmas | TLAPS |

Definitions whose comment begins with "Mutant" are plausible bugs of the definition
after them. No specification uses them; each shows that a property would notice.

Four MC modules put two to four parts side by side that share no state: a variable
(`mode` or `part`) chosen at the start says which one runs, and the others stand
still. The states are the sum of those of the parts, and each property is that of its
part.

### BackupQueue

`dir`, `doc`, `ledger`, `leases` and `lock` are the files; `pc` and `call` say where
each process is inside `withQueueLock`. A call reads the clock before it waits for
the lock and keeps that reading (`call.now`), as the code does. Admit reserves in
the ledger, then writes the job; claim renames, then writes; finish writes, renames,
prunes. A failed write takes the code's own repair path; any other I/O failure, and a
failure to write the owner file of the lock, has the effects of `Crash` or of
`IOFailure`: the call ends between two writes. A lock left by a dead process is only
removed by an operator (`OperatorClearsLock`), since the code never steals it.
The history `admissions` keeps both instants of an admission: `at`, the clock its
caller had read, which the code writes into the ledger, and `done`, the clock at
which the job became durable.
Documents are reduced to the fields the properties read; names are ordered numbers.

### BackupScheduler

`loop[r]` is the shell loop of a replica: poll, claim, execute, settle. A
`queue_control` that exits nonzero outside a tested position ends the background
loop (`dead`) while the container lives on, as `set -e` does. `ContainerStops` and
`ContainerStarts` are restarts; cron entries and run-on-start execute without the
queue. The portal admits, the operator marks and finishes by hand. The clock stands
still in these runs, since no loop step depends on it.

### StatusStream

The server is one JavaScript thread, so an action is the code between two awaits. An
event is its run and its number, and the last one is run-completed. The executor
appends to the retained log, then publishes; a subscription queues, and one pump per
connection sends the replay, then the queue, with back pressure and a deadline. The
browser reconnects with the number of the last event it has seen. Connections are cut,
queues overflow, the log drops its oldest events, an append fails with or without its
effect. Byte limits, keep-alive contents and the shutdown of the broker are left out.

### DockerActionLease

`replay` is the ledger of consumed requests, `lock` the request in `active.lock`,
`journal` its entries, `boxes` the worker containers, `op` what the running broker holds
in memory. Appending is two steps, as in the code: the entry file, then the head in
`active.lock`. A plan gives the workers of an action in order, by kind: plain,
local-nonidempotent, helper, or helper with a remote effect. Abstractions: the helpers
of one phase appear as one helper; scratch directories and sealed helper results, which
are journalled like the claimed-job snapshot, do not appear; only the default executor
(`createSemanticHelperActionExecutor`) is modelled; a call aborted by the timeout fails;
Engine requests of a dead broker are taken to have ended before the next one recovers;
there is one broker process. Recovery refuses to guess in many states and
leaves the broker down for an operator; that is the code's design and the model's.

### ApplicationOperator

`row` is the jobs table, `up` the containers that run, `conf` the route files, `proc`
the threads: the worker and one thread per request. A step is one SQL statement or
one external command. `self.lock` is held exactly while an activation runs, so it is
not a variable (`LockFree`); cancel does not take it. A failing command goes to the
except clause from any statement of a try block. `swallowed` and `orphaned` are
history: jobs with a clean-up error the code ignores by design, and jobs a crash took
from a thread while their row was not in flight, which the next start does not look at.
SQLite statements are taken to succeed. status, plan and list only read. What nginx has
loaded is not distinguished from its files. Repeated or foreign uses of a known
request identifier change nothing and are no step.

### HostingLifecycle

The operator's module with the portal on top: `saved` is `hostingJobs`, `catalog` the
project catalog, `tick` and `cancelling` the two async functions with the copy of the
job they hold across awaits. A native call that is not answered in time fails in the
caller and goes on in the operator; one that was written to the socket by a portal that
has ended may still arrive (`LateClone`). `mistaken` and `halved` are history: jobs that
cancel took for unknown to the operator, and jobs whose terminal status was saved and whose
catalog entry was not changed, or whose entry was written and not marked in the job.
`registerProject` runs after the save of the terminal status and may throw before or after
its write (`RegisterFails`: the entry is another source's, the lock of the store is not free
in time): `tick` swallows that, `cancel` answers with the error, and nothing repeats it for
a job that is cancelled. A save that fails for a cancelled job and succeeds in the catch
clause of the tick has the same outcome; a store that fails again there ends the tick and is
left out. Of the visibility only "Access stands before the target"
(`gated`) appears; the provider has its own module.

### FileStateStore and AtomicStore

A step is one file operation: create the lock with O_EXCL, judge it stale, remove it,
read, rename the data, rename the metadata, append. Contents are sequences of records
named by the call that wrote them, and a digest is the contents. `AtomicStore` says what
callers rely on: a call that succeeds adds its record to what is there in one step,
retention drops the oldest only, an import replaces as a whole and its rollback puts back
what was exported. The refinement maps `value` to the data files and ends
(`exclusive`) when `crowded`: judging a lock stale and removing it are two steps, and a
process that is slow between them removes the lock another one has just taken. Everything
up to that moment is checked to be atomic by the run; after it nothing is promised. Two things
the model shows on the way: an append cut before its newline is read as a record, and the
next append fuses two lines; a failing write of the owner file leaves a lock that only
time removes. Byte limits are left out.

### ManagedDatabases

A handler is synchronous, so what interleaves is requests: the list of databases is read
when a request arrives, the handler runs when its body has come. A step is one durable
write or one client command; a restart may come after each; `LateDrop` is the DROP of a
client that was killed after its 20 seconds. Passwords and live databases are numbers of
the calls that made them, so that a database created anew is told from its namesake. What
the module shows beside its properties: a request that read the list before a deletion
puts the metadata back (`revived`); an approved operation may drop the namesake created
after another operation dropped its own; a crash between metadata and activation strands a
reserved binding, fail-closed. DATABASE-DELETION-SAFETY.md asks for verified backup
evidence, which the code's policy always waives, so the evidence is not modelled.

### CloudflareVisibility

One project with its related hosts, visited in the order `Rank` in which `hostPlans` lists
them. A step is one write to Cloudflare or one save of the
state file; every kind of failure abandons the call before or after the effect. Effects of
a call that timed out land before the next apply is admitted. Another writer of the
tunnel may come between the check of the configuration and the PUT of the whole of it.

### RuntimeUpdates

`box` is a service: its original container (name, running, restart policy, network) and
the new one. A step of `apply_job` is one Engine call or one durable write, and a call that
fails may have had its effect. The undo goes through the backups in reverse. The admission
profile is two files, a generation each. Building and verifying images is a
nondeterministic success or failure. Deployments may come at any step before the first
change of a family and are caught by the fingerprints. Two kinds of damage are recorded in
the history variable `unseen`, because the code reports such an operation as settled: a
rename whose effect took place and whose answer was lost leaves the journal at "prepared",
so the undo does not rename back; and a profile that could not be put back after its second
write failed. When error.log or the last report cannot be written the operation stays
running until the service restarts.

### HostUpdates

`ops` is the public record, `execution` and `reboot` the private ones, `worker` the
transient unit with its spool and what APT did. One executor thread runs `host_job` and
`host_reboot_job`; a poll reads record, spool and unit in one step and decides in another.
The worker survives the bridge, and a wait that timed out leaves it as `bridge.child`
(`ActiveMaintenance`), until whose end this process runs no command. The end of a job may
raise and so may the reconciliation of its except clause (`JobRaises`). There is one poll at a
time, and `operation_update`, a load and a save, is one step: two polls in flight, or a
poll between the two file accesses, are left out. The five-second throttle of polls is ignored. An operation whose worker has no record yet may be marked
interrupted by a poll of a new process and healed by a later one; that is the code's design.

## 3. Runs

| Run | Instance | Shows |
|---|---|---|
| `queue` | 2 processes, 3 jobs, 2 of them the same work, 1 slot; every call with the clock still, or admissions against 3 ticks and a window of 2 | limits, duplicates, fail-closed and no loss with a crash at every write; old readings cost the rate window no more than the time their callers waited |
| `background` | 2 replicas, portal, operator, 2 jobs, 1 slot, with every fault or none; or 1 run of 4 events, 1 browser, 2 connections, 1 cut, queue of 1, log of 3, 1 failed append | a job executes at most once; without faults the queue drains; events are seen in order, streams end, slots return |
| `host_agents` | an offsite synchronisation and a claimed backup against the clock, or these and a two-phase drill, 2 faults; or 1 clone request on 2 threads with unlimited crashes | at most once, write-ahead, accounted effects, manual states stay, recovery converges; work in flight ends |
| `store` | 2 processes, 3 calls on a document and a log, 1 fault, 1 tick, retention of 2 | refinement of `AtomicStore`, torn logs fail closed, imports are undone |
| `control_center` | 2 databases, 2 deletions, 2 requests, 2 secrets, 2 faults; or 2 related hosts, 1 under a wildcard; or 3 families with 4 services, 1 of them a database, 2 faults, 1 deployment; or 2 host operations, 1 fault or foreign reboot | nothing dropped twice or unaccounted, principals bound, checkpoint first; never exposed, gate before route; no old engine over new data, settled is whole; package changes accounted for, no reboot during one |
| `hosting` | 1 job, 2 operator threads, 1 outage, failed registration or ignored error | a copy begins once, what ended is down, the catalog follows, cancels reach the operator, a copy is first served behind Access |
| `rate_window` | as `queue` | **violated**: two jobs of a requester are admitted in one window |
| `scheduler_record` | 1 replica, portal, no fault | **violated**: a claimed job is not always recorded |
| `lease_delivery` | 1 fault | **violated**: a failed response write settles the lease as delivered |
| `operator_serve` | 1 job, 2 threads | **violated**: a row turns available although its clone was stopped |
| `hosting_cancel` | as `hosting` | **violated**: "annullata e verificata" while the operator goes on with the copy |
| `reboot_scheduled` | 1 operation, no fault | **violated**: a refused reboot is put back to waiting and nothing is scheduled |

The six disagreements between text and code are under `findings`, with the quoted line
and the code's line; the trace of each run is the evidence. Three more were met and have
no run of their own: cron entries run beside the queue's budget although
BACKUP-JOB-CONTRACT.md:43 speaks of one budget (`backup-scheduler.sh:355`); the operator
commits "interrupted" before it stops the containers, contrary to APPLICATION-OPERATOR.md:123,
and a second crash leaves them running (`platform-application-operator.py:532`); and the lost
rename of `RuntimeUpdates`, against RUNTIME-UPDATES.md:26, "Stateless failure restores the
original container identity".

**Bounds.** Two callers of the queue suffice for every interleaving the lock admits (one
holder, one waiter with an old reading), three jobs for one duplicate and one rate-limited
request; one slot and one retained terminal file put every limit at its boundary. With the
clock still the retention age is not exercised, only the retention count; the rate mode
moves the clock across a whole window, so that a caller that asked at its start is admitted
at its end, beside one that asked then. Two replicas are the least that can double an
execution. A queue of one event and a log shorter than the run make overflow, replay and
gap happen with four events. For the lease, two requests allow one to be replayed while the
other runs, and two faults allow a fault during the handling of a fault. For the
operator two threads allow a cancel beside an activation, or two cancels; jobs only interact in
the reservation of a destination, which the theorems about the operator cover for every set of
jobs. Two processes and three
calls let a store lock go stale, be judged, and be taken by another. Two deletions let one
drop the namesake of the other's database, two slots one stale request beside another. The
families of the updates are a stateless one with a running and a stopped service, a
database and a tool with data of its own, so that a batch has a family before and after the one that fails; two
faults allow a failure and another in its undo, or an end of the process in it. Two host operations allow one to be submitted while
the worker of the other goes on; its one fault may be the end of the bridge, a foreign reboot or
a failed call, besides the reboots that are asked for. What more faults, families, databases or
hosts could show is left to the theorems, which bound none of them. Symmetry is used for interchangeable values, in runs
without liveness only.

**Deadlock.** It is checked in `queue` and `control_center`. The others may stop: all
requests consumed, nobody calling, all work done.

**Fairness.** The loops of the scheduler and portal calls under way are weakly fair in the
healthy mode, as the operating system's scheduler gives processes that run; nothing is
assumed of new requests. A waiter that is overtaken forever by refused admissions is not
modelled. In the stream mode the executor, each pump and each browser step is weakly fair
(an event loop that runs; EventSource retries by itself); cuts are bounded. The broker's next
step is weakly fair, since every wait in it has a timeout, and so is its restart by the
container runtime. The operator's threads are weakly fair (each command has a timeout)
and so is its restart (`Restart=on-failure` in its systemd unit), not requests, and crashes
may go on forever. The other runs check safety only: store, databases, visibility, hosting
and maintenance need an owner or an administrator to go on after a failure.

## 4. Proofs

**Queue** (`BackgroundProofs`). Type correctness, then `QueueInv`, the conjunction of
`LockDiscipline` (who is between two writes holds the lock), `CallTimes` (a reading is
never ahead of the clock), `CallProgress` (what a process that stopped between two
writes has established), `DirectoryInv` (the limits and the single home) and the ledger
facts. The limits are not inductive alone: that an admission does not exceed them
depends on what was read under the lock before the reservation, which `CallProgress`
carries over to the write. The code counts in the window of the caller's clock, read before
the lock was waited for, so the window the contract promises (`SlidingWindow`, by the instants
at which jobs become durable) does not hold: an event stamped early leaves the ledger early.
`RateBound` says how much does: of the requests whose callers waited at most d, no more than
maxPerPrincipal of a requester become durable in any `Window - d` ticks, for every d and every
such stretch, past ones included. The proof bounds the stamps first: `RateInWindow` those
inside the window that ends now, while `LedgerNeverUndercounts` keeps compaction from dropping
any of them; then an admission that became durable less than `Window - d` ago after a wait of
at most d has its stamp inside the window (`RateNow`), and a stretch that ends in the past
only has what was counted when it ended (`RateStep`). The assumptions are `PolicyAssumption` (the bounds the policy
parser enforces) and `DomainAssumption`. The three action properties follow from the same
invariant. `OutstandingBound`, `SingleHome`, `OnlyHolderWrites` and `LedgerNeverUndercounts`
are proved and in no run; `RateBound` is checked as `RateKept`.

The scheduler's part of the module shows first that replicas, portals and operators are
clients of the queue (`SchedulerImplementsQueue`), so every theorem above holds for them.
`ExecutedAtMostOnce` rests on `OnceInv`: each role makes only its own calls (`RolesOK`), an
identifier is admitted once (`AdmitOK`), a job that waits was never started (`WaitingOK`),
and a claimed job has left the queue for good, belongs to one replica and was not started
before that replica starts it (`ClaimedOK`, `StartedOK`). That it has left for good is
where the scheduler depends on the queue: no step puts a file back among the queued.

**Streams** (`BackgroundProofs`). `SeenInOrder` and the types, for any runs, browsers,
connections and limits, from `StreamInv`. Its heart is `Fed`: what is on the wire to a
browser are the numbers that follow the last it has seen, up to the last the pump wrote
(`Written`, which differs from the cursor while a frame is blocked), and no further than
the run is on disk. That holds for a connection that is over as well, whose last frames the
browser still reads. `PumpOK` says that replay and queue hold nothing that is not on disk, which an
append that fails needs, and the last conjunct that no two browsers read one connection.
What the replay and the queue may repeat or leave out between them is not needed: the pump
sends what follows its cursor or ends the stream. The assumption is that each browser watches a run.

**Store** (`FileStateStoreProofs`). `StoreIsAtomic`, `TornFailsClosed`, `ImportRestores`
and the types, for any processes, datasets, calls and limits, from `StoreInv`. Who is inside
a lock owns its file (`LocksOK`), what was read under the lock is what the file still holds
(`ReadsOK`), and a last line without its newline is of a call that failed or is about to
(`OpenOK`), which is why the write that fuses it with its own only drops a record of a failed call.
These three hold until `crowded`; before that step they are all that the lock gives, and the
step itself is reachable, as the mapping of `exclusive` says. `UndoOK` is independent of it: what a rollback
that is alone (`AloneOK`) has passed is as it was exported. Each step of a process
goes through `StepKeeps`, which says what a step has to show beside the record of its own
process. A write that is computed from an earlier read is one atomic change because of `ReadsOK`;
that is what the second read under the lock is for. `StoreLimits` assumes finitely many
datasets, at least one.

**Lease** (`DockerActionLeaseProofs`). `AtMostOnce` for every plan, number of faults and
set of requests. The invariant `LedgerInv` says that a request that ran is spent: either
its replay entry is still kept, or the time in which it could be admitted is over. It is
inductive because the entry outlives the admission window: `Lifetime =< Retention`, an
assumption the contract's constants satisfy. `WriteAhead`, `EffectAccounted` and
`ManualStays` rest on `LeaseInv` beside it, `TypeOK` with eight parts. What a container,
a snapshot or an effect has on disk depends on where the operation is and on what the
broker believes: `LockOK` and `WorkerOK` give the worker under way, `SyncOK` relates the record
in memory to the head and the entry files, which differ by one entry inside an append and
after a failed one, `JournalOK` and `EndOK` say what entries may follow one another and
where the journal is still open, and `BoxesOK`, `SealedOK` and `EffectsOK` are the
agreement of Engine and journal itself. `LedgerInv` is needed because effects are
remembered by request: a lease that is acquired is of a request that never ran, so none
of its effects is there.

**Operator** (`ApplicationOperatorProofs`). Type correctness and `ExecutedOnce`, from
`Inv`: every thread that is not idle works on a job of the table (`ProcOK`), a job of
the table has a destination (`RowOK`), the queue holds each untaken job once
(`QueueOK`), and the count of executions agrees with table and queue (`CountOK`). Each
is needed: a row must never fall back to "not in the table", or a repeated request would
be admitted again, and the only status a thread writes that is not a literal is the one
the worker remembers. Steps that keep the table's keys, the queue and the count share
the lemma `LocalStepKeepsInv`. `EndedIsDown` needs `DownInv` beside it: for every job
that is not excepted (its thread died in a crash of the clean-up, or a stop's error was
ignored), a job nobody took has nothing (`WaitingOK`), a copy runs only what its step has
started (`BuildingOK`), cancels and activations meet only jobs whose copy is over
(`LateOK`), and what a thread has stopped is down or is still to be stopped by the
activation that started it again (`StoppingOK`). That is why a cancel beside an activation
is harmless: it sets the mark first, and the activation's last check sees it.

**Hosting** (`HostingLifecycleProofs`). `CatalogFollows`, `ServedIsGated` and
`CancelNotForgotten`, and through `HostingImplementsOperator` all that is proved of the
operator, for any jobs, targets, threads and outages. `PortalInv` says what each step of tick and cancel knows of its job:
the copies that tick, cancel and the store hold of a job differ in their status and lag
behind in the cancel mark, but agree on `registered` (`CopyOK`, `OwnOK`), since only a tick
changes that and it does so without an await; what is cancelled and still offered is about
to be withdrawn by the tick or cancel at hand (`WithdrawnOK`), or its registration threw or was
cut off, which `halved` marks. `CatalogFollows` says that a job marked registered is on offer
until its cancellation is asked for, whatever fails, and off it afterwards with that exception. `ServedIsGated` is about a
publication long after the portal last looked, so it needs to know which activations may
still serve a copy (`Serving`): the first checks of a cancelled job are enough to stop it, but
an activation past its last check before the route is not stopped by the mark, only by the
stop of the app. `ServeInv` says of the operator that a row which ended, and a cancel that has
stopped the app, leave no such activation. `GateInv` says of the portal that whatever it
takes for ended, from the row, from an answer on its way or from a copy it read earlier, is
`Closed`: nothing serves the job and no activation is near. Visibility refuses a target
with a clone request or a job that has not ended, so Access goes only where all is closed.
Both hold for jobs without an ignored docker or nginx error (`swallowed`), the exception the property names.
`CancelNotForgotten` speaks of a portal at rest, but what it saved came through copies
and answers that others overtook. `ForgetInv` follows the news to where it came from:
wherever the portal has it that a job ended without success (`Told`: the saved row, the
copies of tick and cancel, the status a tick has read, an answer on its way), the operator
is done with the job (`Dead`) or has never heard of it and has no request of it to come
(`Unknown`). Each step of the operator keeps what is `Dead` or `Unknown` so, since what its call
has stopped is down (`DownInv`); each step of the portal passes such news on, or hears it
in an answer to its own call (`GateInv`) from a row of which it is true (`Tells`). Excepted are the jobs the property names: `mistaken`, `swallowed`, `orphaned`.

**Visibility** (`ControlCenterProofs`). `NeverExposed`, `DamageNeedsCause` and
`GateBeforeRoute` for every finite set of hosts, every order `Rank` and every wildcard.
`VisibilityInv` says for each step of `applyVisibilityLocked` what the steps before it
established: `GatedFirst` (all hosts behind Access before the first route of a private
project with related hosts), `AskedFor`, `TunnelWrite` (what the PUT is about to write),
`RouteFirst`, and `Agreement`, that only the host at hand can disagree with the state
file and only in what was written last.

**Databases** (`ControlCenterProofs`). `PrincipalsBound`, `LossIsAccounted`,
`DropsItsOwn` and `CheckpointFirst` for every set of databases, operations and requests.
`DatabaseInv` adds to them what a handler has done so far (`CreatingOK`, `DeletingOK`),
what a DROP that outlived its client belongs to (`LateOK`), and that an operation which
took a database can take no other (`SpentOK`): either it is finished, or the database is
gone and cannot be made anew while its binding is active.

**Runtime updates** (`RuntimeUpdatesProofs`).
`NeverOverNewData` for all families, services, deployments and faults, from `UpdatesSafe`:
the backups of rollback.json are those of the services up to the one at work (`BackupsOK`),
each as far as the thread is (`EntryOK`), and what a new version may have written is up,
copied, and known to its backup (`OldOK`, `WrittenOK`). `SettledIsWhole` needs more,
`WholeOK`: all families but the one at work are whole, that one has exactly the shape the
step implies (`Shape`, `ForwardOK`), the undo has put back what it has passed
(`BackwardOK`), the kept profile fits (`KeptOK`), and without a journal nothing was changed
(`JournalOK`). It holds while `unseen` is empty, which is the exception the property
names. The assumption is that families are non-empty and share no service.

**Host updates** (`HostUpdatesProofs`). `UpgradeAccounted` and `RebootSparesPackages` for
every set of operations and number of faults. An operation is in one place at a time
(`QueueOK`), a spool tells the truth about APT (`WorkerOK`), a poll decides on old readings of
which only success is stable (`PollOK`); `OpenOK` says that an upgrade that may still
change packages, and a reboot that may still come, keep every other operation out, and
`Exclusive` that they exclude each other.

**Only model-checked.** All liveness and the properties that rest on it (`HealthyDrains`,
`StreamEnds`, `RecoveryConverges`, `InFlightSettles`): fairness is out of the prover's
reach. `RateKept`, whose unconditional form `RateBound` is proved. The type invariants of MC
modules that run several parts are conjunctions of theirs.

## 5. Not modelled

The components with status `not_modelled` in `PROJECT.json`, each with its reason. The map
covers a small share of the repository's lines: most of the rest renders pages and
documents (`infra-ops.mjs`, `no-hosted-core-policy.mjs`, `control-center.js`, most of
`server.mjs`), validates documents, or is run once by an administrator, and keeps no state
that steps of several actors could damage.

Of the modelled components: the contents of jobs, requests, copies and containers;
signatures, identities and peer authentication; file permission checks; byte limits; the
admission of activations and generations in the broker and its legacy executor; the backup
and restore of single databases; the building of images and the simulation of APT.

Hazards that were met and that no property covers: an activation's replay file is written
before `active-activation.json`, and a crash between them spends the activation
(`docker-action-broker.mjs:345`); a second crash at the operator's start
(`platform-application-operator.py:534`); a failing reload after a route was removed
(`:646`), whose retry finds nothing to remove; a crash between the mark of a cancel and the
activation that would notice it (`:575`); two ceremonies on one passkey challenge
(`app-passkey.mjs:622`), which PostgreSQL's transactions decide.

## 6. Plan

1. `DockerActionLease`: the activation and generation chain; scratch directories and helper
   results; several helpers of a phase.
2. Candidates after it: vault revisions, platform activation, the order of production
   restores, alert retries, passkey ceremonies.
